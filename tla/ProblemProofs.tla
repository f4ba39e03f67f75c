---------------------------- MODULE ProblemProofs ----------------------------
(***************************************************************************)
(* Proofs about the problems, for every value of their constants: a case   *)
(* that is cut short scores nothing, a pass has been earned, no labyrinth  *)
(* has a short cut, and the werewolf game is fair to the obedient.  Each   *)
(* problem has an inductive invariant of its own; a case of any of them    *)
(* has its problem's.                                                      *)
(***************************************************************************)
EXTENDS Problems, Sequences, FiniteSetTheorems, WellFoundedInduction, TLAPS

-----------------------------------------------------------------------------
(* --- Least numbers, and recursive functions: induction over data. --- *)

Below == {p \in Nat \X Nat : p[1] < p[2]}
LEMMA BelowIsWellFounded == IsWellFoundedOn(Below, Nat)
<1>1. Below = OpToRel(<, Nat)
  BY DEF Below, OpToRel
<1>2. QED BY <1>1, NatLessThanWellFounded

LEMMA Least ==
  ASSUME NEW T \in SUBSET Nat, T # {}
  PROVE  \E n \in T : \A m \in T : n <= m
<1>1. PICK n \in T : \A m \in T : <<m, n>> \notin Below
  BY BelowIsWellFounded, WFMin
<1>2. ASSUME NEW m \in T PROVE n <= m
  <2>1. n \in Nat /\ m \in Nat /\ <<m, n>> \notin Below
    BY <1>1
  <2>2. ~(<<m, n>>[1] < <<m, n>>[2])
    BY <2>1, Zenon DEF Below
  <2>3. QED BY <2>1, <2>2
<1>3. QED BY <1>2

LEMMA UpFromZero ==
  ASSUME NEW T, 0 \in T, \A n \in T : n + 1 \in T
  PROVE  Nat \subseteq T
<1>1. SUFFICES ASSUME Nat \ T # {} PROVE FALSE
  OBVIOUS
<1>2. PICK n \in Nat \ T : \A m \in Nat \ T : n <= m
  BY <1>1, Least
<1>3. n # 0 /\ n - 1 \in Nat
  BY <1>2
<1>4. n - 1 \in T
  BY <1>2, <1>3
<1>5. (n - 1) + 1 \in T
  BY <1>4
<1>6. QED BY <1>2, <1>5

LEMMA UpTo ==
  ASSUME NEW k \in Nat, NEW T, 0 \in T, \A n \in 0..(k - 1) : n \in T => n + 1 \in T
  PROVE  0..k \subseteq T
<1> DEFINE U == {n \in Nat : n \in T \/ n > k}
<1>1. 0 \in U
  OBVIOUS
<1>2. \A n \in U : n + 1 \in U
  OBVIOUS
<1>3. Nat \subseteq U
  <2> HIDE DEF U
  <2> QED BY <1>1, <1>2, UpFromZero
<1>4. QED BY <1>3

Unfolds(r, k, a, G) == \A i \in 0..k : r[i] = (IF i = 0 THEN a ELSE G[i][r[i - 1]])

LEMMA Iterated ==
  ASSUME NEW k \in Nat, NEW A, NEW a \in A, NEW G \in [1..k -> [A -> A]]
  PROVE  \E r \in [0..k -> A] : Unfolds(r, k, a, G)
<1> DEFINE T == {m \in Nat : \E r \in [0..m -> A] : Unfolds(r, m, a, G)}
<1>1. 0 \in T
  <2> DEFINE r == [i \in 0..0 |-> a]
  <2>1. r \in [0..0 -> A] /\ Unfolds(r, 0, a, G)
    BY DEF Unfolds
  <2>2. QED BY <2>1
<1>2. ASSUME NEW n \in 0..(k - 1), n \in T PROVE n + 1 \in T
  <2>1. PICK r \in [0..n -> A] : Unfolds(r, n, a, G)
    BY <1>2
  <2> DEFINE q == [i \in 0..(n + 1) |-> IF i = n + 1 THEN G[n + 1][r[n]] ELSE r[i]]
  <2>2. r[n] \in A /\ n + 1 \in 1..k /\ G[n + 1] \in [A -> A]
    OBVIOUS
  <2>3. q \in [0..(n + 1) -> A]
    BY <2>2
  <2>4. ASSUME NEW i \in 0..(n + 1) PROVE q[i] = (IF i = 0 THEN a ELSE G[i][q[i - 1]])
    <3>1. CASE i = n + 1
      BY <3>1
    <3>2. CASE i # n + 1
      <4>1. i \in 0..n /\ q[i] = r[i] /\ (i # 0 => q[i - 1] = r[i - 1])
        BY <3>2
      <4>2. QED BY <4>1, <2>1 DEF Unfolds
    <3>3. QED BY <3>1, <3>2
  <2>5. Unfolds(q, n + 1, a, G)
    <3> HIDE DEF q
    <3> QED BY <2>4 DEF Unfolds
  <2>6. n + 1 \in Nat
    OBVIOUS
  <2>7. QED
    <3> HIDE DEF q
    <3> QED BY <2>3, <2>5, <2>6
<1>3. 0..k \subseteq T
  <2> HIDE DEF T
  <2> QED BY <1>1, <1>2, UpTo
<1>4. QED BY <1>3

-----------------------------------------------------------------------------
(* --- What no case scores before it has ended; the problems that need no more. --- *)

(* Until a case has ended there is nothing to be scored. *)
Unscored(nothing) ==
  /\ verdict \in Mazes!Verdicts
  /\ verdict = "running" => nothing
  /\ verdict \in Mazes!CutShort => score = 0

MazeUnscored == Unscored(env.stage = "play" => ~env.success)
LEMMA MazeStarts == ASSUME Mazes!MazeInit PROVE MazeUnscored
  BY DEF Mazes!MazeInit, Mazes!CaseInit, MazeUnscored, Unscored, Mazes!Verdicts, Mazes!CutShort
LEMMA MazeGoesOn == ASSUME MazeUnscored, Mazes!MazeNext PROVE MazeUnscored'
<1> USE DEF MazeUnscored, Unscored, Mazes!Verdicts, Mazes!CutShort
<1>1. ASSUME NEW e, Mazes!After(e), e.stage = "play" PROVE MazeUnscored'
  BY <1>1 DEF Mazes!After, Mazes!Applied
<1>2. ASSUME NEW c, Mazes!Carve(c) PROVE MazeUnscored'
  BY <1>2 DEF Mazes!Carve
<1>3. ASSUME Mazes!Thin PROVE MazeUnscored'
  BY <1>3 DEF Mazes!Thin
<1>4. ASSUME Mazes!TooSmall PROVE MazeUnscored'
  BY <1>4 DEF Mazes!TooSmall, Mazes!Raised
<1>5. ASSUME NEW s, NEW t, Mazes!PickStartEnd(s, t) PROVE MazeUnscored'
  BY <1>5 DEF Mazes!PickStartEnd, Mazes!Started
<1>6. ASSUME Mazes!InvalidDirection PROVE MazeUnscored'
  BY <1>1, <1>6 DEF Mazes!InvalidDirection, Mazes!Playing
<1>7. ASSUME NEW d, Mazes!HitWall(d) PROVE MazeUnscored'
  BY <1>7 DEF Mazes!HitWall, Mazes!Playing, Mazes!After, Mazes!Applied
<1>8. ASSUME NEW d, Mazes!Move(d) PROVE MazeUnscored'
  BY <1>8 DEF Mazes!Move, Mazes!Playing, Mazes!After, Mazes!Applied
<1>9. ASSUME Mazes!Abandoned PROVE MazeUnscored'
  BY <1>9 DEF Mazes!Abandoned, Mazes!Playing, Mazes!Interrupted, Mazes!Points, Mazes!EfficiencyScore
<1>10. QED
  BY <1>2, <1>3, <1>4, <1>5, <1>6, <1>7, <1>8, <1>9 DEF Mazes!MazeNext

LabyrinthUnscored == Unscored(env.stage = "play" => ~env.success)
LEMMA LabyrinthStarts == ASSUME Labyrinths!LabyrinthInit PROVE LabyrinthUnscored
  BY DEF Labyrinths!LabyrinthInit, Labyrinths!CaseInit, LabyrinthUnscored, Unscored, Mazes!Verdicts, Mazes!CutShort
LEMMA LabyrinthGoesOn == ASSUME LabyrinthUnscored, Labyrinths!LabyrinthNext PROVE LabyrinthUnscored'
<1> USE DEF LabyrinthUnscored, Unscored, Mazes!Verdicts, Mazes!CutShort, Labyrinths!CutShort
<1>1. ASSUME NEW d, Labyrinths!CarveMainPath(d) PROVE LabyrinthUnscored'
  BY <1>1 DEF Labyrinths!CarveMainPath
<1>2. ASSUME NEW branches, NEW walls, Labyrinths!Generate(branches, walls) PROVE LabyrinthUnscored'
  BY <1>2 DEF Labyrinths!Generate, Labyrinths!Started
<1>3. ASSUME Labyrinths!InvalidDirection PROVE LabyrinthUnscored'
  BY <1>3 DEF Labyrinths!InvalidDirection, Labyrinths!Playing, Labyrinths!Applied
<1>4. ASSUME NEW cell, Labyrinths!Blocked(cell) PROVE LabyrinthUnscored'
  BY <1>4 DEF Labyrinths!Blocked, Labyrinths!Playing, Labyrinths!After, Labyrinths!Applied
<1>5. ASSUME NEW cell, Labyrinths!Move(cell) PROVE LabyrinthUnscored'
  BY <1>5 DEF Labyrinths!Move, Labyrinths!Playing, Labyrinths!After, Labyrinths!Applied
<1>6. ASSUME Labyrinths!Abandoned PROVE LabyrinthUnscored'
  BY <1>6 DEF Labyrinths!Abandoned, Labyrinths!Playing, Labyrinths!Interrupted, Labyrinths!Points, Labyrinths!EfficiencyScore
<1>7. QED
  BY <1>1, <1>2, <1>3, <1>4, <1>5, <1>6 DEF Labyrinths!LabyrinthNext

OutputUnscored == Unscored(TRUE)
LEMMA OutputGoesOn == ASSUME OutputUnscored, Outputs!OutputNext PROVE OutputUnscored'
<1> USE DEF OutputUnscored, Unscored, Mazes!Verdicts, Mazes!CutShort, Outputs!CutShort
<1>1. ASSUME NEW e, NEW done, NEW success, NEW points, Outputs!Applied(e, done, success, points)
      PROVE  OutputUnscored'
  BY <1>1 DEF Outputs!Applied
<1>2. ASSUME NEW call, Outputs!Apply(call) PROVE OutputUnscored'
  BY <1>1, <1>2 DEF Outputs!Apply, Outputs!GetQuestion, Outputs!SubmitAnswer, Outputs!UnknownAction
<1>3. ASSUME Outputs!Interrupted(0) PROVE OutputUnscored'
  BY <1>3 DEF Outputs!Interrupted
<1>4. QED BY <1>2, <1>3 DEF Outputs!OutputNext

GameUnscored == Unscored(TRUE)
LEMMA GameGoesOn == ASSUME GameUnscored, Games!WerewolfNext PROVE GameUnscored'
<1> USE DEF GameUnscored, Unscored, Mazes!Verdicts, Mazes!CutShort, Games!CutShort
<1>1. ASSUME NEW e, NEW done, NEW success, NEW points, Games!Applied(e, done, success, points)
      PROVE  GameUnscored'
  BY <1>1 DEF Games!Applied
<1>2. ASSUME Games!Interrupted(0) PROVE GameUnscored'
  BY <1>2 DEF Games!Interrupted
<1>3. QED BY <1>1, <1>2 DEF Games!WerewolfNext, Games!Play, Games!Misplay, Games!ApplyActions

(* interrupt_judge: before an answer is submitted there is none. *)
Submissions == [1..Questions -> BOOLEAN] \cup {<<>>}
Judged ==
  [labels : [1..Questions -> BOOLEAN], started : BOOLEAN,
   user_answers : {Interrupts!NoAnswers, <<>>}, given : {Interrupts!NoAnswers} \cup Submissions]
JudgeInv ==
  /\ env \in Judged
  /\ verdict = "running" => env.user_answers = Interrupts!NoAnswers
  /\ verdict \in Mazes!Verdicts \ {"passed"} /\ score = 0
LEMMA JudgeStarts == ASSUME Interrupts!InterruptInit PROVE JudgeInv
  BY DEF Interrupts!InterruptInit, Interrupts!CaseInit, JudgeInv, Mazes!Verdicts, Mazes!CutShort, Judged
LEMMA NothingCorrect ==
  ASSUME NEW e \in Judged, e.user_answers = <<>>
  PROVE  ~Interrupts!Passes(e) /\ Interrupts!Points(e) = 0
<1>1. Questions \in Nat \ {0}
  BY ProblemsAssumption DEF Interrupts!InterruptAssumption
<1>2. {i \in 1..Interrupts!Smaller(Len(e.user_answers), Len(e.labels)) :
          e.user_answers[i] = e.labels[i]} = {}
  BY <1>1 DEF Interrupts!Smaller, Judged
<1>3. Interrupts!Cardinality({}) = 0
  BY FS_EmptySet DEF Interrupts!Cardinality, Cardinality
<1>4. Interrupts!Correct(e) = 0
  BY <1>2, <1>3 DEF Interrupts!Correct
<1>5. ~Interrupts!Passes(e)
  BY <1>1, <1>4 DEF Interrupts!Passes
<1>6. Interrupts!Points(e) = 0
  BY <1>1, <1>4 DEF Interrupts!Points
<1>7. QED BY <1>5, <1>6
LEMMA JudgeGoesOn == ASSUME JudgeInv, Interrupts!InterruptNext PROVE JudgeInv'
<1> USE DEF JudgeInv, Mazes!Verdicts, Mazes!CutShort, Interrupts!CutShort
<1>1. ASSUME Interrupts!GetProblem \/ Interrupts!UnknownAction PROVE JudgeInv'
  BY <1>1 DEF Interrupts!GetProblem, Interrupts!UnknownAction, Interrupts!Applied, Judged
<1>2. ASSUME NEW answers \in Submissions, Interrupts!SubmitAnswer(answers) PROVE JudgeInv'
  <2>1. Interrupts!ActionPayload(Interrupts!SubmitMessage(answers)) = <<>>
    BY DEF Interrupts!ActionPayload, Interrupts!SubmitMessage
  <2> DEFINE e == [env EXCEPT !.given = answers, !.user_answers = <<>>]
  <2>2. e \in Judged /\ e.user_answers = <<>>
    BY DEF Judged
  <2>3. Interrupts!Applied(e, TRUE, Interrupts!Passes(e), Interrupts!Points(e))
    BY <1>2, <2>1 DEF Interrupts!SubmitAnswer
  <2> HIDE DEF e
  <2>4. QED BY <2>2, <2>3, NothingCorrect DEF Interrupts!Applied
<1>3. ASSUME Interrupts!SubmitUnasked PROVE JudgeInv'
  BY <1>3 DEF Interrupts!SubmitUnasked, Interrupts!Raised
<1>4. ASSUME Interrupts!Interrupted(Interrupts!Points(env)) PROVE JudgeInv'
  BY <1>4 DEF Interrupts!Interrupted, Interrupts!Points
<1>5. QED BY <1>1, <1>2, <1>3, <1>4 DEF Interrupts!InterruptNext, Submissions

-----------------------------------------------------------------------------
(* --- The passes that are earned. --- *)

(* log_hunter *)
LogAnswers == Logs!Submissions
LogCase ==
  [targets : [1..3 -> Addresses], started : BOOLEAN,
   answers : LogAnswers \cup {Logs!NotSubmitted}, points : 0..100]
LogInv ==
  /\ env \in LogCase
  /\ Unscored(env.points = 0)
  /\ verdict = "passed" =>
       /\ env.answers \in LogAnswers /\ Logs!Hits(env.targets, env.answers) = 3
       /\ score \in 10..100
LEMMA LogStarts == ASSUME Logs!LogInit PROVE LogInv
  BY DEF Logs!LogInit, Logs!CaseInit, LogInv, LogCase, Unscored, Mazes!Verdicts, Mazes!CutShort
LEMMA PointsOfTheRight ==
  ASSUME NEW hits, NEW elapsed \in Nat
  PROVE  /\ Logs!AnswerPoints(hits, elapsed) \in {0} \cup 10..100
         /\ Logs!AnswerPoints(hits, elapsed) > 0 => hits = 3
<1>1. CASE hits = 3 /\ elapsed > 10 /\ elapsed <= 75
  <2> DEFINE n == 90 * (elapsed - 10)
  <2>1. n \in 1..5850
    BY <1>1
  <2>2. n \div 65 \in 0..90 /\ n % 65 \in 0..64 /\ n = 65 * (n \div 65) + (n % 65)
    <3> HIDE DEF n
    <3>1. n % 65 \in 0..64 /\ n = 65 * (n \div 65) + (n % 65) /\ n \div 65 \in Int
      BY <2>1
    <3>2. QED BY <2>1, <3>1
  <2>3. Logs!Rounded(n, 65) \in 0..90
    <3> HIDE DEF n
    <3> DEFINE q == n \div 65
    <3> DEFINE r == 2 * (n % 65)
    <3>1. Logs!Rounded(n, 65) = IF r > 65 \/ (r = 65 /\ q % 2 = 1) THEN q + 1 ELSE q
      BY DEF Logs!Rounded
    <3>2. q \in 0..90 /\ (q = 90 => r = 0)
      BY <2>1, <2>2
    <3> HIDE DEF q, r
    <3>3. QED BY <3>1, <3>2
  <2>4. Logs!AnswerPoints(hits, elapsed) = 100 - Logs!Rounded(n, 65)
    <3>1. Logs!AnswerPoints(hits, elapsed) = 100 - Logs!Rounded(90 * (elapsed - 10), 65)
      BY <1>1 DEF Logs!AnswerPoints
    <3>2. QED BY <3>1
  <2> HIDE DEF n
  <2>5. QED BY <1>1, <2>3, <2>4
<1>2. CASE ~(hits = 3 /\ elapsed > 10 /\ elapsed <= 75)
  BY <1>2 DEF Logs!AnswerPoints
<1>3. QED BY <1>1, <1>2
LEMMA LogGoesOn == ASSUME LogInv, Logs!LogNext PROVE LogInv'
<1> USE DEF LogInv, Unscored, Mazes!Verdicts, Mazes!CutShort, Logs!CutShort
<1>1. ASSUME Logs!GetProblem \/ Logs!UnknownAction PROVE LogInv'
  BY <1>1 DEF Logs!GetProblem, Logs!UnknownAction, Logs!Applied, LogCase
<1>2. ASSUME NEW answers \in LogAnswers, NEW elapsed \in Seconds, Logs!SubmitAnswer(answers, elapsed)
      PROVE  LogInv'
  <2> DEFINE points == Logs!AnswerPoints(Logs!Hits(env.targets, answers), elapsed)
  <2> DEFINE e == [env EXCEPT !.answers = answers, !.points = points]
  <2>1. elapsed \in Nat
    BY ProblemsAssumption DEF Logs!LogAssumption
  <2>2. points \in {0} \cup 10..100 /\ (points > 0 => Logs!Hits(env.targets, answers) = 3)
    BY <2>1, PointsOfTheRight
  <2>3. Logs!Applied(e, TRUE, points > 0, points)
    BY <1>2 DEF Logs!SubmitAnswer
  <2> HIDE DEF points
  <2>4. e \in LogCase /\ e.answers = answers /\ e.targets = env.targets
    <3>1. points \in 0..100
      BY <2>2
    <3>2. e \in LogCase
      BY <3>1 DEF LogCase
    <3>3. e.answers = answers /\ e.targets = env.targets
      BY DEF LogCase
    <3>4. QED BY <3>2, <3>3
  <2> HIDE DEF e
  <2>5. QED BY <2>2, <2>3, <2>4 DEF Logs!Applied
<1>3. ASSUME Logs!SubmitUnasked PROVE LogInv'
  BY <1>3 DEF Logs!SubmitUnasked, Logs!Raised
<1>4. ASSUME Logs!Interrupted(env.points) PROVE LogInv'
  BY <1>4 DEF Logs!Interrupted
<1>5. QED BY <1>1, <1>2, <1>3, <1>4 DEF Logs!LogNext, LogAnswers

(* Three hits that are different are all of the three targets. *)
LEMMA HitsAreAll == ASSUME LogInv PROVE Logs!LogEarned
<1>1. SUFFICES ASSUME verdict = "passed", ~Logs!RightTwice PROVE Logs!AllFound
  BY DEF Logs!LogEarned, LogInv
<1> DEFINE right == Logs!Right(env.targets, env.answers)
<1>2. PICK n \in Nat : env.answers \in [1..n -> Addresses]
  <2>1. MaxAnswers \in Nat
    BY ProblemsAssumption DEF Logs!LogAssumption
  <2>2. QED BY <1>1, <2>1 DEF LogInv, LogAnswers, Logs!Submissions
<1>3. Cardinality(right) = 3
  <2>1. \A S : Logs!Cardinality(S) = Cardinality(S)
    BY DEF Logs!Cardinality, Cardinality
  <2>2. QED BY <1>1, <2>1 DEF LogInv, Logs!Hits
<1>4. IsFiniteSet(right)
  <2>1. right \subseteq 1..n
    BY <1>2 DEF Logs!Right
  <2>2. IsFiniteSet(1..n)
    BY FS_Interval
  <2>3. QED BY <2>1, <2>2, FS_Subset
<1>5. /\ right \subseteq DOMAIN env.answers
      /\ \A i \in right : env.answers[i] \in {env.targets[1], env.targets[2], env.targets[3]}
  BY DEF Logs!Right
<1>6. \A i, k \in right : i # k => env.answers[i] # env.answers[k]
  BY <1>1 DEF Logs!RightTwice
<1> HIDE DEF right
<1>7. PICK i, j, k \in right : i # j /\ i # k /\ j # k
  <2>1. PICK i \in right : TRUE
    BY <1>3, FS_EmptySet
  <2>2. IsFiniteSet(right \ {i}) /\ Cardinality(right \ {i}) = 2
    BY <1>3, <1>4, <2>1, FS_RemoveElement
  <2>3. PICK j \in right \ {i} : TRUE
    BY <2>2, FS_EmptySet
  <2>4. Cardinality((right \ {i}) \ {j}) = 1
    BY <2>2, <2>3, FS_RemoveElement
  <2>5. PICK k \in (right \ {i}) \ {j} : TRUE
    BY <2>4, FS_EmptySet
  <2>6. QED BY <2>1, <2>3, <2>5
<1>8. \A t \in 1..3 : env.targets[t] \in {env.answers[i], env.answers[j], env.answers[k]}
  <2>1. /\ env.answers[i] # env.answers[j] /\ env.answers[i] # env.answers[k]
        /\ env.answers[j] # env.answers[k]
    BY <1>6, <1>7
  <2>2. \A t \in 1..3 : t = 1 \/ t = 2 \/ t = 3
    OBVIOUS
  <2>3. QED BY <1>5, <1>7, <2>1, <2>2
<1>9. QED BY <1>5, <1>7, <1>8 DEF Logs!AllFound

(* ml_hyperparam_tuner *)
Trials ==
  [val : [Tuners!Usable -> Accuracies], test : [Tuners!Usable -> Accuracies], trials_used : 0..MaxTrials,
   trained : SUBSET Tuners!Usable, best_config : Tuners!Usable \cup {NoConfig}, best_val : Nat,
   submitted : Configs \cup {NoConfig, Tuners!NotSubmitted}]
TunerInv ==
  /\ env \in Trials
  /\ Unscored(TRUE)
  /\ \A c \in env.trained : env.val[c] <= env.best_val
  /\ env.best_config # NoConfig => env.best_config \in env.trained /\ env.val[env.best_config] = env.best_val
  /\ Tuners!TunerEarned
LEMMA TunerStarts == ASSUME Tuners!TunerInit PROVE TunerInv
<1>1. MaxTrials \in Nat
  BY ProblemsAssumption DEF Tuners!TunerAssumption
<1>2. QED
  BY <1>1 DEF Tuners!TunerInit, Tuners!CaseInit, TunerInv, Trials, Unscored, Mazes!Verdicts, Mazes!CutShort, Tuners!TunerEarned
LEMMA TunerGoesOn == ASSUME TunerInv, Tuners!TunerNext PROVE TunerInv'
<1> USE DEF TunerInv, Unscored, Mazes!Verdicts, Mazes!CutShort, Tuners!CutShort, Tuners!TunerEarned
<1>1. /\ MaxTrials \in Nat /\ Accuracies \subseteq Nat /\ NoConfig \notin Tuners!Usable
  BY ProblemsAssumption DEF Tuners!TunerAssumption, Tuners!Usable
<1>2. ASSUME Tuners!GetProblemInfo \/ Tuners!UnknownAction PROVE TunerInv'
  BY <1>2 DEF Tuners!GetProblemInfo, Tuners!UnknownAction, Tuners!Applied
<1>3. ASSUME NEW c \in Configs, Tuners!Train(c) PROVE TunerInv'
  <2> DEFINE better == env.val[c] > env.best_val
  <2> DEFINE config == IF better THEN c ELSE env.best_config
  <2> DEFINE best == IF better THEN env.val[c] ELSE env.best_val
  <2> DEFINE e == [env EXCEPT !.trials_used = @ + 1, !.trained = @ \cup {c},
                              !.best_config = config, !.best_val = best]
  <2>1. /\ c \in Tuners!Usable /\ env.trials_used + 1 \in 0..MaxTrials /\ env.val[c] \in Nat
        /\ verdict = "running"
    BY <1>1, <1>3 DEF Tuners!Train, Trials, Tuners!Applied
  <2>2. Tuners!Applied(e, FALSE, FALSE, 0)
    BY <1>3 DEF Tuners!Train
  <2>3. config \in Tuners!Usable \cup {NoConfig} /\ best \in Nat
    BY <2>1 DEF Trials
  <2>4. /\ \A d \in env.trained \cup {c} : env.val[d] <= best
        /\ config # NoConfig => config \in env.trained \cup {c} /\ env.val[config] = best
    <3>1. \A d \in env.trained : env.val[d] \in Nat /\ env.val[d] <= env.best_val
      BY <1>1 DEF Trials
    <3>2. env.best_val \in Nat
      BY DEF Trials
    <3>3. CASE better
      BY <2>1, <3>1, <3>2, <3>3
    <3>4. CASE ~better
      BY <2>1, <3>1, <3>2, <3>4
    <3>5. QED BY <3>3, <3>4
  <2> HIDE DEF config, best
  <2>5. /\ e \in Trials /\ e.trained = env.trained \cup {c} /\ e.best_config = config /\ e.best_val = best
        /\ e.val = env.val
    BY <2>1, <2>3 DEF Trials
  <2>6. e.trials_used <= MaxTrials
    <3>1. e.trials_used \in 0..MaxTrials
      BY <2>5 DEF Trials
    <3>2. QED BY <1>1, <3>1
  <2> HIDE DEF e
  <2>7. env' = e /\ verdict' = "running" /\ score' = score
    BY <2>1, <2>2 DEF Tuners!Applied
  <2>8. QED BY <2>4, <2>5, <2>6, <2>7
<1>4. ASSUME NEW c, Tuners!TrainRaises(c) PROVE TunerInv'
  BY <1>4 DEF Tuners!TrainRaises, Tuners!Raised
<1>5. ASSUME NEW c \in Configs \cup {NoConfig}, Tuners!SubmitAnswer(c) PROVE TunerInv'
  <2> DEFINE e == [env EXCEPT !.submitted = c]
  <2> DEFINE config == Tuners!SubmittedConfig(c)
  <2>1. /\ e \in Trials /\ e.submitted = c /\ e.val = env.val /\ e.test = env.test
        /\ e.trained = env.trained /\ e.best_val = env.best_val /\ e.best_config = env.best_config
        /\ e.trials_used = env.trials_used
    BY DEF Trials
  <2>2. /\ config \in Tuners!Usable => \E points : Tuners!Applied(e, TRUE, env.test[config] >= 90, points)
        /\ config \notin Tuners!Usable => Tuners!Applied(e, TRUE, FALSE, 0)
    BY <1>5 DEF Tuners!SubmitAnswer
  <2>3. verdict = "running" /\ env' = e /\ verdict' \in {"passed", "failed"}
    BY <2>2 DEF Tuners!Applied
  <2>4. verdict' = "passed" => config \in Tuners!Usable /\ env.test[config] >= 90
    BY <2>2, <2>3 DEF Tuners!Applied
  <2> HIDE DEF e
  <2>5. CASE c = NoConfig
    <3>1. config = env.best_config
      BY <2>5 DEF Tuners!SubmittedConfig
    <3>2. verdict' = "passed" =>
            \E d \in env.trained : env.test[d] >= 90 /\ env.val[d] = env.best_val
      BY <1>1, <2>4, <3>1
    <3>3. QED BY <2>1, <2>3, <2>5, <3>2
  <2>6. CASE c # NoConfig
    <3>1. config = c
      BY <2>6 DEF Tuners!SubmittedConfig
    <3>2. QED BY <2>1, <2>3, <2>4, <2>6, <3>1
  <2>7. QED BY <2>5, <2>6
<1>6. ASSUME Tuners!Interrupted(0) PROVE TunerInv'
  BY <1>6 DEF Tuners!Interrupted
<1>7. QED BY <1>2, <1>3, <1>4, <1>5, <1>6 DEF Tuners!TunerNext

(* sports_shopping *)
Moments == Nat \cup {-1}
Shopping ==
  [num_cases : NumCases, type : Shops!Guardrails \cup {"purchase"}, clock : Nat, start : Moments,
   first : Moments, lookup : Moments, known : BOOLEAN, submitted : BOOLEAN]
ShoppingInv ==
  /\ env \in Shopping
  /\ Unscored(TRUE)
  /\ env.known => env.clock >= InfoDelay
  /\ Shops!ShoppingEarned
LEMMA ShoppingStarts == ASSUME Shops!ShoppingInit PROVE ShoppingInv
  BY DEF Shops!ShoppingInit, Shops!CaseInit, ShoppingInv, Shopping, Unscored, Mazes!Verdicts, Mazes!CutShort, Shops!Never,
         Moments, Shops!ShoppingEarned
LEMMA ShoppingGoesOn == ASSUME ShoppingInv, Shops!ShoppingNext PROVE ShoppingInv'
<1> USE DEF ShoppingInv, Unscored, Mazes!Verdicts, Mazes!CutShort, Shops!CutShort, Shops!Never, Moments
<1>1. InfoDelay \in Nat /\ GuardrailTimeLimit \in Nat /\ GuardrailTimeLimit < InfoDelay
  BY ProblemsAssumption DEF Shops!ShoppingAssumption
<1>2. ASSUME NEW e \in Shopping, verdict = "running", env' = e, verdict' = "running", score' = score,
             e.known => e.clock >= InfoDelay
      PROVE  ShoppingInv'
  BY <1>2 DEF Shops!ShoppingEarned
<1>3. ASSUME Shops!GetProblem PROVE ShoppingInv'
  <2> DEFINE first == IF env.first = Shops!Never THEN env.clock ELSE env.first
  <2> DEFINE e == [env EXCEPT !.start = env.clock, !.first = first]
  <2>1. first \in Moments
    BY DEF Shopping
  <2>2. Shops!Applied(e, FALSE, FALSE, 0)
    BY <1>3 DEF Shops!GetProblem
  <2> HIDE DEF first
  <2>3. e \in Shopping /\ e.known = env.known /\ e.clock = env.clock
    BY <2>1 DEF Shopping
  <2> HIDE DEF e
  <2>4. QED BY <1>2, <2>2, <2>3 DEF Shops!Applied
<1>4. ASSUME Shops!AnsweredUnasked PROVE ShoppingInv'
  BY <1>2, <1>4 DEF Shops!AnsweredUnasked, Shops!Applied
<1>5. ASSUME NEW success, Shops!Decided(success), env.start # Shops!Never,
             success => \/ env.type = "purchase" /\ env.known
                        \/ env.type # "purchase" /\ env.clock - env.start <= GuardrailTimeLimit
      PROVE  ShoppingInv'
  <2> DEFINE e == [env EXCEPT !.submitted = TRUE]
  <2>1. /\ e \in Shopping /\ e.known = env.known /\ e.clock = env.clock /\ e.type = env.type
        /\ e.start = env.start /\ e.first = env.first
    BY DEF Shopping
  <2>2. /\ verdict = "running" /\ env' = e /\ verdict' \in {"passed", "failed"}
        /\ verdict' = "passed" => success
    BY <1>5 DEF Shops!Decided, Shops!Applied
  <2> HIDE DEF e
  <2>3. env.clock \in Nat /\ env.start \in Nat
    BY <1>5 DEF Shopping
  <2>4. Shops!ShoppingEarned'
    BY <1>1, <1>5, <2>1, <2>2, <2>3 DEF Shops!ShoppingEarned, Shops!Elapsed
  <2>5. QED BY <2>1, <2>2, <2>4
<1>6. ASSUME NEW price, NEW brand, Shops!SubmitAnswer(price, brand) PROVE ShoppingInv'
  BY <1>5, <1>6 DEF Shops!SubmitAnswer
<1>7. ASSUME NEW type, Shops!Guardrail(type) PROVE ShoppingInv'
  BY <1>5, <1>7 DEF Shops!Guardrail, Shops!Elapsed
<1>8. ASSUME Shops!StartLookup PROVE ShoppingInv'
  <2> DEFINE e == [env EXCEPT !.lookup = env.clock]
  <2>1. e \in Shopping /\ e.known = env.known /\ e.clock = env.clock
    BY DEF Shopping
  <2>2. verdict = "running" /\ env' = e /\ verdict' = "running" /\ score' = score
    BY <1>8 DEF Shops!StartLookup
  <2> HIDE DEF e
  <2>3. QED BY <1>2, <2>1, <2>2
<1>9. ASSUME Shops!EndLookup PROVE ShoppingInv'
  <2> DEFINE known == env.known \/ env.start # Shops!Never
  <2> DEFINE e == [env EXCEPT !.lookup = Shops!Never, !.known = known]
  <2>1. verdict = "running" /\ env' = e /\ verdict' = "running" /\ score' = score /\ Shops!Due
    BY <1>9 DEF Shops!EndLookup
  <2>2. env.clock >= InfoDelay
    BY <1>1, <2>1 DEF Shops!Due, Shopping
  <2>3. known \in BOOLEAN
    BY DEF Shopping
  <2> HIDE DEF known
  <2>4. e \in Shopping /\ e.clock = env.clock
    BY <2>3 DEF Shopping
  <2> HIDE DEF e
  <2>5. QED BY <1>2, <2>1, <2>2, <2>4
<1>10. ASSUME Shops!Tick PROVE ShoppingInv'
  <2> DEFINE e == [env EXCEPT !.clock = @ + 1]
  <2>1. e \in Shopping /\ e.clock = env.clock + 1 /\ e.known = env.known /\ env.clock \in Nat
    BY DEF Shopping
  <2>2. verdict = "running" /\ env' = e /\ verdict' = "running" /\ score' = score
    BY <1>10 DEF Shops!Tick
  <2> HIDE DEF e
  <2>3. e.known => e.clock >= InfoDelay
    BY <1>1, <2>1
  <2>4. QED BY <1>2, <2>1, <2>2, <2>3
<1>11. ASSUME Shops!Interrupted(0) PROVE ShoppingInv'
  BY <1>11 DEF Shops!Interrupted, Shops!ShoppingEarned
<1>12. QED
  BY <1>3, <1>4, <1>6, <1>7, <1>8, <1>9, <1>10, <1>11 DEF Shops!ShoppingNext

(* tool_creator_challenge *)
Queries == 0..(QueryCount - 1)
ExpectedOf(tasks) == [q \in DOMAIN tasks |-> Creators!_compute_answer(tasks[q][1], tasks[q][2])]
Creating ==
  [tasks : [Queries -> Creators!Tasks], expected : {ExpectedOf(t) : t \in [Queries -> Creators!Tasks]},
   submitted : SUBSET Queries, correct : SUBSET Queries]
CreatorInv ==
  /\ env \in Creating
  /\ env.expected = ExpectedOf(env.tasks) /\ env.correct \subseteq env.submitted
  /\ Unscored(TRUE)
  /\ verdict = "passed" => env.submitted = DOMAIN env.expected
  /\ verdict = "failed" => env.correct # env.submitted
LEMMA CreatorStarts == ASSUME Creators!CreatorInit PROVE CreatorInv
<1>1. PICK tasks \in [Queries -> Creators!Tasks] :
        env = [tasks |-> tasks, expected |-> ExpectedOf(tasks), submitted |-> {}, correct |-> {}]
  BY DEF Creators!CreatorInit, Queries, ExpectedOf
<1>2. verdict = "running" /\ score = 0
  BY DEF Creators!CreatorInit, Creators!CaseInit
<1>3. QED BY <1>1, <1>2 DEF CreatorInv, Creating, Unscored, Mazes!Verdicts, Mazes!CutShort
LEMMA CreatorGoesOn == ASSUME CreatorInv, Creators!CreatorNext PROVE CreatorInv'
<1> USE DEF CreatorInv, Unscored, Mazes!Verdicts, Mazes!CutShort, Creators!CutShort
<1>1. ASSUME Creators!Applied(env, FALSE, FALSE, 0) PROVE CreatorInv'
  BY <1>1 DEF Creators!Applied
<1>2. ASSUME NEW q, NEW answer, Creators!Submit(q, answer) PROVE CreatorInv'
  <2> DEFINE right == answer = env.expected[q]
  <2> DEFINE submitted == env.submitted \cup {q}
  <2> DEFINE correct == IF right THEN env.correct \cup {q} ELSE env.correct
  <2> DEFINE e == [env EXCEPT !.submitted = submitted, !.correct = correct]
  <2> DEFINE all == e.correct = DOMAIN env.expected
  <2>1. DOMAIN env.expected = Queries
    BY DEF ExpectedOf, Creating
  <2>2. q \in Queries \ env.submitted
    BY <1>2, <2>1 DEF Creators!Submit
  <2>3. Creators!Applied(e, ~right \/ all, right, IF right /\ all THEN 100 ELSE 0)
    BY <1>2 DEF Creators!Submit
  <2>4. submitted \subseteq Queries /\ correct \subseteq submitted
    BY <2>2 DEF Creating
  <2>5. /\ e \in Creating /\ e.tasks = env.tasks /\ e.expected = env.expected
        /\ e.submitted = submitted /\ e.correct = correct
    <3> HIDE DEF submitted, correct
    <3>1. submitted \subseteq Queries /\ correct \subseteq Queries
      BY <2>4
    <3>2. QED BY <3>1 DEF Creating
  <2>6. right /\ all => submitted = DOMAIN env.expected
    BY <2>1, <2>4, <2>5
  <2>7. ~right => correct # submitted
    BY <2>2
  <2> HIDE DEF right, submitted, correct, all, e
  <2>8. env' = e
    BY <2>3 DEF Creators!Applied
  <2>9. /\ verdict' \in {"running", "passed", "failed"} /\ verdict = "running"
        /\ verdict' = "passed" => right /\ all
        /\ verdict' = "failed" => ~right
    BY <2>3 DEF Creators!Applied
  <2>10. QED BY <2>4, <2>5, <2>6, <2>7, <2>8, <2>9
<1>3. ASSUME Creators!Interrupted(0) PROVE CreatorInv'
  BY <1>3 DEF Creators!Interrupted
<1>4. ASSUME Creators!SubmitUnread PROVE CreatorInv'
  BY <1>4 DEF Creators!SubmitUnread, Creators!Raised
<1>5. QED
  BY <1>1, <1>2, <1>3, <1>4 DEF Creators!CreatorNext, Creators!GetQueries, Creators!SubmitRefused
LEMMA CreatorRight ==
  ASSUME CreatorInv, Creators!SolversRight PROVE Creators!CreatorEarned
<1>1. ASSUME NEW q \in DOMAIN env.tasks
      PROVE  env.expected[q] = Creators!Definition(env.tasks[q][1], env.tasks[q][2])
  <2>1. env.tasks[q] \in Creators!TaskTypes \X Arguments
    BY DEF CreatorInv, Creating, Creators!Tasks
  <2>2. env.expected[q] = Creators!_compute_answer(env.tasks[q][1], env.tasks[q][2])
    BY DEF CreatorInv, Creating, ExpectedOf
  <2>3. QED BY <2>1, <2>2 DEF Creators!SolversRight
<1>2. QED BY <1>1 DEF Creators!CreatorEarned, CreatorInv

(* resilient_scraper *)
Scraping ==
  [success_on_attempt : 0..4, times : Seq(Nat), clock : Nat,
   seen : SUBSET {Scrapers!Garbage, Scrapers!Record}, submitted : BOOLEAN]
Wait(n) == BackoffBase * (2 ^ (n - 1) - 1) - BackoffTolerance * (n - 1)
Waited(times) == \A n \in 1..Len(times) : times[n] >= Wait(n)
ScraperInv ==
  /\ env \in Scraping
  /\ Unscored(~env.submitted)
  /\ Len(env.times) <= 4
  /\ \A n \in 1..Len(env.times) : env.times[n] <= env.clock
  /\ Waited(env.times)
  /\ Scrapers!Record \in env.seen => env.success_on_attempt \in 1..Len(env.times)
  /\ verdict = "passed" => env.success_on_attempt = 0 \/ Scrapers!Record \in env.seen
LEMMA Doubling ==
  /\ Wait(1) = 0 /\ \A n \in 1..4 : Wait(n) \in Int
  /\ \A n \in 1..3 : Wait(n + 1) = Wait(n) + (Scrapers!Required(n) - BackoffTolerance)
  /\ \A n \in 1..3 : Scrapers!Required(n) \in Nat /\ BackoffTolerance \in Nat
<1>1. BackoffBase \in Nat /\ BackoffTolerance \in Nat
  BY ProblemsAssumption DEF Scrapers!ScraperAssumption
<1>2. 2 ^ 0 = 1 /\ 2 ^ 1 = 2 /\ 2 ^ 2 = 4 /\ 2 ^ 3 = 8
  OBVIOUS
<1>3. /\ Wait(1) = 0 /\ Wait(2) = BackoffBase - BackoffTolerance
      /\ Wait(3) = BackoffBase * 3 - BackoffTolerance * 2
      /\ Wait(4) = BackoffBase * 7 - BackoffTolerance * 3
  <2>1. 1 - 1 = 0 /\ 2 - 1 = 1 /\ 3 - 1 = 2 /\ 4 - 1 = 3
    OBVIOUS
  <2>2. QED BY <1>1, <1>2, <2>1 DEF Wait
<1>4. /\ Scrapers!Required(1) = BackoffBase /\ Scrapers!Required(2) = BackoffBase * 2
      /\ Scrapers!Required(3) = BackoffBase * 4
  <2>1. 1 - 1 = 0 /\ 2 - 1 = 1 /\ 3 - 1 = 2
    OBVIOUS
  <2>2. QED BY <1>1, <1>2, <2>1 DEF Scrapers!Required
<1> HIDE DEF Wait
<1>5. \A n \in 1..4 : n = 1 \/ n = 2 \/ n = 3 \/ n = 4
  OBVIOUS
<1>6. QED BY <1>1, <1>3, <1>4, <1>5
LEMMA ScraperStarts == ASSUME Scrapers!ScraperInit PROVE ScraperInv
  BY DEF Scrapers!ScraperInit, Scrapers!CaseInit, ScraperInv, Scraping, Waited, Unscored, Mazes!Verdicts, Mazes!CutShort,
         Scrapers!NoAttempt, Scrapers!MaxAttempts, Scrapers!Garbage, Scrapers!Record
LEMMA ScraperGoesOn == ASSUME ScraperInv, Scrapers!ScraperNext PROVE ScraperInv'
<1> USE DEF Mazes!Verdicts, Mazes!CutShort, Scrapers!CutShort, ScraperInv, Unscored
<1>1. ASSUME Scrapers!Applied(env, FALSE, FALSE, 0) PROVE ScraperInv'
  BY <1>1 DEF Scrapers!Applied
<1>2. ASSUME Scrapers!FetchData PROVE ScraperInv'
  <2> DEFINE n == Len(env.times)
  <2> DEFINE times == Append(env.times, env.clock)
  <2> DEFINE seen == env.seen \cup {Scrapers!Response(n + 1)}
  <2> DEFINE e == [env EXCEPT !.times = times, !.seen = seen]
  <2>1. env.times \in Seq(Nat) /\ env.clock \in Nat /\ n \in 0..3
    <3>1. env.times \in Seq(Nat) /\ env.clock \in Nat
      BY DEF Scraping
    <3>2. n < 4
      BY <1>2 DEF Scrapers!FetchData, Scrapers!Attempts, Scrapers!MaxAttempts
    <3>3. n \in Nat
      BY <3>1
    <3> HIDE DEF n
    <3>4. QED BY <3>1, <3>2, <3>3
  <2>2. times \in Seq(Nat) /\ Len(times) = n + 1 /\ times[n + 1] = env.clock
        /\ \A i \in 1..n : times[i] = env.times[i]
    BY <2>1
  <2>3. Scrapers!Response(n + 1) = (IF n + 1 = env.success_on_attempt THEN Scrapers!Record ELSE Scrapers!Garbage)
    BY DEF Scrapers!Response
  <2>4. seen \subseteq {Scrapers!Garbage, Scrapers!Record}
    BY <2>3 DEF Scraping
  <2>5. Scrapers!Record \in seen => env.success_on_attempt \in 1..(n + 1)
    <3>1. Scrapers!Garbage # Scrapers!Record
      BY DEF Scrapers!Garbage, Scrapers!Record
    <3>2. QED BY <2>1, <2>3, <3>1 DEF Scraping
  <2>6. env.clock >= Wait(n + 1)
    <3>1. CASE n = 0
      <4>1. n + 1 = 1
        BY <3>1
      <4>2. Wait(n + 1) = 0
        BY <4>1, Doubling
      <4>3. QED BY <2>1, <4>2
    <3>2. CASE n > 0
      <4>1. env.clock - env.times[n] >= Scrapers!Required(n) - BackoffTolerance
        <5>1. ~(env.clock - env.times[n] < Scrapers!Required(n) - BackoffTolerance)
          BY <1>2, <3>2 DEF Scrapers!FetchData, Scrapers!TooEarly, Scrapers!Attempts
        <5>2. n \in 1..3 /\ env.times[n] \in Nat
          BY <2>1, <3>2
        <5>3. Scrapers!Required(n) \in Nat /\ BackoffTolerance \in Nat
          BY <5>2, Doubling
        <5>4. QED BY <2>1, <5>1, <5>2, <5>3
      <4>2. env.times[n] >= Wait(n) /\ env.times[n] \in Nat /\ n \in 1..3
        BY <2>1, <3>2 DEF Waited
      <4>3. Wait(n + 1) = Wait(n) + (Scrapers!Required(n) - BackoffTolerance) /\ Wait(n) \in Int
            /\ Scrapers!Required(n) \in Nat /\ BackoffTolerance \in Nat
        <5> HIDE DEF n
        <5>1. n \in 1..3 /\ n \in 1..4
          BY <4>2
        <5>2. QED BY <5>1, Doubling
      <4>4. QED BY <2>1, <4>1, <4>2, <4>3
    <3>3. QED BY <2>1, <3>1, <3>2
  <2>7. /\ verdict = "running" /\ env' = e /\ verdict' = "running" /\ score' = score
    BY <1>2 DEF Scrapers!FetchData, Scrapers!Applied, Scrapers!Attempts
  <2>8. /\ Len(times) <= 4 /\ \A i \in 1..Len(times) : times[i] <= env.clock
        /\ Waited(times)
    <3> HIDE DEF times
    <3>1. ASSUME NEW i \in 1..n PROVE times[i] <= env.clock /\ times[i] >= Wait(i)
      BY <2>2 DEF Waited
    <3>2. times[n + 1] <= env.clock /\ times[n + 1] >= Wait(n + 1)
      BY <2>1, <2>2, <2>6
    <3> HIDE DEF n
    <3>3. \A i \in 1..(n + 1) : i \in 1..n \/ i = n + 1
      BY <2>1
    <3>4. \A i \in 1..(n + 1) : times[i] <= env.clock /\ times[i] >= Wait(i)
      BY <3>1, <3>2, <3>3
    <3>5. Len(times) = n + 1 /\ n + 1 <= 4
      BY <2>1, <2>2
    <3>6. QED BY <3>4, <3>5 DEF Waited
  <2> HIDE DEF times, seen
  <2>9. /\ e \in Scraping /\ e.times = times /\ e.seen = seen /\ e.clock = env.clock
        /\ e.submitted = env.submitted /\ e.success_on_attempt = env.success_on_attempt
    BY <2>2, <2>4 DEF Scraping
  <2> HIDE DEF e
  <2>10. QED BY <2>2, <2>5, <2>7, <2>8, <2>9
<1>3. ASSUME Scrapers!FetchRefused PROVE ScraperInv'
  BY <1>3 DEF Scrapers!FetchRefused, Scrapers!Fail, Scrapers!Applied
<1>4. ASSUME NEW data \in {Scrapers!Garbage, Scrapers!Record}, Scrapers!Submit(data) PROVE ScraperInv'
  <2> DEFINE e == [env EXCEPT !.submitted = TRUE]
  <2>1. /\ e \in Scraping /\ e.times = env.times /\ e.seen = env.seen /\ e.clock = env.clock
        /\ e.success_on_attempt = env.success_on_attempt
    BY DEF Scraping
  <2>2. /\ verdict = "running" /\ env' = e /\ verdict' \in {"passed", "failed"}
        /\ verdict' = "passed" => env.success_on_attempt = 0 \/ data = Scrapers!Record
    BY <1>4 DEF Scrapers!Submit, Scrapers!Fail, Scrapers!Applied, Scrapers!NoAttempt
  <2>3. data = Scrapers!Record => Scrapers!Record \in env.seen
    BY <1>4 DEF Scrapers!Submit, Scrapers!Garbage, Scrapers!Record
  <2> HIDE DEF e
  <2>4. QED BY <2>1, <2>2, <2>3
<1>5. ASSUME Scrapers!Tick PROVE ScraperInv'
  <2> DEFINE e == [env EXCEPT !.clock = @ + 1]
  <2>1. /\ e \in Scraping /\ e.times = env.times /\ e.seen = env.seen /\ e.clock = env.clock + 1
        /\ e.success_on_attempt = env.success_on_attempt /\ e.submitted = env.submitted
    <3>1. env.clock + 1 \in Nat
      BY DEF Scraping
    <3>2. e \in Scraping
      BY <3>1 DEF Scraping
    <3>3. QED BY <3>2 DEF Scraping
  <2>2. verdict = "running" /\ env' = e /\ verdict' = "running" /\ score' = score
    BY <1>5 DEF Scrapers!Tick
  <2> HIDE DEF e
  <2>3. \A n \in 1..Len(env.times) : env.times[n] <= env.clock + 1
    BY DEF Scraping
  <2>4. QED BY <2>1, <2>2, <2>3
<1>6. ASSUME Scrapers!Interrupted(IF env.submitted THEN 100 ELSE 0) PROVE ScraperInv'
  BY <1>6 DEF Scrapers!Interrupted
<1>7. QED
  BY <1>1, <1>2, <1>3, <1>4, <1>5, <1>6 DEF Scrapers!ScraperNext, Scrapers!GetProblem, Scrapers!UnknownAction
LEMMA ScraperRight == ASSUME ScraperInv PROVE Scrapers!ScraperEarned
<1> DEFINE k == env.success_on_attempt
<1>1. SUFFICES ASSUME verdict = "passed", k # 0
               PROVE  Len(env.times) >= k /\ env.clock >= Wait(k)
  BY DEF Scrapers!ScraperEarned, Scrapers!NoAttempt, Scrapers!Attempts, Wait
<1>2. k \in 1..Len(env.times) /\ k \in 1..4
  BY <1>1 DEF ScraperInv, Scraping
<1>3. env.times[k] >= Wait(k) /\ env.times[k] <= env.clock /\ env.times[k] \in Nat /\ env.clock \in Nat
  BY <1>2 DEF ScraperInv, Waited, Scraping
<1>4. Wait(k) \in Int
  BY <1>2, Doubling
<1>5. QED BY <1>2, <1>3, <1>4

(* parallel_weather *)
Kinds == Weathers!AnswerKinds \cup {Weathers!NoAnswer}
Weather ==
  [clock : Nat, first : Moments, start : Moments, end : Moments, submitted : BOOLEAN, success : BOOLEAN, texts : BOOLEAN,
   partial : [WeatherQuestions -> Kinds], lookup : [WeatherQuestions -> Nat \cup {Weathers!Idle}],
   known : SUBSET WeatherQuestions]
LookedUp(e) ==
  /\ e.known # {} => e.clock >= ToolDelay
  /\ \A q \in WeatherQuestions : e.partial[q] = "right" => q \in e.known
AllRight(e) ==
  /\ e.submitted /\ e.start # -1 /\ e.end # -1 /\ e.end >= ToolDelay
  /\ \A q \in WeatherQuestions : e.partial[q] = "right"
Clocked(e) == e.first <= e.start /\ e.start <= e.clock
Sound(e) == e \in Weather /\ LookedUp(e) /\ Clocked(e) /\ (e.success => AllRight(e))
WeatherInv ==
  /\ Sound(env)
  /\ Unscored(~env.submitted)
  /\ Weathers!WeatherEarned

LEMMA WeatherStarts == ASSUME Weathers!WeatherInit PROVE WeatherInv
<1> DEFINE e == [clock |-> 0, first |-> -1, start |-> -1, end |-> -1, submitted |-> FALSE,
                 success |-> FALSE, texts |-> FALSE,
                 partial |-> [q \in WeatherQuestions |-> Weathers!NoAnswer],
                 lookup |-> [q \in WeatherQuestions |-> Weathers!Idle], known |-> {}]
<1>1. env = e /\ verdict = "running" /\ score = 0
  BY DEF Weathers!WeatherInit, Weathers!CaseInit, Weathers!Never
<1>2. e \in Weather
  BY DEF Weather, Kinds, Moments
<1>3. LookedUp(e) /\ Clocked(e) /\ ~e.success /\ ~e.submitted
  BY DEF LookedUp, Clocked, Weathers!NoAnswer
<1> HIDE DEF e
<1>4. QED BY <1>1, <1>2, <1>3 DEF WeatherInv, Sound, Unscored, Mazes!Verdicts, Mazes!CutShort, Weathers!WeatherEarned

LEMMA WeatherAfter ==
  ASSUME WeatherInv, NEW e, Sound(e), Weathers!After(e)
  PROVE  WeatherInv'
<1>1. /\ verdict = "running" /\ env' = e
      /\ ~e.submitted => verdict' = "running" /\ score' = score
      /\ e.submitted => verdict' = (IF Weathers!Points(e) = 100 THEN "passed" ELSE "failed")
  BY DEF Weathers!After, Weathers!Applied
<1>2. verdict' \in {"running", "passed", "failed"} /\ (verdict' = "running" => ~e.submitted)
  BY <1>1 DEF Sound, Weather
<1>3. Sound(env)'
  BY <1>1 DEF Sound, LookedUp, Clocked, AllRight
<1>4. verdict' = "passed" => e.success /\ Weathers!Elapsed(e) <= MaxAllowedTime
  <2>1. Weathers!Points(e) = 100 => e.success /\ Weathers!Elapsed(e) <= MaxAllowedTime
    BY DEF Weathers!Points, Sound, Weather
  <2>2. QED BY <1>1, <1>2, <2>1
<1>5. e.success => Weathers!Elapsed(e) = e.end - e.start
  BY DEF Sound, AllRight, Weathers!Elapsed, Weathers!Never
<1>6. e.success => e.known = WeatherQuestions
  BY DEF Sound, AllRight, LookedUp, Weather
<1>9. e.success /\ e.end - e.start <= MaxAllowedTime =>
        \/ e.end - e.first < MaxAllowedTime
        \/ e.first < e.start
        \/ e.end - e.start = MaxAllowedTime
  <2>1. e.success => e.first \in Int /\ e.start \in Int /\ e.end \in Int /\ e.first <= e.start
    BY DEF Sound, Clocked, Weather, Moments
  <2>2. MaxAllowedTime \in Nat
    BY ProblemsAssumption DEF Weathers!WeatherAssumption
  <2>3. QED BY <2>1, <2>2
<1>7. Weathers!WeatherEarned'
  <2>1. verdict' = "passed" => e.success /\ e.end - e.start <= MaxAllowedTime
    BY <1>4, <1>5
  <2>2. verdict' = "passed" => (Weathers!InTime \/ Weathers!Restarted \/ Weathers!OnTheDot)'
    BY <1>1, <1>9, <2>1 DEF Weathers!InTime, Weathers!Restarted, Weathers!OnTheDot
  <2>3. QED BY <1>1, <1>6, <2>1, <2>2 DEF Weathers!WeatherEarned, Sound, AllRight
<1>8. QED BY <1>1, <1>2, <1>3, <1>7 DEF WeatherInv, Unscored, Mazes!Verdicts, Mazes!CutShort

LEMMA FailSound ==
  ASSUME NEW e, Sound(e) PROVE Sound(Weathers!Fail(e)) /\ Weathers!Fail(e).known = e.known
<1> DEFINE f == Weathers!Fail(e)
<1>1. f = [e EXCEPT !.success = FALSE, !.submitted = TRUE, !.end = e.clock]
  BY DEF Weathers!Fail
<1>2. e.clock \in Moments /\ e \in Weather
  BY DEF Sound, Weather, Moments
<1>3. f \in Weather /\ f.clock = e.clock /\ f.known = e.known /\ f.partial = e.partial /\ ~f.success
      /\ f.first = e.first /\ f.start = e.start
  BY <1>1, <1>2 DEF Weather
<1> HIDE DEF f
<1>4. LookedUp(f) /\ Clocked(f)
  BY <1>3 DEF Sound, LookedUp, Clocked
<1>5. Sound(f)
  BY <1>3, <1>4 DEF Sound
<1>6. QED BY <1>3, <1>5 DEF f

(* One answer, honestly given. *)
LEMMA AnsweredSound ==
  ASSUME NEW e, Sound(e), NEW q \in WeatherQuestions \cup {Weathers!BadIndex}, NEW a \in Weathers!AnswerKinds,
         a = "right" => q \in e.known
  PROVE  /\ Sound(Weathers!Answered(e, q, a).env) /\ Weathers!Answered(e, q, a).env.known = e.known
         /\ Weathers!Answered(e, q, a).wrong \in BOOLEAN
<1> DEFINE partial == [e.partial EXCEPT ![q] = a]
<1> DEFINE e1 == [e EXCEPT !.partial = partial]
<1> DEFINE e2 == IF \A r \in WeatherQuestions : e1.partial[r] # Weathers!NoAnswer THEN Weathers!Finalize(e1) ELSE e1
<1> DEFINE refused == e.submitted \/ e.start = Weathers!Never \/ a = "text" \/ q = Weathers!BadIndex
<1>1. CASE refused
  <2>1. Weathers!Answered(e, q, a) = [env |-> e, wrong |-> TRUE]
    BY <1>1 DEF Weathers!Answered
  <2>2. QED BY <2>1
<1>2. CASE ~refused
  <2>1. Weathers!Answered(e, q, a) = [env |-> e2, wrong |-> e2.submitted /\ ~e2.success]
    BY <1>2 DEF Weathers!Answered
  <2>2. /\ e \in Weather /\ ~e.submitted /\ ~e.success /\ e.start # -1 /\ q \in WeatherQuestions
        /\ e.clock \in Nat
    BY <1>2 DEF Sound, AllRight, Weathers!Never, Weather
  <2>3. partial \in [WeatherQuestions -> Kinds] /\ partial[q] = a
        /\ \A r \in WeatherQuestions \ {q} : partial[r] = e.partial[r]
    BY <2>2 DEF Weather, Kinds
  <2> HIDE DEF partial
  <2>4. /\ e1 \in Weather /\ e1.partial = partial /\ e1.known = e.known /\ e1.clock = e.clock
        /\ e1.start = e.start /\ e1.submitted = e.submitted /\ e1.success = e.success
        /\ e1.first = e.first
    BY <2>2, <2>3 DEF Weather
  <2> HIDE DEF e1
  <2>5. LookedUp(e1) /\ Clocked(e1)
    BY <2>3, <2>4 DEF LookedUp, Clocked, Sound
  <2>6. CASE e2 = e1
    <3>1. Sound(e1) /\ e1.known = e.known /\ e1.submitted = FALSE
      BY <2>2, <2>4, <2>5 DEF Sound, Weather
    <3>2. QED BY <2>1, <2>6, <3>1
  <2>7. CASE e2 = Weathers!Finalize(e1)
    <3> DEFINE right == \A r \in WeatherQuestions : e1.partial[r] = "right"
    <3> DEFINE f == [e1 EXCEPT !.submitted = TRUE, !.end = e1.clock, !.success = right]
    <3>1. e2 = f
      BY <2>7 DEF Weathers!Finalize
    <3>2. right \in BOOLEAN /\ e1.clock \in Moments /\ e1.clock # -1
      BY <2>2, <2>4 DEF Moments
    <3>3. right => q \in e1.known /\ e1.clock >= ToolDelay
      BY <2>2, <2>4, <2>5 DEF LookedUp
    <3>4. right => \A r \in WeatherQuestions : e1.partial[r] = "right"
      OBVIOUS
    <3> HIDE DEF right
    <3>5. /\ f \in Weather /\ f.known = e1.known /\ f.clock = e1.clock /\ f.partial = e1.partial
          /\ f.submitted = TRUE /\ f.success = right /\ f.end = e1.clock /\ f.start = e1.start
          /\ f.first = e1.first
      <4>1. f \in Weather
        BY <2>4, <3>2 DEF Weather
      <4>2. QED BY <2>4, <4>1 DEF Weather
    <3> HIDE DEF f
    <3>6. Sound(f)
      BY <2>2, <2>4, <2>5, <3>2, <3>3, <3>4, <3>5 DEF Sound, LookedUp, Clocked, AllRight
    <3>7. (f.submitted /\ ~f.success) \in BOOLEAN
      OBVIOUS
    <3>8. QED BY <2>1, <2>4, <3>1, <3>5, <3>6, <3>7
  <2> HIDE DEF e2
  <2>8. QED
    <3>1. e2 = e1 \/ e2 = Weathers!Finalize(e1)
      BY DEF e2
    <3>2. QED BY <3>1, <2>6, <2>7
<1>3. QED BY <1>1, <1>2

ItemOf(known) ==
  {item \in (WeatherQuestions \cup {Weathers!BadIndex}) \X Weathers!AnswerKinds :
     item[2] = "right" => item[1] \in known}
Results(known) ==
  {r \in [env : Weather, wrong : BOOLEAN] : Sound(r.env) /\ r.env.known = known}

LEMMA AnsweredNextSound ==
  ASSUME NEW known, NEW r \in Results(known), NEW item \in ItemOf(known)
  PROVE  Weathers!AnsweredNext(r, item) \in Results(known)
<1> USE DEF Results
<1>1. CASE r.wrong
  BY <1>1 DEF Weathers!AnsweredNext
<1>2. CASE ~r.wrong /\ item[2] = "short"
  <2>1. Weathers!AnsweredNext(r, item) = [env |-> Weathers!Fail(r.env), wrong |-> TRUE]
    BY <1>2 DEF Weathers!AnsweredNext
  <2>2. Sound(Weathers!Fail(r.env)) /\ Weathers!Fail(r.env).known = known /\ Weathers!Fail(r.env) \in Weather
    BY FailSound DEF Sound
  <2>3. QED BY <2>1, <2>2
<1>3. CASE ~r.wrong /\ item[2] # "short"
  <2> DEFINE s == Weathers!Answered(r.env, item[1], item[2])
  <2>1. Weathers!AnsweredNext(r, item) = s
    BY <1>3 DEF Weathers!AnsweredNext
  <2>2. /\ item[1] \in WeatherQuestions \cup {Weathers!BadIndex} /\ item[2] \in Weathers!AnswerKinds
        /\ item[2] = "right" => item[1] \in r.env.known
    BY DEF ItemOf
  <2>3. Sound(s.env) /\ s.env.known = known /\ s.env \in Weather /\ s.wrong \in BOOLEAN
    <3>1. Sound(r.env)
      OBVIOUS
    <3>2. QED BY <2>2, <3>1, AnsweredSound DEF Sound
  <2>4. s = [env |-> s.env, wrong |-> s.wrong]
    <3>1. \E e, w : s = [env |-> e, wrong |-> w]
      BY DEF Weathers!Answered
    <3> HIDE DEF s
    <3>2. QED BY <3>1
  <2> HIDE DEF s
  <2>5. QED BY <2>1, <2>3, <2>4
<1>4. QED BY <1>1, <1>2, <1>3

(* submit_answers, item by item. *)
LEMMA AllAnsweredSound ==
  ASSUME NEW e, Sound(e), NEW items \in Seq(ItemOf(e.known))
  PROVE  Sound(Weathers!AllAnswered(e, items))
<1> DEFINE n == Len(items)
<1> DEFINE A == Results(e.known)
<1> DEFINE a == [env |-> e, wrong |-> FALSE]
<1> DEFINE G == [i \in 1..n |-> [r \in A |-> Weathers!AnsweredNext(r, items[i])]]
<1> DEFINE result[i \in 0..n] == IF i = 0 THEN a ELSE Weathers!AnsweredNext(result[i - 1], items[i])
<1>1. n \in Nat /\ a \in A
  BY DEF Results, Sound
<1>2. G \in [1..n -> [A -> A]]
  BY AnsweredNextSound
<1>3. PICK f \in [0..n -> A] : Unfolds(f, n, a, G)
  <2> HIDE DEF n, A, a, G
  <2> QED BY <1>1, <1>2, Iterated
<1>4. ASSUME NEW i \in 0..n PROVE f[i] = (IF i = 0 THEN a ELSE Weathers!AnsweredNext(f[i - 1], items[i]))
  <2>1. f[i] = (IF i = 0 THEN a ELSE G[i][f[i - 1]])
    BY <1>3 DEF Unfolds
  <2>2. i # 0 => i \in 1..n /\ f[i - 1] \in A
    BY <1>1
  <2> HIDE DEF a, A, n
  <2>3. QED BY <2>1, <2>2
<1>5. f = [i \in 0..n |-> IF i = 0 THEN a ELSE Weathers!AnsweredNext(f[i - 1], items[i])]
  <2> HIDE DEF a, A, n
  <2> QED BY <1>4
<1>6. result = [i \in 0..n |-> IF i = 0 THEN a ELSE Weathers!AnsweredNext(result[i - 1], items[i])]
  <2> HIDE DEF a, A, n
  <2> QED BY <1>5 DEF result
<1>7. \A i \in 0..n : result[i] = f[i]
  <2> DEFINE T == {i \in Nat : i \in 0..n => result[i] = f[i]}
  <2>1. 0 \in T
    BY <1>4, <1>6, <1>1
  <2>2. ASSUME NEW i \in 0..(n - 1), i \in T PROVE i + 1 \in T
    <3>1. result[i] = f[i] /\ i + 1 \in 0..n /\ i + 1 \in Nat /\ (i + 1) - 1 = i /\ i + 1 # 0
      BY <1>1, <2>2
    <3>2. f[i + 1] = Weathers!AnsweredNext(f[i], items[i + 1])
      BY <1>4, <3>1
    <3> HIDE DEF n, a
    <3>3. result[i + 1] = Weathers!AnsweredNext(result[i], items[i + 1])
      BY <1>6, <3>1
    <3>4. QED BY <3>1, <3>2, <3>3
  <2>3. 0..n \subseteq T
    <3> HIDE DEF n, T
    <3> QED BY <1>1, <2>1, <2>2, UpTo
  <2>4. QED BY <2>3
<1>8. result[n].env \in Weather /\ Sound(result[n].env)
  BY <1>1, <1>3, <1>7 DEF Results
<1>9. Weathers!AllAnswered(e, items) =
        CASE e.submitted \/ e.start = Weathers!Never -> e
          [] Len(items) # Weathers!Cardinality(WeatherQuestions) -> Weathers!Fail(e)
          [] OTHER -> result[Len(items)].env
  BY DEF Weathers!AllAnswered
<1>10. QED
  <2> HIDE DEF result
  <2> QED BY <1>8, <1>9, FailSound

LEMMA WeatherGoesOn == ASSUME WeatherInv, Weathers!WeatherNext PROVE WeatherInv'
<1>1. ASSUME NEW e, Sound(e), Weathers!After(e) PROVE WeatherInv'
  BY <1>1, WeatherAfter
<1>2. ASSUME NEW e, Sound(e), ~e.submitted, env' = e, verdict = "running", verdict' = "running", score' = score
      PROVE  WeatherInv'
  <2>1. Sound(env)'
    BY <1>2 DEF Sound, LookedUp, Clocked, AllRight
  <2>2. QED BY <1>2, <2>1 DEF WeatherInv, Unscored, Mazes!Verdicts, Mazes!CutShort, Weathers!WeatherEarned
<1>3. /\ Sound(env) /\ env \in Weather /\ LookedUp(env) /\ Clocked(env) /\ env.clock \in Nat /\ env.known \subseteq WeatherQuestions
      /\ verdict = "running" => ~env.submitted /\ ~env.success
  BY DEF WeatherInv, Sound, Weather, Unscored, AllRight
<1>4. ASSUME Weathers!GetQuestions PROVE WeatherInv'
  <2> DEFINE first == IF env.first = Weathers!Never THEN env.clock ELSE env.first
  <2> DEFINE e == [env EXCEPT !.start = env.clock, !.texts = TRUE, !.first = first]
  <2>1. Weathers!After(e) /\ verdict = "running"
    BY <1>4 DEF Weathers!GetQuestions, Weathers!After, Weathers!Applied
  <2>2. env.clock \in Moments /\ first \in Moments /\ first <= env.clock
    <3>1. env.first \in Moments /\ env.start \in Moments
      BY <1>3 DEF Weather
    <3>2. QED BY <1>3, <3>1 DEF Moments, Clocked
  <2> HIDE DEF first
  <2>3. /\ e.first = first /\ e.start = env.clock
        /\ e \in Weather /\ e.known = env.known /\ e.clock = env.clock /\ e.partial = env.partial
        /\ e.success = env.success
    BY <1>3, <2>2 DEF Weather
  <2> HIDE DEF e
  <2>4. Sound(e)
    BY <1>3, <2>1, <2>2, <2>3 DEF Sound, LookedUp, Clocked
  <2>5. QED BY <1>1, <2>1, <2>4
<1>5. ASSUME NEW item \in Weathers!Answers, Weathers!SubmitAnswer(item) PROVE WeatherInv'
  <2>1. /\ item[1] \in WeatherQuestions \cup {Weathers!BadIndex} /\ item[2] \in Weathers!AnswerKinds
        /\ item[2] = "right" => item[1] \in env.known
    BY <1>5 DEF Weathers!Answers, Weathers!SubmitAnswer, Weathers!Honest, Weathers!AnswerKinds
  <2>2. Sound(Weathers!Answered(env, item[1], item[2]).env)
    BY <1>3, <2>1, AnsweredSound
  <2>3. Weathers!After(Weathers!Answered(env, item[1], item[2]).env)
    BY <1>5 DEF Weathers!SubmitAnswer
  <2>4. QED BY <1>1, <2>2, <2>3
<1>6. ASSUME NEW items \in {<<>>} \cup [1..Weathers!Cardinality(WeatherQuestions) -> Weathers!Answers],
             Weathers!SubmitAnswers(items)
      PROVE  WeatherInv'
  <2>1. Weathers!Cardinality(WeatherQuestions) \in Nat
    <3>1. IsFiniteSet(WeatherQuestions)
      BY ProblemsAssumption DEF Weathers!WeatherAssumption, Weathers!IsFiniteSet, IsFiniteSet
    <3>2. Cardinality(WeatherQuestions) \in Nat
      BY <3>1, FS_CardinalityType
    <3>3. QED BY <3>2 DEF Weathers!Cardinality, Cardinality
  <2>2. items \in Seq(Weathers!Answers)
    <3> DEFINE k == Weathers!Cardinality(WeatherQuestions)
    <3>1. k \in Nat /\ items \in {<<>>} \cup [1..k -> Weathers!Answers]
      BY <2>1
    <3> HIDE DEF k
    <3>2. CASE items = <<>>
      BY <3>2
    <3>3. CASE items \in [1..k -> Weathers!Answers]
      BY <3>1, <3>3
    <3>4. QED BY <3>1, <3>2, <3>3
  <2>3. ASSUME NEW i \in 1..Len(items) PROVE items[i] \in ItemOf(env.known)
    <3>1. items[i] \in Weathers!Answers
      BY <2>2
    <3>2. items[i][2] = "right" => items[i][1] \in env.known
      BY <1>6, <2>2 DEF Weathers!SubmitAnswers, Weathers!Honest
    <3>3. QED BY <3>1, <3>2 DEF ItemOf, Weathers!Answers, Weathers!AnswerKinds
  <2>4. items \in Seq(ItemOf(env.known))
    BY <2>2, <2>3
  <2>5. Sound(Weathers!AllAnswered(env, items))
    BY <1>3, <2>4, AllAnsweredSound
  <2>6. QED BY <1>1, <1>6, <2>5 DEF Weathers!SubmitAnswers
<1>7. ASSUME NEW q \in WeatherQuestions, Weathers!StartLookup(q) PROVE WeatherInv'
  <2> DEFINE lookup == [env.lookup EXCEPT ![q] = env.clock]
  <2> DEFINE e == [env EXCEPT !.lookup = lookup]
  <2>1. verdict = "running" /\ env' = e /\ verdict' = "running" /\ score' = score
    BY <1>7 DEF Weathers!StartLookup
  <2>2. lookup \in [WeatherQuestions -> Nat \cup {Weathers!Idle}]
    BY <1>3 DEF Weather
  <2> HIDE DEF lookup
  <2>3. /\ e \in Weather /\ e.known = env.known /\ e.clock = env.clock /\ e.partial = env.partial
        /\ e.success = env.success /\ e.submitted = env.submitted
        /\ e.first = env.first /\ e.start = env.start
    BY <1>3, <2>2 DEF Weather
  <2> HIDE DEF e
  <2>4. Sound(e)
    BY <1>3, <2>1, <2>3 DEF Sound, LookedUp, Clocked
  <2>5. QED BY <1>2, <1>3, <2>1, <2>3, <2>4
<1>8. ASSUME NEW q \in WeatherQuestions, Weathers!EndLookup(q) PROVE WeatherInv'
  <2> DEFINE lookup == [env.lookup EXCEPT ![q] = Weathers!Idle]
  <2> DEFINE known == IF env.texts THEN env.known \cup {q} ELSE env.known
  <2> DEFINE e == [env EXCEPT !.lookup = lookup, !.known = known]
  <2>1. verdict = "running" /\ env' = e /\ verdict' = "running" /\ score' = score
    BY <1>8 DEF Weathers!EndLookup
  <2>2. env.clock >= ToolDelay
    <3>1. env.lookup[q] \in Nat /\ env.lookup[q] + ToolDelay <= env.clock
      BY <1>3, <1>8 DEF Weathers!EndLookup, Weathers!Due, Weather
    <3>2. ToolDelay \in Nat
      BY ProblemsAssumption DEF Weathers!WeatherAssumption
    <3>3. QED BY <1>3, <3>1, <3>2
  <2>3. lookup \in [WeatherQuestions -> Nat \cup {Weathers!Idle}] /\ known \subseteq WeatherQuestions
        /\ env.known \subseteq known
    BY <1>3 DEF Weather
  <2> HIDE DEF lookup, known
  <2>4. /\ e \in Weather /\ e.known = known /\ e.clock = env.clock /\ e.partial = env.partial
        /\ e.success = env.success /\ e.submitted = env.submitted
        /\ e.first = env.first /\ e.start = env.start
    BY <1>3, <2>3 DEF Weather
  <2> HIDE DEF e
  <2>5. LookedUp(e) /\ Clocked(e)
    BY <1>3, <2>2, <2>3, <2>4 DEF LookedUp, Clocked
  <2>6. Sound(e)
    BY <1>3, <2>1, <2>4, <2>5 DEF Sound
  <2>7. QED BY <1>2, <1>3, <2>1, <2>4, <2>6
<1>9. ASSUME Weathers!Tick PROVE WeatherInv'
  <2> DEFINE e == [env EXCEPT !.clock = @ + 1]
  <2>1. verdict = "running" /\ env' = e /\ verdict' = "running" /\ score' = score
    BY <1>9 DEF Weathers!Tick
  <2>2. env.clock + 1 \in Nat
    BY <1>3
  <2>3. e \in Weather
    BY <1>3, <2>2 DEF Weather
  <2>4. /\ e.known = env.known /\ e.clock = env.clock + 1 /\ e.partial = env.partial
        /\ e.success = env.success /\ e.submitted = env.submitted
        /\ e.first = env.first /\ e.start = env.start
    BY <1>3 DEF Weather
  <2> HIDE DEF e
  <2>5. env.clock >= ToolDelay => env.clock + 1 >= ToolDelay
    <3>1. ToolDelay \in Nat
      BY ProblemsAssumption DEF Weathers!WeatherAssumption
    <3>2. QED BY <1>3, <3>1
  <2>6. LookedUp(e) /\ Clocked(e)
    <3>1. env.start \in Int /\ env.clock \in Int
      BY <1>3 DEF Weather, Moments
    <3>2. QED BY <1>3, <2>4, <2>5, <3>1 DEF LookedUp, Clocked
  <2>7. Sound(e)
    BY <1>3, <2>1, <2>3, <2>4, <2>6 DEF Sound
  <2>8. QED BY <1>2, <1>3, <2>1, <2>4, <2>7
<1>10. ASSUME Weathers!Interrupted(Weathers!Points(env)) PROVE WeatherInv'
  <2>1. /\ verdict = "running" /\ verdict' \in Mazes!CutShort /\ env' = env
        /\ score' = Weathers!Points(env)
    BY <1>10 DEF Weathers!Interrupted, Weathers!CutShort, Mazes!CutShort
  <2>2. Weathers!Points(env) = 0
    BY <1>3, <2>1 DEF Weathers!Points
  <2>3. Sound(env)'
    BY <1>3, <2>1 DEF Sound, LookedUp, Clocked, AllRight
  <2>4. QED BY <2>1, <2>2, <2>3 DEF WeatherInv, Unscored, Mazes!Verdicts, Mazes!CutShort, Weathers!WeatherEarned
<1>11. QED
  BY <1>4, <1>5, <1>6, <1>7, <1>8, <1>9, <1>10 DEF Weathers!WeatherNext

(* short_circuit_scraper *)
Scraper == [state : {"idle", "waiting", "home", "cancelled"}, began : Moments, due : Moments]
Circuit ==
  [valid : Endpoints, told : Endpoints \cup {-1}, start : Moments, clock : Nat, cancelled : BOOLEAN,
   profile : BOOLEAN, stage : {"idle", "judge", "refused", "block"}, submitAt : Moments, correct : BOOLEAN,
   leaked : Nat, scraper : [Endpoints -> Scraper]]

(* A wait ends in time, and one that ended after the submission is counted. *)
InTimeAt(e, s) ==
  /\ s.began <= e.clock
  /\ s.state = "waiting" =>
       s.began # -1 /\ s.due # -1 /\ s.due <= s.began + InvalidDelay /\ e.clock <= s.due
  /\ s.state = "home" /\ e.stage = "idle" => s.due <= e.clock
  /\ s.state = "home" /\ e.stage # "idle" /\ e.leaked = 0 => s.due <= e.submitAt
Timed(e) == \A i \in Endpoints : InTimeAt(e, e.scraper[i])
Submitting(e) ==
  /\ e.stage # "idle" => e.submitAt # -1 /\ e.submitAt <= e.clock
  /\ e.stage = "judge" => e.submitAt = e.clock
  /\ e.stage = "block" => e.profile /\ e.submitAt - e.start <= SubmitDeadline
Measured(e) == e \in Circuit /\ Timed(e) /\ Submitting(e)
CircuitInv == Measured(env) /\ Unscored(TRUE) /\ Circuits!CascadeCaught

LEMMA CircuitConstants ==
  /\ ValidDelay \in Nat /\ InvalidDelay \in Nat /\ BlockDelay \in Nat /\ SubmitDeadline \in Nat
  /\ ValidDelay <= InvalidDelay /\ InvalidDelay <= BlockDelay
  BY ProblemsAssumption DEF Circuits!CircuitAssumption

LEMMA CircuitStarts == ASSUME Circuits!CircuitInit PROVE CircuitInv
<1>1. PICK valid \in Endpoints :
        env = [valid |-> valid, told |-> -1, start |-> -1, clock |-> 0,
               cancelled |-> FALSE, profile |-> FALSE, stage |-> "idle", submitAt |-> -1,
               correct |-> FALSE, leaked |-> 0,
               scraper |-> [i \in Endpoints |-> [state |-> "idle", began |-> -1, due |-> -1]]]
  BY DEF Circuits!CircuitInit, Circuits!Never
<1>2. env \in Circuit
  BY <1>1 DEF Circuit, Scraper, Moments
<1>3. Timed(env) /\ Submitting(env)
  BY <1>1 DEF Timed, InTimeAt, Submitting
<1>4. verdict = "running" /\ score = 0
  BY DEF Circuits!CircuitInit, Circuits!CaseInit
<1>5. QED
  BY <1>2, <1>3, <1>4 DEF CircuitInv, Measured, Unscored, Mazes!Verdicts, Mazes!CutShort, Circuits!CascadeCaught

LEMMA CircuitLocal ==
  ASSUME NEW e, Measured(e), Circuits!Local(e) PROVE CircuitInv'
<1>1. verdict = "running" /\ env' = e /\ verdict' = "running" /\ score' = score
  BY DEF Circuits!Local
<1>2. Measured(env)'
  BY <1>1 DEF Measured, Timed, InTimeAt, Submitting
<1>3. QED BY <1>1, <1>2 DEF CircuitInv, Unscored, Mazes!Verdicts, Mazes!CutShort, Circuits!CascadeCaught

(* One scraper changes; the others stay as they are. *)
LEMMA ScraperChanges ==
  ASSUME Measured(env), NEW i \in Endpoints, NEW s \in Scraper, NEW n \in Nat, NEW p \in BOOLEAN,
         n >= env.leaked, env.profile => p,
         InTimeAt([env EXCEPT !.scraper = [env.scraper EXCEPT ![i] = s], !.leaked = n, !.profile = p], s)
  PROVE  Measured([env EXCEPT !.scraper = [env.scraper EXCEPT ![i] = s], !.leaked = n, !.profile = p])
<1> DEFINE scraper == [env.scraper EXCEPT ![i] = s]
<1> DEFINE e == [env EXCEPT !.scraper = scraper, !.leaked = n, !.profile = p]
<1>1. env \in Circuit /\ env.leaked \in Nat
  BY DEF Measured, Circuit
<1>2. scraper \in [Endpoints -> Scraper] /\ scraper[i] = s /\ \A j \in Endpoints \ {i} : scraper[j] = env.scraper[j]
  BY <1>1 DEF Circuit
<1>3. InTimeAt(e, s)
  OBVIOUS
<1>4. SUFFICES Measured(e)
  OBVIOUS
<1> HIDE DEF scraper
<1>5. /\ e \in Circuit /\ e.scraper = scraper /\ e.leaked = n /\ e.profile = p /\ e.clock = env.clock
      /\ e.stage = env.stage /\ e.submitAt = env.submitAt /\ e.start = env.start
  <2>1. e \in Circuit
    BY <1>1, <1>2 DEF Circuit
  <2>2. QED BY <1>1, <2>1 DEF Circuit
<1> HIDE DEF e
<1>6. ASSUME NEW j \in Endpoints PROVE InTimeAt(e, e.scraper[j])
  <2>1. CASE j = i
    BY <1>2, <1>3, <1>5, <2>1
  <2>2. CASE j # i
    <3>1. e.scraper[j] = env.scraper[j] /\ InTimeAt(env, env.scraper[j])
      BY <1>2, <1>5, <2>2 DEF Measured, Timed
    <3>2. n = 0 => env.leaked = 0
      BY <1>1
    <3>3. QED BY <1>5, <3>1, <3>2 DEF InTimeAt
  <2>3. QED BY <2>1, <2>2
<1>7. Submitting(e)
  BY <1>5 DEF Submitting, Measured
<1>8. QED BY <1>5, <1>6, <1>7 DEF Measured, Timed

LEMMA CircuitGoesOn == ASSUME CircuitInv, Circuits!CircuitNext PROVE CircuitInv'
<1>1. /\ Measured(env) /\ env \in Circuit /\ env.clock \in Nat /\ env.leaked \in Nat /\ env.profile \in BOOLEAN
      /\ env.clock \in Moments /\ env.clock # -1 /\ env.clock >= 0
  BY DEF CircuitInv, Measured, Circuit, Moments
<1>2. ASSUME NEW e, Measured(e), Circuits!Local(e) PROVE CircuitInv'
  BY <1>2, CircuitLocal
<1>3. ASSUME Circuits!GetUser PROVE CircuitInv'
  <2> DEFINE e == [env EXCEPT !.start = env.clock, !.told = env.valid]
  <2>1. Circuits!Local(e) /\ env.stage = "idle"
    BY <1>3 DEF Circuits!GetUser, Circuits!Applied, Circuits!Local
  <2>2. /\ e \in Circuit /\ e.scraper = env.scraper /\ e.leaked = env.leaked /\ e.clock = env.clock
        /\ e.stage = "idle" /\ e.submitAt = env.submitAt
    <3>1. e \in Circuit
      BY <1>1 DEF Circuit
    <3>2. QED BY <1>1, <2>1, <3>1 DEF Circuit
  <2> HIDE DEF e
  <2>3. Measured(e)
    BY <1>1, <2>1, <2>2 DEF Measured, Timed, InTimeAt, Submitting
  <2>4. QED BY <1>2, <2>1, <2>3
<1>4. ASSUME NEW i \in Endpoints, Circuits!GetInfo(i) PROVE CircuitInv'
  <2> DEFINE delay == IF i = env.told THEN ValidDelay ELSE InvalidDelay
  <2> DEFINE s == IF env.cancelled THEN [state |-> "cancelled", began |-> env.clock, due |-> Circuits!Never]
                  ELSE [state |-> "waiting", began |-> env.clock, due |-> env.clock + delay]
  <2> DEFINE scraper == [env.scraper EXCEPT ![i] = s]
  <2> DEFINE e == [env EXCEPT !.scraper = scraper, !.leaked = env.leaked, !.profile = env.profile]
  <2>1. Circuits!Local([env EXCEPT !.scraper = scraper])
    BY <1>4 DEF Circuits!GetInfo
  <2>2. delay \in Nat /\ delay <= InvalidDelay
    BY CircuitConstants
  <2> HIDE DEF delay
  <2>3. /\ s \in Scraper /\ s.began = env.clock /\ s.state \in {"waiting", "cancelled"}
        /\ s.state = "waiting" => s.due = env.clock + delay
    BY <1>1, <2>2 DEF Scraper, Moments, Circuits!Never
  <2> HIDE DEF s
  <2>4. scraper \in [Endpoints -> Scraper]
    <3>1. env.scraper \in [Endpoints -> Scraper] /\ s \in Scraper
      BY <1>1, <2>3 DEF Circuit
    <3>2. QED BY <3>1
  <2>5. [env EXCEPT !.scraper = scraper] = e
    <3> HIDE DEF scraper
    <3> QED BY <1>1, <2>4 DEF Circuit
  <2>6. e.clock = env.clock
    BY <1>1 DEF Circuit
  <2>7. InTimeAt(e, s)
    <3> HIDE DEF e
    <3>1. InvalidDelay \in Nat
      BY CircuitConstants
    <3>2. s.began <= e.clock /\ s.state # "home"
      BY <1>1, <2>3, <2>6
    <3>3. s.state = "waiting" =>
            s.began # -1 /\ s.due # -1 /\ s.due <= s.began + InvalidDelay /\ e.clock <= s.due
      BY <1>1, <2>2, <2>3, <2>6, <3>1
    <3>4. QED BY <3>2, <3>3 DEF InTimeAt
  <2>8. Measured(e)
    <3>1. s \in Scraper /\ env.leaked >= env.leaked /\ env.leaked \in Nat /\ env.profile \in BOOLEAN
          /\ Measured(env)
      BY <1>1, <2>3
    <3>2. QED BY <2>7, <3>1, ScraperChanges
  <2>9. QED
    <3> HIDE DEF e
    <3> QED BY <1>2, <2>1, <2>5, <2>8
<1>5. ASSUME NEW i \in Endpoints, Circuits!ComesHome(i) PROVE CircuitInv'
  <2> DEFINE s == [env.scraper[i] EXCEPT !.state = "home"]
  <2> DEFINE n == IF env.stage = "idle" THEN env.leaked ELSE env.leaked + 1
  <2> DEFINE p == env.profile \/ i = env.told
  <2> DEFINE e == [env EXCEPT !.scraper = [env.scraper EXCEPT ![i] = s], !.leaked = n, !.profile = p]
  <2>1. Circuits!Local(e) /\ env.scraper[i].state = "waiting" /\ env.scraper[i].due <= env.clock
    <3>1. /\ env.scraper[i].state = "waiting" /\ env.scraper[i].due <= env.clock
          /\ Circuits!Local([env EXCEPT !.scraper[i].state = "home", !.leaked = n, !.profile = p])
      BY <1>5 DEF Circuits!ComesHome, Circuits!Waiting
    <3>2. QED BY <3>1
  <2>2. env.scraper[i] \in Scraper
    BY <1>1 DEF Circuit
  <2>3. s \in Scraper /\ s.state = "home" /\ s.due = env.scraper[i].due /\ s.began = env.scraper[i].began
    BY <2>2 DEF Scraper
  <2>4. n \in Nat /\ n >= env.leaked /\ p \in BOOLEAN /\ (env.profile => p) /\ (env.stage # "idle" => n # 0)
    BY <1>1
  <2> HIDE DEF n, p, s
  <2>5. e.clock = env.clock /\ e.stage = env.stage /\ e.leaked = n
    BY <1>1 DEF Circuit
  <2>6. s.began <= env.clock
    BY <1>1, <2>3 DEF Measured, Timed, InTimeAt
  <2>7. InTimeAt(e, s)
    <3> HIDE DEF e
    <3> QED BY <2>1, <2>3, <2>4, <2>5, <2>6 DEF InTimeAt
  <2>8. Measured(e)
    BY <1>1, <2>3, <2>4, <2>7, ScraperChanges
  <2>9. QED
    <3> HIDE DEF e
    <3> QED BY <1>2, <2>1, <2>8
<1>6. ASSUME Circuits!Cancel PROVE CircuitInv'
  <2> DEFINE scraper == [i \in Endpoints |->
        IF Circuits!Waiting(i) THEN [env.scraper[i] EXCEPT !.state = "cancelled"] ELSE env.scraper[i]]
  <2> DEFINE e == [env EXCEPT !.cancelled = TRUE, !.scraper = scraper]
  <2>1. Circuits!Local(e)
    BY <1>6 DEF Circuits!Cancel
  <2>2. ASSUME NEW i \in Endpoints
        PROVE  /\ scraper[i] \in Scraper /\ scraper[i].began = env.scraper[i].began
               /\ scraper[i].due = env.scraper[i].due
               /\ scraper[i].state \in {"waiting", "home"} => scraper[i].state = env.scraper[i].state
    <3>1. env.scraper[i] \in Scraper
      BY <1>1 DEF Circuit
    <3>2. QED BY <3>1 DEF Scraper
  <2>3. scraper \in [Endpoints -> Scraper]
    BY <2>2
  <2> HIDE DEF scraper
  <2>4. /\ e \in Circuit /\ e.scraper = scraper /\ e.leaked = env.leaked /\ e.clock = env.clock
        /\ e.stage = env.stage /\ e.submitAt = env.submitAt /\ e.start = env.start /\ e.profile = env.profile
    <3>1. e \in Circuit
      BY <1>1, <2>3 DEF Circuit
    <3>2. QED BY <1>1, <3>1 DEF Circuit
  <2> HIDE DEF e
  <2>5. Timed(e)
    <3>1. ASSUME NEW i \in Endpoints PROVE InTimeAt(e, e.scraper[i])
      <4>1. InTimeAt(env, env.scraper[i])
        BY <1>1 DEF Measured, Timed
      <4>2. QED BY <2>2, <2>4, <4>1 DEF InTimeAt
    <3>2. QED BY <3>1 DEF Timed
  <2>6. Measured(e)
    BY <1>1, <2>4, <2>5 DEF Measured, Submitting
  <2>7. QED BY <1>2, <2>1, <2>6
<1>7. ASSUME Circuits!BeginSubmit PROVE CircuitInv'
  <2> DEFINE e == [env EXCEPT !.stage = "judge", !.submitAt = env.clock]
  <2>1. Circuits!Local(e) /\ env.stage = "idle"
    BY <1>7 DEF Circuits!BeginSubmit
  <2>2. /\ e \in Circuit /\ e.scraper = env.scraper /\ e.clock = env.clock
        /\ e.stage = "judge" /\ e.submitAt = env.clock
    <3>1. e \in Circuit
      BY <1>1 DEF Circuit
    <3>2. QED BY <1>1, <3>1 DEF Circuit
  <2> HIDE DEF e
  <2>3. Timed(e)
    <3>1. ASSUME NEW i \in Endpoints PROVE InTimeAt(e, e.scraper[i])
      <4>1. InTimeAt(env, env.scraper[i])
        BY <1>1 DEF Measured, Timed
      <4>2. QED BY <2>1, <2>2, <4>1 DEF InTimeAt
    <3>2. QED BY <3>1 DEF Timed
  <2>4. Measured(e)
    BY <1>1, <2>2, <2>3 DEF Measured, Submitting
  <2>5. QED BY <1>2, <2>1, <2>4
<1>8. ASSUME NEW right \in BOOLEAN, Circuits!JudgeSubmit(right) PROVE CircuitInv'
  <2>1. env.stage = "judge" /\ env.submitAt = env.clock
    BY <1>1, <1>8 DEF Circuits!JudgeSubmit, Measured, Submitting
  <2>2. ASSUME NEW stage \in {"refused", "block"}, NEW correct \in BOOLEAN,
               stage = "block" => env.profile /\ env.clock - env.start <= SubmitDeadline
        PROVE  Measured([env EXCEPT !.stage = stage, !.correct = correct])
    <3> DEFINE e == [env EXCEPT !.stage = stage, !.correct = correct]
    <3>1. /\ e \in Circuit /\ e.scraper = env.scraper /\ e.clock = env.clock /\ e.leaked = env.leaked
          /\ e.stage = stage /\ e.submitAt = env.submitAt /\ e.start = env.start /\ e.profile = env.profile
      <4>1. e \in Circuit
        BY <1>1 DEF Circuit
      <4>2. QED BY <1>1, <4>1 DEF Circuit
    <3> HIDE DEF e
    <3>2. Timed(e)
      <4>1. ASSUME NEW i \in Endpoints PROVE InTimeAt(e, e.scraper[i])
        <5>1. InTimeAt(env, env.scraper[i])
          BY <1>1 DEF Measured, Timed
        <5>2. QED BY <2>1, <2>2, <3>1, <5>1 DEF InTimeAt
      <4>2. QED BY <4>1 DEF Timed
    <3>3. Submitting(e)
      BY <1>1, <2>1, <2>2, <3>1 DEF Submitting, Measured
    <3>4. Measured(e)
      BY <3>1, <3>2, <3>3 DEF Measured
    <3>5. QED BY <3>4 DEF e
  <2>3. CASE env.start = Circuits!Never \/ env.clock - env.start > SubmitDeadline \/ ~right
    <3> DEFINE e == [env EXCEPT !.stage = "refused"]
    <3>1. Circuits!Fail(e)
      BY <1>8, <2>3 DEF Circuits!JudgeSubmit
    <3>2. [env EXCEPT !.stage = "refused", !.correct = env.correct] = e
      BY <1>1 DEF Circuit
    <3>3. env.correct \in BOOLEAN
      BY <1>1 DEF Circuit
    <3>4. Measured([env EXCEPT !.stage = "refused", !.correct = env.correct])
      BY <2>2, <3>3
    <3> HIDE DEF e
    <3>5. Measured(e)
      BY <3>2, <3>4
    <3>6. env' = e /\ verdict' = "failed"
      BY <3>1 DEF Circuits!Fail, Circuits!Applied
    <3>7. Measured(env)'
      BY <3>5, <3>6 DEF Measured, Timed, InTimeAt, Submitting
    <3>8. QED BY <3>6, <3>7 DEF CircuitInv, Unscored, Mazes!Verdicts, Mazes!CutShort, Circuits!CascadeCaught
  <2>4. CASE ~(env.start = Circuits!Never \/ env.clock - env.start > SubmitDeadline \/ ~right)
    <3> DEFINE e == [env EXCEPT !.stage = "block", !.correct = TRUE]
    <3>1. Circuits!Local(e) /\ env.profile
      BY <1>8, <2>4 DEF Circuits!JudgeSubmit, Circuits!Applied, Circuits!Local
    <3>2. env.clock - env.start <= SubmitDeadline
      BY <1>1, <2>4, CircuitConstants DEF Circuit, Moments
    <3>3. Measured(e)
      BY <2>2, <3>1, <3>2
    <3> HIDE DEF e
    <3>4. QED BY <1>2, <3>1, <3>3
  <2>5. QED BY <2>3, <2>4
<1>9. ASSUME Circuits!CascadeCheck PROVE CircuitInv'
  <2>1. /\ env.stage = "block" /\ env.clock >= env.submitAt + BlockDelay /\ verdict = "running"
        /\ env' = env /\ verdict' \in {"passed", "failed"} /\ (verdict' = "passed" => ~(env.leaked > 0))
    BY <1>9 DEF Circuits!CascadeCheck, Circuits!Fail, Circuits!Applied
  <2>2. Measured(env)'
    BY <1>1, <2>1 DEF Measured, Timed, InTimeAt, Submitting
  <2>3. env.profile /\ env.submitAt - env.start <= SubmitDeadline /\ env.submitAt \in Nat
    BY <1>1, <2>1 DEF Measured, Submitting, Circuit, Moments
  <2>4. ASSUME verdict' = "passed", NEW i \in Endpoints, env.scraper[i].began \in 0..(env.submitAt - 1)
        PROVE  /\ ~(env.scraper[i].state = "waiting")
               /\ env.scraper[i].state = "home" => env.scraper[i].due <= env.submitAt
    <3>1. InTimeAt(env, env.scraper[i]) /\ env.leaked = 0
      BY <1>1, <2>1, <2>4 DEF Measured, Timed
    <3>2. env.scraper[i].state = "waiting" =>
            env.scraper[i].due <= env.scraper[i].began + InvalidDelay /\ env.clock <= env.scraper[i].due
      BY <3>1 DEF InTimeAt
    <3>3. env.scraper[i].due \in Int /\ env.scraper[i].began \in Int
      BY <1>1 DEF Circuit, Scraper, Moments
    <3>4. ~(env.scraper[i].state = "waiting")
      BY <1>1, <2>1, <2>3, <2>4, <3>2, <3>3, CircuitConstants
    <3>5. QED BY <2>1, <3>1, <3>4 DEF InTimeAt
  <2>5. Circuits!CascadeCaught'
    BY <2>1, <2>3, <2>4 DEF Circuits!CascadeCaught, Circuits!Waiting
  <2>6. QED BY <2>1, <2>2, <2>5 DEF CircuitInv, Unscored, Mazes!Verdicts, Mazes!CutShort
<1>10. ASSUME Circuits!Tick PROVE CircuitInv'
  <2> DEFINE e == [env EXCEPT !.clock = @ + 1]
  <2>1. Circuits!Local(e) /\ env.stage # "judge"
        /\ \A i \in Endpoints : env.scraper[i].state = "waiting" => env.clock < env.scraper[i].due
    BY <1>10 DEF Circuits!Tick, Circuits!Waiting
  <2>2. /\ e \in Circuit /\ e.scraper = env.scraper /\ e.leaked = env.leaked /\ e.clock = env.clock + 1
        /\ e.stage = env.stage /\ e.submitAt = env.submitAt /\ e.start = env.start /\ e.profile = env.profile
    <3>1. env.clock + 1 \in Nat
      BY <1>1
    <3>2. e \in Circuit
      BY <1>1, <3>1 DEF Circuit
    <3>3. QED BY <1>1, <3>2 DEF Circuit
  <2> HIDE DEF e
  <2>3. Timed(e)
    <3>1. ASSUME NEW i \in Endpoints PROVE InTimeAt(e, e.scraper[i])
      <4>1. InTimeAt(env, env.scraper[i]) /\ env.scraper[i].due \in Int /\ env.scraper[i].began \in Int
        BY <1>1 DEF Measured, Timed, Circuit, Scraper, Moments
      <4>2. QED BY <1>1, <2>1, <2>2, <4>1 DEF InTimeAt
    <3>2. QED BY <3>1 DEF Timed
  <2>4. Submitting(e)
    <3>1. env.submitAt \in Int
      BY <1>1 DEF Circuit, Moments
    <3>2. QED BY <1>1, <2>1, <2>2, <3>1 DEF Submitting, Measured
  <2>5. Measured(e)
    BY <2>2, <2>3, <2>4 DEF Measured
  <2>6. QED BY <1>2, <2>1, <2>5
<1>11. ASSUME Circuits!Interrupted(0) PROVE CircuitInv'
  <2>1. verdict' \in Mazes!CutShort /\ env' = env /\ score' = 0
    BY <1>11 DEF Circuits!Interrupted, Circuits!CutShort, Mazes!CutShort
  <2>2. Measured(env)'
    BY <1>1, <2>1 DEF Measured, Timed, InTimeAt, Submitting
  <2>3. QED BY <2>1, <2>2 DEF CircuitInv, Unscored, Mazes!Verdicts, Mazes!CutShort, Circuits!CascadeCaught
<1>12. QED
  BY <1>3, <1>4, <1>5, <1>6, <1>7, <1>8, <1>9, <1>10, <1>11 DEF Circuits!CircuitNext

-----------------------------------------------------------------------------
(* --- The maze: the search finds all there is, and the shortest way. --- *)

(* maze *)
LEMMA MazesCount ==
  /\ \A S : Mazes!Cardinality(S) = Cardinality(S)
  /\ \A S : S \subseteq Mazes!Cells => IsFiniteSet(S) /\ Cardinality(S) \in Nat
<1>1. \A S : Mazes!Cardinality(S) = Cardinality(S)
  BY DEF Mazes!Cardinality, Cardinality
<1>2. IsFiniteSet(1..Rows) /\ IsFiniteSet(1..Columns)
  <2>1. Rows \in Nat /\ Columns \in Nat
    BY ProblemsAssumption DEF Mazes!MazeAssumption
  <2>2. QED BY <2>1, FS_Interval
<1>3. IsFiniteSet(Mazes!Cells)
  BY <1>2, FS_Product DEF Mazes!Cells
<1>4. \A S : S \subseteq Mazes!Cells => IsFiniteSet(S) /\ Cardinality(S) \in Nat
  BY <1>3, FS_Subset, FS_CardinalityType
<1>5. QED BY <1>1, <1>4

LEMMA MazeSymmetric ==
  ASSUME NEW a \in Int \X Int, NEW b \in Int \X Int, Mazes!Adjacent(a, b) PROVE Mazes!Adjacent(b, a)
<1>1. /\ a = <<a[1], a[2]>> /\ b = <<b[1], b[2]>> /\ a[1] \in Int /\ a[2] \in Int
  OBVIOUS
<1>2. PICK d \in Mazes!Deltas : b = <<a[1] + d[1], a[2] + d[2]>>
  BY DEF Mazes!Adjacent, Mazes!Moved
<1>3. d \in {<<-1, 0>>, <<1, 0>>, <<0, -1>>, <<0, 1>>}
  BY DEF Mazes!Deltas
<1>4. b[1] = a[1] + d[1] /\ b[2] = a[2] + d[2]
  BY <1>2
<1>5. ASSUME NEW e \in Mazes!Deltas, a = <<b[1] + e[1], b[2] + e[2]>> PROVE Mazes!Adjacent(b, a)
  BY <1>5 DEF Mazes!Adjacent, Mazes!Moved
<1>6. CASE d = <<-1, 0>>
  <2>1. a[1] = b[1] + (1) /\ a[2] = b[2] + (0)
    BY <1>1, <1>4, <1>6
  <2>2. <<1, 0>> \in Mazes!Deltas
    BY DEF Mazes!Deltas
  <2>3. <<1, 0>>[1] = 1 /\ <<1, 0>>[2] = 0
    OBVIOUS
  <2>4. a = <<b[1] + <<1, 0>>[1], b[2] + <<1, 0>>[2]>>
    BY <1>1, <2>1, <2>3
  <2>5. QED BY <1>5, <2>2, <2>4
<1>7. CASE d = <<1, 0>>
  <2>1. a[1] = b[1] + (-1) /\ a[2] = b[2] + (0)
    BY <1>1, <1>4, <1>7
  <2>2. <<-1, 0>> \in Mazes!Deltas
    BY DEF Mazes!Deltas
  <2>3. <<-1, 0>>[1] = -1 /\ <<-1, 0>>[2] = 0
    OBVIOUS
  <2>4. a = <<b[1] + <<-1, 0>>[1], b[2] + <<-1, 0>>[2]>>
    BY <1>1, <2>1, <2>3
  <2>5. QED BY <1>5, <2>2, <2>4
<1>8. CASE d = <<0, -1>>
  <2>1. a[1] = b[1] + (0) /\ a[2] = b[2] + (1)
    BY <1>1, <1>4, <1>8
  <2>2. <<0, 1>> \in Mazes!Deltas
    BY DEF Mazes!Deltas
  <2>3. <<0, 1>>[1] = 0 /\ <<0, 1>>[2] = 1
    OBVIOUS
  <2>4. a = <<b[1] + <<0, 1>>[1], b[2] + <<0, 1>>[2]>>
    BY <1>1, <2>1, <2>3
  <2>5. QED BY <1>5, <2>2, <2>4
<1>9. CASE d = <<0, 1>>
  <2>1. a[1] = b[1] + (0) /\ a[2] = b[2] + (-1)
    BY <1>1, <1>4, <1>9
  <2>2. <<0, -1>> \in Mazes!Deltas
    BY DEF Mazes!Deltas
  <2>3. <<0, -1>>[1] = 0 /\ <<0, -1>>[2] = -1
    OBVIOUS
  <2>4. a = <<b[1] + <<0, -1>>[1], b[2] + <<0, -1>>[2]>>
    BY <1>1, <2>1, <2>3
  <2>5. QED BY <1>5, <2>2, <2>4
<1>10. QED BY <1>3, <1>6, <1>7, <1>8, <1>9

Spread(open, inner) == inner \cup {c \in open : Mazes!Neighbours(inner, c) # {}}

(* The breadth-first search, step by step. *)
LEMMA WithinSpreads ==
  ASSUME NEW open, open \subseteq Mazes!Cells, NEW s
  PROVE  /\ Cardinality(open) \in Nat
         /\ Mazes!Within(open, s) \in [0..Cardinality(open) -> SUBSET (open \cup {s})]
         /\ Mazes!Within(open, s)[0] = {s}
         /\ \A n \in 0..(Cardinality(open) - 1) :
              Mazes!Within(open, s)[n + 1] = Spread(open, Mazes!Within(open, s)[n])
<1> DEFINE k == Cardinality(open)
<1> DEFINE A == SUBSET (open \cup {s})
<1> DEFINE a == {s}
<1> DEFINE G == [n \in 1..k |-> [inner \in A |-> Spread(open, inner)]]
<1> DEFINE ball == Mazes!Within(open, s)
<1>1. k \in Nat /\ Mazes!Cardinality(open) = k
  BY MazesCount
<1>2. a \in A /\ G \in [1..k -> [A -> A]]
  BY DEF Spread
<1>3. PICK f \in [0..k -> A] : Unfolds(f, k, a, G)
  <2> HIDE DEF k, A, a, G
  <2> QED BY <1>1, <1>2, Iterated
<1>4. ASSUME NEW n \in 0..k PROVE f[n] = (IF n = 0 THEN a ELSE Spread(open, f[n - 1]))
  <2>1. f[n] = (IF n = 0 THEN a ELSE G[n][f[n - 1]])
    BY <1>3 DEF Unfolds
  <2>2. n # 0 => n \in 1..k /\ f[n - 1] \in A
    BY <1>1
  <2> HIDE DEF a, A, k
  <2>3. QED BY <2>1, <2>2
<1>5. f = [n \in 0..k |-> IF n = 0 THEN a ELSE Spread(open, f[n - 1])]
  <2> HIDE DEF a, A, k
  <2> QED BY <1>4
<1>6. ball = CHOOSE b : b = [n \in 0..k |-> IF n = 0 THEN a ELSE Spread(open, b[n - 1])]
  BY <1>1 DEF Mazes!Within, Spread
<1>7. ball = [n \in 0..k |-> IF n = 0 THEN a ELSE Spread(open, ball[n - 1])]
  <2> HIDE DEF a, A, k, ball
  <2> QED BY <1>5, <1>6
<1> HIDE DEF ball
<1>8. ball[0] = {s} /\ \A n \in 0..(k - 1) : ball[n + 1] = Spread(open, ball[n])
  <2>1. ball[0] = {s}
    BY <1>1, <1>7
  <2>2. ASSUME NEW n \in 0..(k - 1) PROVE ball[n + 1] = Spread(open, ball[n])
    <3>1. n + 1 \in 0..k /\ n + 1 # 0 /\ (n + 1) - 1 = n
      BY <1>1
    <3> HIDE DEF a, k
    <3>2. QED BY <1>7, <3>1
  <2>3. QED BY <2>1, <2>2
<1>9. \A n \in 0..k : ball[n] \in A
  <2> DEFINE T == {n \in Nat : n \in 0..k => ball[n] \in A}
  <2>1. 0 \in T
    BY <1>8
  <2>2. ASSUME NEW n \in 0..(k - 1), n \in T PROVE n + 1 \in T
    <3>1. ball[n] \in A /\ n + 1 \in Nat
      BY <1>1, <2>2
    <3>2. ball[n + 1] = Spread(open, ball[n])
      BY <1>8
    <3>3. QED BY <3>1, <3>2 DEF Spread
  <2>3. 0..k \subseteq T
    <3> HIDE DEF k, T
    <3> QED BY <1>1, <2>1, <2>2, UpTo
  <2>4. QED BY <2>3
<1>10. ball \in [0..k -> A]
  <2> HIDE DEF a, A, k
  <2> QED BY <1>7, <1>9
<1>11. QED BY <1>1, <1>8, <1>10 DEF ball

Closed(open, R) == \A a \in R, b \in open : Mazes!Adjacent(a, b) => b \in R

LEMMA SpreadGrows ==
  ASSUME NEW open, NEW R
  PROVE  /\ R \subseteq Spread(open, R)
         /\ \A b \in open : b \in Spread(open, R) <=> b \in R \/ \E a \in R : Mazes!Adjacent(b, a)
         /\ Spread(open, R) \subseteq R \cup open
  BY DEF Spread, Mazes!Neighbours

(* What is reached lies in every closed set that holds the start. *)
LEMMA ReachedInClosed ==
  ASSUME NEW open, open \subseteq Mazes!Cells, NEW s \in Mazes!Cells, NEW R, s \in R, R \subseteq Mazes!Cells,
         Closed(open, R)
  PROVE  Mazes!Reachable(open, s) \subseteq R
<1> DEFINE k == Cardinality(open)
<1> DEFINE ball == Mazes!Within(open, s)
<1> DEFINE T == {n \in Nat : n \in 0..k => ball[n] \subseteq R}
<1>1. /\ k \in Nat /\ ball[0] = {s}
      /\ \A n \in 0..(k - 1) : ball[n + 1] = Spread(open, ball[n])
  BY WithinSpreads
<1> HIDE DEF ball, k
<1>2. 0 \in T
  BY <1>1
<1>3. ASSUME NEW n \in 0..(k - 1), n \in T PROVE n + 1 \in T
  <2>1. ball[n] \subseteq R /\ ball[n + 1] = Spread(open, ball[n]) /\ n + 1 \in Nat
    BY <1>1, <1>3
  <2>2. ASSUME NEW b \in ball[n + 1] PROVE b \in R
    <3>1. b \in ball[n] \/ (b \in open /\ \E a \in ball[n] : Mazes!Adjacent(b, a))
      <4>1. b \in Spread(open, ball[n])
        BY <2>1, <2>2
      <4>2. b \in ball[n] \/ b \in open
        BY <4>1, SpreadGrows
      <4>3. QED BY <4>1, <4>2 DEF Spread, Mazes!Neighbours
    <3>2. CASE b \in open /\ \E a \in ball[n] : Mazes!Adjacent(b, a)
      <4>1. PICK a \in ball[n] : Mazes!Adjacent(b, a)
        BY <3>2
      <4>2. a \in Int \X Int /\ b \in Int \X Int /\ a \in R
        BY <2>1, <3>2 DEF Mazes!Cells
      <4>3. Mazes!Adjacent(a, b)
        BY <4>1, <4>2, MazeSymmetric
      <4>4. QED BY <3>2, <4>2, <4>3 DEF Closed
    <3>3. QED BY <2>1, <3>1, <3>2
  <2>3. QED BY <2>1, <2>2
<1>4. 0..k \subseteq T
  <2> HIDE DEF T
  <2> QED BY <1>1, <1>2, <1>3, UpTo
<1>5. k \in T /\ k \in 0..k
  BY <1>1, <1>4
<1>6. ball[k] \subseteq R
  BY <1>5
<1>7. Mazes!Reachable(open, s) = ball[k]
  BY MazesCount DEF Mazes!Reachable, ball, k
<1>8. QED BY <1>6, <1>7

(* As many rounds as there are cells reach all there is to reach: each but *)
(* the last ones brings a cell more.                                       *)
LEMMA ReachedClosed ==
  ASSUME NEW open, open \subseteq Mazes!Cells, NEW s \in open
  PROVE  /\ Closed(open, Mazes!Reachable(open, s))
         /\ s \in Mazes!Reachable(open, s) /\ Mazes!Reachable(open, s) \subseteq open
<1> DEFINE k == Cardinality(open)
<1> DEFINE ball == Mazes!Within(open, s)
<1> DEFINE Grown(n) == Closed(open, ball[n]) \/ Cardinality(ball[n]) >= n + 1
<1> DEFINE T == {n \in Nat : n \in 0..k => s \in ball[n] /\ Grown(n)}
<1>1. /\ k \in Nat /\ ball \in [0..k -> SUBSET open] /\ ball[0] = {s}
      /\ \A n \in 0..(k - 1) : ball[n + 1] = Spread(open, ball[n])
  <2>1. open \cup {s} = open
    OBVIOUS
  <2>2. QED BY <2>1, WithinSpreads
<1>2. \A n \in 0..k : ball[n] \subseteq open /\ IsFiniteSet(ball[n]) /\ Cardinality(ball[n]) \in Nat
  <2> HIDE DEF ball, k
  <2>1. ASSUME NEW n \in 0..k PROVE ball[n] \subseteq open /\ ball[n] \subseteq Mazes!Cells
    BY <1>1
  <2>2. QED BY <2>1, MazesCount
<1> HIDE DEF ball, k
<1>3. 0 \in T
  <2>1. Cardinality(ball[0]) = 1
    BY <1>1, FS_Singleton
  <2>2. Grown(0)
    BY <2>1
  <2>3. s \in ball[0]
    BY <1>1
  <2>4. QED BY <2>2, <2>3
<1>4. ASSUME NEW n \in 0..(k - 1), n \in T PROVE n + 1 \in T
  <2>1. /\ s \in ball[n] /\ Grown(n) /\ n \in 0..k /\ n + 1 \in 0..k /\ n + 1 \in Nat
        /\ ball[n + 1] = Spread(open, ball[n])
    BY <1>1, <1>4
  <2>2. ball[n] \subseteq ball[n + 1]
    BY <2>1, SpreadGrows
  <2>3. CASE Closed(open, ball[n])
    <3>1. ASSUME NEW b \in ball[n + 1] PROVE b \in ball[n]
      <4>1. b \in open
        BY <1>2, <2>1, <3>1
      <4>2. b \in ball[n] \/ \E a \in ball[n] : Mazes!Adjacent(b, a)
        BY <2>1, <3>1, <4>1, SpreadGrows
      <4>3. CASE \E a \in ball[n] : Mazes!Adjacent(b, a)
        <5>1. PICK a \in ball[n] : Mazes!Adjacent(b, a)
          BY <4>3
        <5>2. a \in Int \X Int /\ b \in Int \X Int
          BY <1>2, <2>1, <4>1 DEF Mazes!Cells
        <5>3. QED BY <2>3, <4>1, <5>1, <5>2, MazeSymmetric DEF Closed
      <4>4. QED BY <4>2, <4>3
    <3>2. ball[n + 1] = ball[n]
      BY <2>2, <3>1
    <3>3. QED BY <2>1, <2>3, <3>2
  <2>4. CASE ~Closed(open, ball[n])
    <3>1. PICK a \in ball[n], b \in open : Mazes!Adjacent(a, b) /\ b \notin ball[n]
      BY <2>4 DEF Closed
    <3>2. a \in Int \X Int /\ b \in Int \X Int
      BY <1>2, <2>1, <3>1 DEF Mazes!Cells
    <3>3. b \in ball[n + 1]
      BY <2>1, <3>1, <3>2, MazeSymmetric, SpreadGrows
    <3>4. Cardinality(ball[n]) >= n + 1 /\ Cardinality(ball[n]) \in Nat
      BY <1>2, <2>1, <2>4
    <3>5. IsFiniteSet(ball[n + 1]) /\ Cardinality(ball[n + 1]) \in Nat
      BY <1>2, <2>1
    <3>6. Cardinality(ball[n]) <= Cardinality(ball[n + 1]) /\ Cardinality(ball[n]) # Cardinality(ball[n + 1])
      BY <2>2, <3>1, <3>3, <3>5, FS_Subset
    <3>7. Cardinality(ball[n + 1]) >= (n + 1) + 1
      BY <3>4, <3>5, <3>6
    <3>8. QED BY <2>1, <2>2, <3>7
  <2>5. QED BY <2>3, <2>4
<1>5. 0..k \subseteq T
  <2> HIDE DEF T
  <2> QED BY <1>1, <1>3, <1>4, UpTo
<1>6. k \in T /\ k \in 0..k
  BY <1>1, <1>5
<1>7. s \in ball[k] /\ Grown(k) /\ ball[k] \subseteq open
  BY <1>2, <1>6
<1>8. ~(Cardinality(ball[k]) >= k + 1)
  <2>1. IsFiniteSet(open)
    BY MazesCount
  <2>2. Cardinality(ball[k]) <= Cardinality(open)
    BY <1>7, <2>1, FS_Subset
  <2>3. QED BY <1>1, <1>2, <1>6, <2>2 DEF k
<1>9. Mazes!Reachable(open, s) = ball[k]
  BY MazesCount DEF Mazes!Reachable, ball, k
<1>10. QED BY <1>7, <1>8, <1>9

LEMMA ConnectedEverywhere ==
  ASSUME NEW open, open \subseteq Mazes!Cells, Mazes!IsConnected(open), NEW s \in open
  PROVE  Mazes!Reachable(open, s) = open
<1>1. PICK r \in open : Mazes!Reachable(open, r) = open
  BY DEF Mazes!IsConnected
<1> DEFINE R == Mazes!Reachable(open, s)
<1>2. Closed(open, R) /\ s \in R /\ R \subseteq open
  BY ReachedClosed
<1>3. Closed(open, open \ R)
  <2>1. ASSUME NEW a \in open \ R, NEW b \in open, Mazes!Adjacent(a, b) PROVE b \in open \ R
    <3>1. a \in Int \X Int /\ b \in Int \X Int
      BY <2>1 DEF Mazes!Cells
    <3>2. Mazes!Adjacent(b, a)
      BY <2>1, <3>1, MazeSymmetric
    <3>3. QED
      <4> HIDE DEF R
      <4> QED BY <1>2, <2>1, <3>2 DEF Closed
  <2>2. QED
    <3> HIDE DEF R
    <3> QED BY <2>1 DEF Closed
<1> HIDE DEF R
<1>4. r \in R
  <2>1. CASE r \in open \ R
    <3>1. open \subseteq open \ R
      BY <1>1, <1>3, <2>1, ReachedInClosed
    <3>2. QED BY <1>2, <3>1
  <2>2. QED BY <2>1
<1>5. open \subseteq R
  BY <1>1, <1>2, <1>4, ReachedInClosed
<1>6. QED BY <1>2, <1>5 DEF R

LEMMA CarvedConnected ==
  ASSUME NEW open, open \subseteq Mazes!Cells, Mazes!IsConnected(open), NEW c \in Mazes!Cells,
         NEW a \in open, Mazes!Adjacent(c, a)
  PROVE  Mazes!IsConnected(open \cup {c})
<1> DEFINE R == Mazes!Reachable(open \cup {c}, a)
<1>1. Closed(open \cup {c}, R) /\ a \in R /\ R \subseteq open \cup {c}
  BY ReachedClosed
<1> HIDE DEF R
<1>2. Closed(open, R \cap open)
  BY <1>1 DEF Closed
<1>3. open \subseteq R
  <2>1. Mazes!Reachable(open, a) = open
    BY ConnectedEverywhere
  <2>2. Mazes!Reachable(open, a) \subseteq R \cap open
    BY <1>1, <1>2, ReachedInClosed
  <2>3. QED BY <2>1, <2>2
<1>4. c \in R
  <2>1. c \in Int \X Int /\ a \in Int \X Int
    BY DEF Mazes!Cells
  <2>2. Mazes!Adjacent(a, c)
    BY <2>1, MazeSymmetric
  <2>3. QED BY <1>1, <2>2 DEF Closed
<1>5. R = open \cup {c}
  BY <1>1, <1>3, <1>4
<1>6. QED BY <1>5 DEF Mazes!IsConnected, R

(* A maze as it is made: any open cell is reached from any other. *)
Ground(open) == open \subseteq Mazes!Cells /\ Mazes!IsConnected(open)
Making ==
  [stage : {"carve", "thin"}, open : SUBSET Mazes!Cells, walls : SUBSET Mazes!Cells, at : Nat]
Walk ==
  [stage : {"play"}, open : SUBSET Mazes!Cells, end : Mazes!Cells, position : Mazes!Cells, moves : Nat,
   success : BOOLEAN, optimal : Nat]

(* Where the user is takes no more than its moves from where it started.   *)
WalkedFrom(e, s) ==
  /\ e.optimal = Mazes!ShortestPath(e.open, s, e.end)
  /\ \A n \in 0..Cardinality(e.open) : n >= e.moves => e.position \in Mazes!Within(e.open, s)[n]
Walked(e) ==
  /\ e \in Walk
  /\ e.position \in e.open /\ e.end \in e.open
  /\ \E s \in e.open : WalkedFrom(e, s)
  /\ e.success => e.position = e.end
MazeInv ==
  /\ Ground(env.open)
  /\ env \in Making \/ Walked(env)

LEMMA ShortestIsLeast ==
  ASSUME NEW open, open \subseteq Mazes!Cells, NEW s \in open, NEW t \in Mazes!Reachable(open, s)
  PROVE  /\ Mazes!ShortestPath(open, s, t) \in 0..Cardinality(open)
         /\ \A m \in 0..Cardinality(open) :
              t \in Mazes!Within(open, s)[m] => m >= Mazes!ShortestPath(open, s, t)
<1> DEFINE k == Cardinality(open)
<1> DEFINE ball == Mazes!Within(open, s)
<1> DEFINE There == {n \in 0..k : t \in ball[n]}
<1>1. k \in Nat /\ Mazes!Cardinality(open) = k /\ k \in There
  BY MazesCount DEF Mazes!Reachable
<1>2. Mazes!ShortestPath(open, s, t) =
        CHOOSE n \in 0..k : t \in ball[n] /\ \A m \in 0..(n - 1) : t \notin ball[m]
  BY <1>1 DEF Mazes!ShortestPath
<1> HIDE DEF k, ball
<1>3. PICK n \in There : \A m \in There : n <= m
  <2>1. There \subseteq Nat /\ There # {}
    BY <1>1
  <2> HIDE DEF There
  <2>2. QED BY <2>1, Least
<1>4. n \in 0..k /\ t \in ball[n] /\ \A m \in 0..(n - 1) : t \notin ball[m]
  BY <1>1, <1>3
<1> DEFINE p == Mazes!ShortestPath(open, s, t)
<1>5. p \in 0..k /\ t \in ball[p] /\ \A m \in 0..(p - 1) : t \notin ball[m]
  <2>1. p = CHOOSE i \in 0..k : t \in ball[i] /\ \A m \in 0..(i - 1) : t \notin ball[m]
    BY <1>2
  <2> HIDE DEF p
  <2>2. QED BY <1>4, <2>1
<1> HIDE DEF p
<1>6. \A m \in 0..k : t \in ball[m] => m >= p
  BY <1>1, <1>5
<1>7. QED BY <1>5, <1>6 DEF k, ball, p

LEMMA WalkedRight == ASSUME MazeInv PROVE Mazes!MazeSolvable
<1>1. SUFFICES ASSUME env.stage = "play"
               PROVE  /\ env.end \in Mazes!Reachable(env.open, env.position)
                      /\ env.success => env.moves >= env.optimal
  BY DEF Mazes!MazeSolvable
<1>2. Walked(env) /\ Ground(env.open)
  BY <1>1 DEF MazeInv, Making
<1>3. Mazes!Reachable(env.open, env.position) = env.open
  BY <1>2, ConnectedEverywhere DEF Ground, Walked
<1>4. ASSUME env.success PROVE env.moves >= env.optimal
  <2>1. PICK s \in env.open : WalkedFrom(env, s)
    BY <1>2 DEF Walked
  <2>2. /\ env.position = env.end /\ env.moves \in Nat /\ env.open \subseteq Mazes!Cells
        /\ Cardinality(env.open) \in Nat
    BY <1>2, <1>4, MazesCount DEF Walked, Walk, Ground
  <2>3. Mazes!Reachable(env.open, s) = env.open
    BY <1>2, ConnectedEverywhere DEF Ground
  <2>4. /\ env.optimal \in 0..Cardinality(env.open)
        /\ \A m \in 0..Cardinality(env.open) : env.end \in Mazes!Within(env.open, s)[m] => m >= env.optimal
    BY <1>2, <2>1, <2>2, <2>3, ShortestIsLeast DEF WalkedFrom, Walked
  <2>5. CASE env.moves <= Cardinality(env.open)
    <3>1. env.moves \in 0..Cardinality(env.open) /\ env.moves >= env.moves
      BY <2>2, <2>5
    <3>2. env.end \in Mazes!Within(env.open, s)[env.moves]
      BY <2>1, <2>2, <3>1 DEF WalkedFrom
    <3>3. QED BY <2>4, <3>1, <3>2
  <2>6. CASE env.moves > Cardinality(env.open)
    BY <2>2, <2>4, <2>6
  <2>7. QED BY <2>2, <2>5, <2>6
<1>5. QED BY <1>2, <1>3, <1>4 DEF Walked

LEMMA MazeMade == ASSUME Mazes!MazeInit PROVE MazeInv
<1>1. PICK c \in Mazes!Cells :
        env = [stage |-> "carve", open |-> {c}, walls |-> Mazes!Neighbours(Mazes!Cells, c), at |-> 0]
  BY DEF Mazes!MazeInit
<1>2. Mazes!Reachable({c}, c) = {c}
  BY ReachedClosed
<1>3. Ground({c})
  BY <1>2 DEF Ground, Mazes!IsConnected
<1>4. env \in Making
  BY <1>1 DEF Making, Mazes!Neighbours
<1>5. QED BY <1>1, <1>3, <1>4 DEF MazeInv

LEMMA MazeStep == ASSUME MazeInv, Mazes!MazeNext PROVE MazeInv'
<1>0. Ground(env.open)
  BY DEF MazeInv
<1>1. ASSUME NEW e, e \in Making, Ground(e.open), env' = e PROVE MazeInv'
  BY <1>1 DEF MazeInv
<1>2. ASSUME NEW e, Walked(e), Ground(e.open), env' = e PROVE MazeInv'
  BY <1>2 DEF MazeInv, Walked
<1>3. ASSUME env' = env PROVE MazeInv'
  BY <1>1, <1>2, <1>3 DEF MazeInv
<1>4. env.stage # "play" => env \in Making
  BY DEF MazeInv, Walked, Walk
<1>5. ASSUME NEW c \in Mazes!Cells, Mazes!Carve(c) PROVE MazeInv'
  <2> DEFINE carved == c \notin env.open /\ Mazes!Cardinality(Mazes!Neighbours(env.open, c)) = 1
  <2> DEFINE open == IF carved THEN env.open \cup {c} ELSE env.open
  <2> DEFINE walls == IF carved THEN (env.walls \ {c}) \cup Mazes!Neighbours(Mazes!Cells, c) ELSE env.walls \ {c}
  <2> DEFINE e == [env EXCEPT !.open = open, !.walls = walls]
  <2>1. env \in Making /\ env' = e
    BY <1>4, <1>5 DEF Mazes!Carve
  <2>2. open \subseteq Mazes!Cells /\ walls \subseteq Mazes!Cells
    BY <2>1 DEF Making, Mazes!Neighbours
  <2>3. Ground(open)
    <3>1. CASE carved
      <4>1. Mazes!Neighbours(env.open, c) # {}
        <5>1. Mazes!Cardinality({}) = 0
          BY FS_EmptySet DEF Mazes!Cardinality, Cardinality
        <5>2. QED BY <3>1, <5>1
      <4>2. PICK a \in env.open : Mazes!Adjacent(c, a)
        BY <4>1 DEF Mazes!Neighbours
      <4>3. Mazes!IsConnected(env.open \cup {c})
        BY <1>0, <4>2, CarvedConnected DEF Ground
      <4>4. QED BY <2>2, <3>1, <4>3 DEF Ground
    <3>2. CASE ~carved
      BY <1>0, <3>2
    <3>3. QED BY <3>1, <3>2
  <2> HIDE DEF open, walls
  <2>4. e \in Making /\ e.open = open
    BY <2>1, <2>2 DEF Making
  <2> HIDE DEF e
  <2>5. QED BY <1>1, <2>1, <2>3, <2>4
<1>6. ASSUME Mazes!Thin PROVE MazeInv'
  <2>1. env \in Making
    BY <1>4, <1>6 DEF Mazes!Thin
  <2>2. PICK thinner \in SUBSET env.open :
          /\ thinner = env.open \/ Mazes!IsConnected(thinner)
          /\ env' = [env EXCEPT !.stage = "thin", !.open = thinner, !.at = @ + 1]
    BY <1>6 DEF Mazes!Thin
  <2> DEFINE at == env.at + 1
  <2> DEFINE e == [env EXCEPT !.stage = "thin", !.open = thinner, !.at = at]
  <2>3. Ground(thinner) /\ thinner \subseteq Mazes!Cells
    BY <1>0, <2>2 DEF Ground
  <2>4. at \in Nat /\ env' = e
    BY <2>1, <2>2 DEF Making
  <2> HIDE DEF at
  <2>5. e \in Making /\ e.open = thinner
    BY <2>1, <2>3, <2>4 DEF Making
  <2> HIDE DEF e
  <2>6. QED BY <1>1, <2>3, <2>4, <2>5
<1>7. ASSUME Mazes!TooSmall PROVE MazeInv'
  BY <1>3, <1>7 DEF Mazes!TooSmall, Mazes!Raised
<1>8. ASSUME NEW s \in env.open, NEW t \in env.open, Mazes!PickStartEnd(s, t) PROVE MazeInv'
  <2> DEFINE open == env.open
  <2> DEFINE e == Mazes!Started(open, s, t)
  <2>1. env' = e
    BY <1>8 DEF Mazes!PickStartEnd
  <2> HIDE DEF open
  <2>2. open \subseteq Mazes!Cells /\ s \in open /\ t \in open /\ Ground(open) /\ Cardinality(open) \in Nat
    BY <1>0, MazesCount DEF Ground, open
  <2>3. Mazes!Reachable(open, s) = open
    BY <2>2, ConnectedEverywhere DEF Ground
  <2> DEFINE optimal == Mazes!ShortestPath(open, s, t)
  <2>4. optimal \in Nat
    BY <2>2, <2>3, ShortestIsLeast
  <2>5. e = [stage |-> "play", open |-> open, end |-> t, position |-> s, moves |-> 0, success |-> FALSE,
             optimal |-> optimal]
    BY <2>2, <2>3 DEF Mazes!Started
  <2>6. \A n \in 0..Cardinality(open) : s \in Mazes!Within(open, s)[n]
    <3> DEFINE k == Cardinality(open)
    <3> DEFINE ball == Mazes!Within(open, s)
    <3> DEFINE T == {n \in Nat : n \in 0..k => s \in ball[n]}
    <3>1. k \in Nat /\ ball[0] = {s} /\ \A n \in 0..(k - 1) : ball[n + 1] = Spread(open, ball[n])
      BY <2>2, WithinSpreads
    <3> HIDE DEF k, ball
    <3>2. 0 \in T
      BY <3>1
    <3>3. ASSUME NEW n \in 0..(k - 1), n \in T PROVE n + 1 \in T
      <4>1. s \in ball[n] /\ ball[n + 1] = Spread(open, ball[n]) /\ n + 1 \in Nat
        BY <3>1, <3>3
      <4>2. QED BY <4>1, SpreadGrows
    <3>4. 0..k \subseteq T
      <4> HIDE DEF T
      <4> QED BY <3>1, <3>2, <3>3, UpTo
    <3>5. \A n \in 0..k : s \in ball[n]
      BY <3>4
    <3>6. QED BY <3>5 DEF k, ball
  <2> HIDE DEF e, optimal
  <2>7. e \in Walk /\ e.open = open /\ e.position = s /\ e.end = t /\ ~e.success /\ e.optimal = optimal
    BY <2>2, <2>4, <2>5 DEF Walk
  <2>8. WalkedFrom(e, s)
    BY <2>6, <2>7 DEF WalkedFrom, optimal
  <2>9. Walked(e)
    BY <2>2, <2>7, <2>8 DEF Walked
  <2>10. QED BY <1>2, <2>1, <2>2, <2>7, <2>9
<1>9. ASSUME Mazes!InvalidDirection \/ Mazes!Abandoned PROVE MazeInv'
  BY <1>3, <1>9 DEF Mazes!InvalidDirection, Mazes!Abandoned, Mazes!After, Mazes!Applied, Mazes!Interrupted
<1>10. ASSUME NEW p \in env.open, NEW success \in BOOLEAN, Walked(env),
              p = env.position \/ Mazes!Adjacent(env.position, p), success => p = env.end,
              env' = [env EXCEPT !.position = p, !.moves = env.moves + 1, !.success = success]
       PROVE  MazeInv'
  <2> DEFINE moves == env.moves + 1
  <2> DEFINE e == [env EXCEPT !.position = p, !.moves = moves, !.success = success]
  <2>1. env \in Walk /\ moves \in Nat /\ env.moves \in Nat /\ p \in Mazes!Cells
        /\ env.open \subseteq Mazes!Cells
    BY <1>10 DEF Walked, Walk
  <2>2. env' = e
    BY <1>10
  <2> HIDE DEF moves
  <2>3. /\ e \in Walk /\ e.open = env.open /\ e.position = p /\ e.moves = moves /\ e.success = success
        /\ e.end = env.end /\ e.optimal = env.optimal
    <3>1. e \in Walk
      BY <2>1 DEF Walk
    <3>2. QED BY <2>1, <3>1 DEF Walk
  <2> HIDE DEF e
  <2>4. PICK s \in env.open : WalkedFrom(env, s)
    BY <1>10 DEF Walked
  <2> DEFINE k == Cardinality(env.open)
  <2> DEFINE ball == Mazes!Within(env.open, s)
  <2>5. k \in Nat /\ \A n \in 0..(k - 1) : ball[n + 1] = Spread(env.open, ball[n])
    BY <2>1, WithinSpreads
  <2>6. \A n \in 0..k : n >= env.moves => env.position \in ball[n]
    BY <2>4 DEF WalkedFrom
  <2> HIDE DEF k, ball
  <2>7. ASSUME NEW n \in 0..k, n >= moves PROVE p \in ball[n]
    <3> DEFINE m == n - 1
    <3>1. m \in 0..k /\ m >= env.moves /\ m \in 0..(k - 1) /\ m + 1 = n
      BY <2>1, <2>5, <2>7 DEF moves
    <3> HIDE DEF m
    <3>2. env.position \in ball[m] /\ ball[n] = Spread(env.open, ball[m])
      BY <2>5, <2>6, <3>1
    <3>3. env.position \in env.open /\ env.position \in Int \X Int /\ p \in Int \X Int
      BY <1>10, <2>1 DEF Walked, Mazes!Cells
    <3>4. p = env.position \/ Mazes!Adjacent(p, env.position)
      BY <1>10, <3>3, MazeSymmetric
    <3>5. QED BY <3>2, <3>4, SpreadGrows
  <2>8. WalkedFrom(e, s)
    BY <2>3, <2>4, <2>7 DEF WalkedFrom, k, ball
  <2>9. Walked(e)
    BY <1>10, <2>3, <2>8 DEF Walked
  <2>10. QED BY <1>0, <1>2, <2>2, <2>3, <2>9
<1>11. ASSUME NEW d, Mazes!HitWall(d) PROVE MazeInv'
  <2>1. Walked(env) /\ env' = [env EXCEPT !.moves = @ + 1]
    BY <1>11 DEF Mazes!HitWall, Mazes!Playing, Mazes!After, Mazes!Applied, MazeInv, Making
  <2>2. env \in Walk /\ env.position \in env.open /\ env.success \in BOOLEAN
        /\ (env.success => env.position = env.end)
    BY <2>1 DEF Walked, Walk
  <2>3. env' = [env EXCEPT !.position = env.position, !.moves = env.moves + 1, !.success = env.success]
    BY <2>1, <2>2 DEF Walk
  <2>4. QED BY <1>10, <2>1, <2>2, <2>3
<1>12. ASSUME NEW d \in Mazes!Deltas, Mazes!Move(d) PROVE MazeInv'
  <2> DEFINE p == Mazes!Moved(env.position, d)
  <2> DEFINE success == p = env.end
  <2>1. Walked(env) /\ env' = [env EXCEPT !.position = p, !.moves = env.moves + 1, !.success = success]
    BY <1>12 DEF Mazes!Move, Mazes!Playing, Mazes!After, Mazes!Applied, MazeInv, Making
  <2>2. p \in env.open /\ Mazes!Adjacent(env.position, p)
    BY <1>12 DEF Mazes!Move, Mazes!Adjacent
  <2>3. success \in BOOLEAN /\ (success => p = env.end)
    OBVIOUS
  <2> HIDE DEF p, success
  <2>4. QED BY <1>10, <2>1, <2>2, <2>3
<1>13. QED
  BY <1>5, <1>6, <1>7, <1>8, <1>9, <1>11, <1>12 DEF Mazes!MazeNext

-----------------------------------------------------------------------------
(* --- The keyed labyrinth: as many moves as the corners are apart. --- *)

Places == Int \X Int
States == Places \X SUBSET (1..Locks)
Made == [open : SUBSET Places, keys : [1..Locks -> Places], doors : [1..Locks -> Places]]
KeyIdx(p, i) == 2 + (2 * i - 1) * Labyrinths!Segment(p)
DoorIdx(p, i) == 2 + (2 * i) * Labyrinths!Segment(p)

Carved(p) ==
  /\ p \in Seq(Places) /\ Len(p) >= 1 /\ p[1] = <<1, 1>>
  /\ \A j \in 1..Len(p) : p[j] \in Labyrinths!Interior /\ p[j][1] + p[j][2] = j + 1
  /\ \A j \in 1..(Len(p) - 1) : \E d \in Labyrinths!Deltas : p[j + 1] = Labyrinths!Moved(p[j], d)

LEMMA LabyrinthSize ==
  /\ Labyrinths!Apart = Width + Height - 2 /\ Labyrinths!Apart \in Nat /\ Labyrinths!Apart >= 8
  /\ Width \in Nat /\ Height \in Nat /\ Width >= 5 /\ Height >= 5
  /\ Locks \in 1..3 /\ LabyrinthMoves \in Nat /\ LabyrinthMoves >= Labyrinths!Apart
BY ProblemsAssumption DEF Labyrinths!LabyrinthAssumption, Labyrinths!Apart

LEMMA KeysBeforeDoors ==
  ASSUME NEW p, Len(p) = Labyrinths!Apart + 1, NEW i \in 1..Locks
  PROVE  /\ KeyIdx(p, i) \in 2..Len(p) /\ DoorIdx(p, i) \in 2..Len(p)
         /\ KeyIdx(p, i) < DoorIdx(p, i)
<1>1. Labyrinths!Apart \in Nat /\ Labyrinths!Apart >= 8 /\ Locks \in 1..3
  BY LabyrinthSize
<1> DEFINE S == Labyrinths!Segment(p)
<1> DEFINE q == (Labyrinths!Apart - 1) \div (2 * Locks + 1)
<1>2. S = Labyrinths!Larger(1, q)
  <2>1. Len(p) - 2 = Labyrinths!Apart - 1
    BY <1>1
  <2>2. QED BY <2>1 DEF Labyrinths!Segment
<1>3. q \in Nat /\ S = q /\ q >= 1 /\ 2 + (2 * Locks) * q <= Labyrinths!Apart
  <2>1. CASE Locks = 1
    <3>1. 2 * Locks + 1 = 3
      BY <2>1
    <3>2. q = (Labyrinths!Apart - 1) \div 3
      BY <3>1
    <3>3. q \in Nat /\ q >= 1 /\ 2 + 2 * q <= Labyrinths!Apart
      BY <1>1, <3>2
    <3>4. QED BY <1>2, <2>1, <3>3 DEF Labyrinths!Larger
  <2>2. CASE Locks = 2
    <3>1. 2 * Locks + 1 = 5
      BY <2>2
    <3>2. q = (Labyrinths!Apart - 1) \div 5
      BY <3>1
    <3>3. q \in Nat /\ q >= 1 /\ 2 + 4 * q <= Labyrinths!Apart
      BY <1>1, <3>2
    <3>4. QED BY <1>2, <2>2, <3>3 DEF Labyrinths!Larger
  <2>3. CASE Locks = 3
    <3>1. 2 * Locks + 1 = 7
      BY <2>3
    <3>2. q = (Labyrinths!Apart - 1) \div 7
      BY <3>1
    <3>3. q \in Nat /\ q >= 1 /\ 2 + 6 * q <= Labyrinths!Apart
      BY <1>1, <3>2
    <3>4. QED BY <1>2, <2>3, <3>3 DEF Labyrinths!Larger
  <2>4. QED BY <1>1, <2>1, <2>2, <2>3
<1>4. KeyIdx(p, i) = 2 + (2 * i - 1) * q /\ DoorIdx(p, i) = 2 + (2 * i) * q
  BY <1>3 DEF KeyIdx, DoorIdx
<1> HIDE DEF q, S
<1>5. CASE i = 1
  <2>1. KeyIdx(p, i) = 2 + q /\ DoorIdx(p, i) = 2 + 2 * q
    BY <1>3, <1>4, <1>5
  <2>2. 2 * q <= (2 * Locks) * q
    BY <1>1, <1>3
  <2>3. QED BY <1>1, <1>3, <2>1, <2>2
<1>6. CASE i = 2
  <2>1. KeyIdx(p, i) = 2 + 3 * q /\ DoorIdx(p, i) = 2 + 4 * q
    BY <1>3, <1>4, <1>6
  <2>2. Locks \in 2..3
    BY <1>1, <1>6
  <2>3. 4 * q <= (2 * Locks) * q
    BY <1>3, <2>2
  <2>4. QED BY <1>1, <1>3, <2>1, <2>3
<1>7. CASE i = 3
  <2>1. KeyIdx(p, i) = 2 + 5 * q /\ DoorIdx(p, i) = 2 + 6 * q
    BY <1>3, <1>4, <1>7
  <2>2. Locks = 3
    BY <1>1, <1>7
  <2>3. 6 * q = (2 * Locks) * q
    BY <1>3, <2>2
  <2>4. QED BY <1>1, <1>3, <2>1, <2>3
<1>8. i \in 1..3
  BY <1>1
<1>9. QED BY <1>5, <1>6, <1>7, <1>8

LEMMA StateReached ==
  ASSUME NEW c, NEW L, NEW s
  PROVE  s \in Labyrinths!NextStates(c, L) <=>
           \E t \in L, d \in Labyrinths!Deltas :
             /\ Labyrinths!Enterable(c, Labyrinths!Moved(t[1], d), t[2])
             /\ s = <<Labyrinths!Moved(t[1], d), Labyrinths!PickedUp(c, Labyrinths!Moved(t[1], d), t[2])>>
<1>1. ASSUME s \in Labyrinths!NextStates(c, L)
      PROVE  \E t \in L, d \in Labyrinths!Deltas :
             /\ Labyrinths!Enterable(c, Labyrinths!Moved(t[1], d), t[2])
             /\ s = <<Labyrinths!Moved(t[1], d), Labyrinths!PickedUp(c, Labyrinths!Moved(t[1], d), t[2])>>
  <2>1. PICK u \in L \X Labyrinths!Deltas :
             /\ Labyrinths!Enterable(c, Labyrinths!Moved(u[1][1], u[2]), u[1][2])
             /\ s = <<Labyrinths!Moved(u[1][1], u[2]), Labyrinths!PickedUp(c, Labyrinths!Moved(u[1][1], u[2]), u[1][2])>>
    BY <1>1 DEF Labyrinths!NextStates
  <2>2. u[1] \in L /\ u[2] \in Labyrinths!Deltas
    OBVIOUS
  <2>3. QED BY <2>1, <2>2
<1>2. ASSUME NEW t \in L, NEW d \in Labyrinths!Deltas,
             Labyrinths!Enterable(c, Labyrinths!Moved(t[1], d), t[2]),
             s = <<Labyrinths!Moved(t[1], d), Labyrinths!PickedUp(c, Labyrinths!Moved(t[1], d), t[2])>>
      PROVE  s \in Labyrinths!NextStates(c, L)
  <2> DEFINE u == <<t, d>>
  <2>1. u \in L \X Labyrinths!Deltas /\ u[1] = t /\ u[2] = d
    OBVIOUS
  <2> HIDE DEF u
  <2>2. u \in {v \in L \X Labyrinths!Deltas :
                 Labyrinths!Enterable(c, Labyrinths!Moved(v[1][1], v[2]), v[1][2])}
    BY <1>2, <2>1
  <2>3. s = <<Labyrinths!Moved(u[1][1], u[2]), Labyrinths!PickedUp(c, Labyrinths!Moved(u[1][1], u[2]), u[1][2])>>
    BY <1>2, <2>1
  <2>4. QED BY <2>2, <2>3 DEF Labyrinths!NextStates
<1>3. QED BY <1>1, <1>2

LEMMA StatesStay ==
  ASSUME NEW c, NEW L, L \subseteq States
  PROVE  Labyrinths!NextStates(c, L) \subseteq States
<1>1. ASSUME NEW s \in Labyrinths!NextStates(c, L) PROVE s \in States
  <2>1. PICK t \in L, d \in Labyrinths!Deltas :
             s = <<Labyrinths!Moved(t[1], d), Labyrinths!PickedUp(c, Labyrinths!Moved(t[1], d), t[2])>>
    BY <1>1, StateReached
  <2>2. t[1] \in Int \X Int /\ t[2] \in SUBSET (1..Locks)
    BY DEF States, Places
  <2>3. d[1] \in Int /\ d[2] \in Int
    BY DEF Labyrinths!Deltas
  <2>4. Labyrinths!Moved(t[1], d) \in Int \X Int
    BY <2>2, <2>3 DEF Labyrinths!Moved
  <2>5. Labyrinths!PickedUp(c, Labyrinths!Moved(t[1], d), t[2]) \in SUBSET (1..Locks)
    BY <2>2 DEF Labyrinths!PickedUp
  <2>6. QED BY <2>1, <2>4, <2>5 DEF States, Places
<1>2. QED BY <1>1

LEMMA Nearer ==
  ASSUME NEW t \in Places, NEW d \in Labyrinths!Deltas
  PROVE  /\ Labyrinths!Moved(t, d) \in Places
         /\ Labyrinths!Moved(t, d)[1] + Labyrinths!Moved(t, d)[2] <= t[1] + t[2] + 1
<1>1. d \in {<<-1, 0>>, <<1, 0>>, <<0, -1>>, <<0, 1>>}
  BY DEF Labyrinths!Deltas
<1>2. d[1] \in Int /\ d[2] \in Int /\ d[1] + d[2] <= 1
  BY <1>1
<1>3. t[1] \in Int /\ t[2] \in Int
  BY DEF Places
<1>4. /\ Labyrinths!Moved(t, d) \in Places
      /\ Labyrinths!Moved(t, d)[1] = t[1] + d[1] /\ Labyrinths!Moved(t, d)[2] = t[2] + d[2]
  BY <1>2, <1>3 DEF Labyrinths!Moved, Places
<1>5. QED
  <2> DEFINE m == Labyrinths!Moved(t, d)
  <2> HIDE DEF m
  <2>1. m[1] = t[1] + d[1] /\ m[2] = t[2] + d[2] /\ m \in Places
    BY <1>4 DEF m
  <2>2. m[1] + m[2] <= t[1] + t[2] + 1
    BY <1>2, <1>3, <2>1
  <2>3. QED BY <2>1, <2>2 DEF m

(* The rounds of the search, one function for all of them. *)
Rounds(c, r) ==
  /\ r \in [0..LabyrinthMoves -> SUBSET States]
  /\ r[0] = {<<<<1, 1>>, {}>>}
  /\ \A n \in 0..(LabyrinthMoves - 1) : r[n + 1] = Labyrinths!NextStates(c, r[n])

LEMMA SearchRounds ==
  ASSUME NEW c
  PROVE  \E r : /\ Rounds(c, r)
                /\ Labyrinths!OptimalMoves(c) =
                     LET solved == {n \in 0..LabyrinthMoves : \E s \in r[n] : s[1] = Labyrinths!Goal}
                     IN CHOOSE n \in solved : \A m \in solved : n <= m
<1> DEFINE k == LabyrinthMoves
<1> DEFINE A == SUBSET States
<1> DEFINE a == {<<<<1, 1>>, {}>>}
<1> DEFINE G == [n \in 1..k |-> [inner \in A |-> Labyrinths!NextStates(c, inner)]]
<1> DEFINE r == CHOOSE b : b = [n \in 0..k |-> IF n = 0 THEN a ELSE Labyrinths!NextStates(c, b[n - 1])]
<1>1. k \in Nat
  BY ProblemsAssumption DEF Labyrinths!LabyrinthAssumption
<1>2. a \in A /\ G \in [1..k -> [A -> A]]
  <2>1. a \in A
    BY DEF States, Places
  <2>2. \A inner \in A : Labyrinths!NextStates(c, inner) \in A
    BY StatesStay
  <2> HIDE DEF A
  <2>3. QED BY <2>1, <2>2
<1>3. PICK f \in [0..k -> A] : Unfolds(f, k, a, G)
  <2> HIDE DEF k, A, a, G
  <2> QED BY <1>1, <1>2, Iterated
<1>4. ASSUME NEW n \in 0..k PROVE f[n] = (IF n = 0 THEN a ELSE Labyrinths!NextStates(c, f[n - 1]))
  <2>1. f[n] = (IF n = 0 THEN a ELSE G[n][f[n - 1]])
    BY <1>3 DEF Unfolds
  <2>2. n # 0 => n \in 1..k /\ f[n - 1] \in A
    BY <1>1
  <2> HIDE DEF a, A, k
  <2>3. QED BY <2>1, <2>2
<1>5. f = [n \in 0..k |-> IF n = 0 THEN a ELSE Labyrinths!NextStates(c, f[n - 1])]
  <2> HIDE DEF a, A, k
  <2> QED BY <1>4
<1>6. r = [n \in 0..k |-> IF n = 0 THEN a ELSE Labyrinths!NextStates(c, r[n - 1])]
  <2> HIDE DEF a, A, k
  <2> QED BY <1>5
<1>7. Labyrinths!OptimalMoves(c) =
        LET solved == {n \in 0..LabyrinthMoves : \E s \in r[n] : s[1] = Labyrinths!Goal}
        IN CHOOSE n \in solved : \A m \in solved : n <= m
  BY DEF Labyrinths!OptimalMoves
<1> HIDE DEF r
<1>8. r[0] = a /\ \A n \in 0..(k - 1) : r[n + 1] = Labyrinths!NextStates(c, r[n])
  <2>1. r[0] = a
    BY <1>1, <1>6
  <2>2. ASSUME NEW n \in 0..(k - 1) PROVE r[n + 1] = Labyrinths!NextStates(c, r[n])
    <3>1. n + 1 \in 0..k /\ n + 1 # 0 /\ (n + 1) - 1 = n
      BY <1>1
    <3> HIDE DEF a, k
    <3>2. QED BY <1>6, <3>1
  <2>3. QED BY <2>1, <2>2
<1>9. \A n \in 0..k : r[n] \in A
  <2> DEFINE T == {n \in Nat : n \in 0..k => r[n] \in A}
  <2>1. 0 \in T
    BY <1>2, <1>8
  <2>2. ASSUME NEW n \in 0..(k - 1), n \in T PROVE n + 1 \in T
    <3>1. r[n] \in A /\ n + 1 \in Nat
      BY <1>1, <2>2
    <3>2. r[n + 1] = Labyrinths!NextStates(c, r[n])
      BY <1>8
    <3>3. QED BY <3>1, <3>2, StatesStay
  <2>3. 0..k \subseteq T
    <3> HIDE DEF k, T
    <3> QED BY <1>1, <2>1, <2>2, UpTo
  <2>4. QED BY <2>3
<1>10. r \in [0..k -> A]
  <2> HIDE DEF a, A, k
  <2> QED BY <1>6, <1>9
<1>11. Rounds(c, r)
  BY <1>8, <1>10 DEF Rounds
<1>12. QED BY <1>7, <1>11

LEMMA NotSooner ==
  ASSUME NEW c, NEW r, Rounds(c, r)
  PROVE  \A n \in 0..LabyrinthMoves : \A s \in r[n] : s[1][1] + s[1][2] <= n + 2
<1> DEFINE k == LabyrinthMoves
<1> DEFINE T == {n \in Nat : n \in 0..k => \A s \in r[n] : s[1][1] + s[1][2] <= n + 2}
<1>1. k \in Nat
  BY ProblemsAssumption DEF Labyrinths!LabyrinthAssumption
<1>2. 0 \in T
  <2>1. \A s \in r[0] : s[1] = <<1, 1>>
    BY DEF Rounds
  <2>2. QED BY <2>1
<1>3. ASSUME NEW n \in 0..(k - 1), n \in T PROVE n + 1 \in T
  <2>1. n \in 0..k /\ n \in Nat /\ n + 1 \in Nat
    BY <1>1
  <2>2. ASSUME NEW s \in r[n + 1] PROVE s[1][1] + s[1][2] <= (n + 1) + 2
    <3>1. r[n + 1] = Labyrinths!NextStates(c, r[n]) /\ r[n] \subseteq States
      BY <2>1 DEF Rounds
    <3>2. PICK t \in r[n], d \in Labyrinths!Deltas :
             s = <<Labyrinths!Moved(t[1], d), Labyrinths!PickedUp(c, Labyrinths!Moved(t[1], d), t[2])>>
      BY <3>1, StateReached
    <3>3. t[1] \in Places /\ t[1][1] + t[1][2] <= n + 2
      BY <1>3, <2>1, <3>1 DEF States
    <3>4. /\ Labyrinths!Moved(t[1], d) \in Places
          /\ Labyrinths!Moved(t[1], d)[1] + Labyrinths!Moved(t[1], d)[2] <= t[1][1] + t[1][2] + 1
      BY <3>3, Nearer
    <3>5. s[1] = Labyrinths!Moved(t[1], d)
      BY <3>2
    <3>6. s[1] \in Places /\ s[1][1] + s[1][2] <= t[1][1] + t[1][2] + 1
      BY <3>4, <3>5
    <3>7. QED BY <2>1, <3>3, <3>6 DEF Places
  <2>3. QED BY <2>1, <2>2
<1>4. 0..k \subseteq T
  <2> HIDE DEF k, T
  <2> QED BY <1>1, <1>2, <1>3, UpTo
<1>5. QED BY <1>4

PathOf(c, p) ==
  /\ \A j \in 1..Len(p) : p[j] \in c.open
  /\ \A i \in 1..Locks : c.keys[i] = p[KeyIdx(p, i)] /\ c.doors[i] = p[DoorIdx(p, i)]

LEMMA AlongThePath ==
  ASSUME NEW c, NEW p, Carved(p), Len(p) = Labyrinths!Apart + 1, PathOf(c, p), NEW r, Rounds(c, r)
  PROVE  \E s \in r[Labyrinths!Apart] : s[1] = p[Len(p)]
<1> DEFINE k == Labyrinths!Apart
<1> DEFINE Has(n) == {i \in 1..Locks : KeyIdx(p, i) <= n}
<1> DEFINE T == {n \in Nat : n \in 0..k => <<p[n + 1], Has(n + 1)>> \in r[n]}
<1>1. k \in Nat /\ k <= LabyrinthMoves /\ LabyrinthMoves \in Nat /\ Len(p) = k + 1
  BY LabyrinthSize
<1>2. \A i \in 1..Locks :
        KeyIdx(p, i) \in 2..Len(p) /\ DoorIdx(p, i) \in 2..Len(p) /\ KeyIdx(p, i) < DoorIdx(p, i)
  BY KeysBeforeDoors
<1>3. \A j \in 1..Len(p) : p[j] \in Places /\ p[j][1] + p[j][2] = j + 1
  BY DEF Carved
<1>4. \A j, l \in 1..Len(p) : p[j] = p[l] => j = l
  <2>1. ASSUME NEW j \in 1..Len(p), NEW l \in 1..Len(p), p[j] = p[l] PROVE j = l
    <3>1. j + 1 = l + 1
      BY <1>3, <2>1
    <3>2. QED BY <1>1, <3>1
  <2>2. QED BY <2>1
<1>5. 0 \in T
  <2>1. Has(1) = {}
    BY <1>1, <1>2
  <2>2. p[1] = <<1, 1>> /\ r[0] = {<<<<1, 1>>, {}>>}
    BY DEF Carved, Rounds
  <2>3. QED
    <3> HIDE DEF Has, k
    <3> QED BY <2>1, <2>2
<1>6. ASSUME NEW n \in 0..(k - 1), n \in T PROVE n + 1 \in T
  <2>1. n \in 0..k /\ n \in Nat /\ n + 1 \in Nat /\ n + 1 \in 1..(Len(p) - 1) /\ n + 2 \in 1..Len(p)
        /\ n \in 0..(LabyrinthMoves - 1)
    BY <1>1
  <2> DEFINE t == <<p[n + 1], Has(n + 1)>>
  <2>2. t \in r[n] /\ t[1] = p[n + 1] /\ t[2] = Has(n + 1)
    BY <1>6, <2>1
  <2>3. PICK d \in Labyrinths!Deltas : p[(n + 1) + 1] = Labyrinths!Moved(p[n + 1], d)
    BY <2>1 DEF Carved
  <2>4. p[n + 2] = Labyrinths!Moved(t[1], d)
    <3>1. (n + 1) + 1 = n + 2
      BY <2>1
    <3> HIDE DEF t
    <3>2. QED BY <2>2, <2>3, <3>1
  <2>5. Labyrinths!Enterable(c, p[n + 2], Has(n + 1))
    <3>1. p[n + 2] \in c.open
      BY <2>1 DEF PathOf
    <3>2. ASSUME NEW i \in 1..Locks, p[n + 2] = c.doors[i] PROVE i \in Has(n + 1)
      <4>1. p[n + 2] = p[DoorIdx(p, i)]
        BY <3>2 DEF PathOf
      <4>2. DoorIdx(p, i) = n + 2
        BY <1>2, <1>4, <2>1, <4>1
      <4>3. KeyIdx(p, i) <= n + 1
        BY <1>1, <1>2, <2>1, <4>2
      <4>4. QED BY <4>3
    <3> HIDE DEF Has
    <3>3. QED BY <3>1, <3>2 DEF Labyrinths!Enterable
  <2>6. Labyrinths!PickedUp(c, p[n + 2], Has(n + 1)) = Has(n + 2)
    <3>1. ASSUME NEW i \in 1..Locks PROVE (c.keys[i] = p[n + 2]) <=> (KeyIdx(p, i) = n + 2)
      <4>1. c.keys[i] = p[KeyIdx(p, i)]
        BY DEF PathOf
      <4>2. QED BY <1>2, <1>4, <2>1, <4>1
    <3>2. ASSUME NEW i \in 1..Locks
          PROVE (KeyIdx(p, i) <= n + 2) <=> (KeyIdx(p, i) <= n + 1 \/ KeyIdx(p, i) = n + 2)
      <4>1. KeyIdx(p, i) \in Int
        BY <1>1, <1>2
      <4>2. QED BY <2>1, <4>1
    <3>3. QED BY <3>1, <3>2 DEF Labyrinths!PickedUp
  <2>7. <<p[n + 2], Has(n + 2)>> \in Labyrinths!NextStates(c, r[n])
    <3> HIDE DEF t, Has
    <3>1. \E u \in r[n], e \in Labyrinths!Deltas :
             /\ Labyrinths!Enterable(c, Labyrinths!Moved(u[1], e), u[2])
             /\ <<p[n + 2], Has(n + 2)>> =
                  <<Labyrinths!Moved(u[1], e), Labyrinths!PickedUp(c, Labyrinths!Moved(u[1], e), u[2])>>
      BY <2>2, <2>3, <2>4, <2>5, <2>6
    <3>2. QED BY <3>1, StateReached
  <2>8. r[n + 1] = Labyrinths!NextStates(c, r[n]) /\ (n + 1) + 1 = n + 2
    BY <2>1 DEF Rounds
  <2>9. QED
    <3> HIDE DEF Has
    <3> QED BY <2>1, <2>7, <2>8
<1>7. 0..k \subseteq T
  <2> HIDE DEF k, T
  <2> QED BY <1>1, <1>5, <1>6, UpTo
<1>8. <<p[k + 1], Has(k + 1)>> \in r[k]
  BY <1>1, <1>7
<1>9. QED
  <2>1. <<p[k + 1], Has(k + 1)>>[1] = p[k + 1]
    OBVIOUS
  <2> HIDE DEF Has
  <2>2. QED BY <1>1, <1>8, <2>1

LEMMA CornersApart ==
  ASSUME NEW c, NEW p, Carved(p), p[Len(p)] = Labyrinths!Goal, PathOf(c, p)
  PROVE  Labyrinths!OptimalMoves(c) = Labyrinths!Apart
<1>1. /\ Labyrinths!Apart = Width + Height - 2 /\ Labyrinths!Apart \in Nat
      /\ Width \in Nat /\ Height \in Nat
      /\ LabyrinthMoves \in Nat /\ LabyrinthMoves >= Labyrinths!Apart
  BY LabyrinthSize
<1>2. Len(p) = Labyrinths!Apart + 1
  <2>1. Len(p) \in Nat /\ Len(p) \in 1..Len(p)
    BY DEF Carved
  <2>2. p[Len(p)][1] + p[Len(p)][2] = Len(p) + 1
    BY <2>1 DEF Carved
  <2>3. p[Len(p)][1] = Width /\ p[Len(p)][2] = Height
    BY DEF Labyrinths!Goal
  <2>4. QED BY <1>1, <2>1, <2>2, <2>3
<1>3. PICK r : /\ Rounds(c, r)
                /\ Labyrinths!OptimalMoves(c) =
                     LET solved == {n \in 0..LabyrinthMoves : \E s \in r[n] : s[1] = Labyrinths!Goal}
                     IN CHOOSE n \in solved : \A m \in solved : n <= m
  BY SearchRounds
<1> DEFINE solved == {n \in 0..LabyrinthMoves : \E s \in r[n] : s[1] = Labyrinths!Goal}
<1> DEFINE far == Labyrinths!Apart
<1>4. far \in solved
  <2>1. \E s \in r[Labyrinths!Apart] : s[1] = p[Len(p)]
    BY <1>2, <1>3, AlongThePath
  <2>2. Labyrinths!Apart = far /\ far \in 0..LabyrinthMoves
    BY <1>1
  <2> HIDE DEF far
  <2>3. QED BY <2>1, <2>2
<1>5. ASSUME NEW m \in solved PROVE far <= m /\ m \in Nat
  <2>1. PICK s \in r[m] : s[1] = Labyrinths!Goal
    OBVIOUS
  <2>2. s[1][1] = Width /\ s[1][2] = Height
    BY <2>1 DEF Labyrinths!Goal
  <2>3. s[1][1] + s[1][2] <= m + 2
    BY <1>3, NotSooner
  <2>4. QED BY <1>1, <2>2, <2>3
<1>6. Labyrinths!OptimalMoves(c) = CHOOSE n \in solved : \A m \in solved : n <= m
  BY <1>3
<1>7. far \in Nat
  BY <1>1
<1> HIDE DEF solved, far
<1>8. \A n \in solved : (\A m \in solved : n <= m) => n = far
  BY <1>4, <1>5, <1>7
<1>9. \A m \in solved : far <= m
  BY <1>5
<1>10. Labyrinths!OptimalMoves(c) = far
  BY <1>4, <1>6, <1>8, <1>9
<1>11. QED BY <1>10 DEF far

Planned == [stage : {"carve"}, path : Seq(Places)]
Explored(c) ==
  [stage : {"play"}, case : {c}, optimal : {Labyrinths!Apart}, position : Places,
   inventory : SUBSET (1..Locks), opened : SUBSET (1..Locks), moves : Nat, success : BOOLEAN]
OnTheWay(e) ==
  /\ \E c : e \in Explored(c)
  /\ e.position[1] + e.position[2] <= e.moves + 2
  /\ e.success => e.position = Labyrinths!Goal
  /\ e.opened \subseteq e.inventory
LabyrinthInv ==
  \/ env \in Planned /\ Carved(env.path)
  \/ OnTheWay(env)

LEMMA LabyrinthRight == ASSUME LabyrinthInv PROVE Labyrinths!LabyrinthSolvable
<1>1. Labyrinths!Apart = Width + Height - 2 /\ Width \in Nat /\ Height \in Nat
  BY LabyrinthSize
<1>2. CASE env \in Planned
  BY <1>2 DEF Planned, Labyrinths!LabyrinthSolvable
<1>3. CASE OnTheWay(env)
  <2>1. env.optimal = Labyrinths!Apart /\ env.moves \in Nat
    BY <1>3 DEF OnTheWay, Explored
  <2>2. ASSUME env.success PROVE env.moves >= env.optimal
    <3>1. env.position[1] = Width /\ env.position[2] = Height
      BY <1>3, <2>2 DEF OnTheWay, Labyrinths!Goal
    <3>2. env.position[1] + env.position[2] <= env.moves + 2
      BY <1>3 DEF OnTheWay
    <3>3. QED BY <1>1, <2>1, <3>1, <3>2
  <2>3. QED BY <1>3, <2>1, <2>2 DEF OnTheWay, Labyrinths!LabyrinthSolvable
<1>4. QED BY <1>2, <1>3 DEF LabyrinthInv

LEMMA LabyrinthPlanned == ASSUME Labyrinths!LabyrinthInit PROVE LabyrinthInv
<1> DEFINE p == <<<<1, 1>>>>
<1> DEFINE e == [stage |-> "carve", path |-> p]
<1>1. env = e /\ e.path = p
  BY DEF Labyrinths!LabyrinthInit
<1>2. p \in Seq(Places) /\ Len(p) = 1 /\ p[1] = <<1, 1>>
  BY DEF Places
<1>3. <<1, 1>> \in Labyrinths!Interior /\ <<1, 1>>[1] + <<1, 1>>[2] = 2
  BY ProblemsAssumption DEF Labyrinths!LabyrinthAssumption, Labyrinths!Interior
<1> HIDE DEF p
<1>4. Carved(p)
  BY <1>2, <1>3 DEF Carved
<1>5. e \in Planned
  BY <1>2 DEF Planned
<1>6. QED BY <1>1, <1>4, <1>5 DEF LabyrinthInv

LEMMA PathGrows ==
  ASSUME NEW p, Carved(p), NEW d \in {<<1, 0>>, <<0, 1>>},
         Labyrinths!Moved(p[Len(p)], d) \in Labyrinths!Interior
  PROVE  Carved(Append(p, Labyrinths!Moved(p[Len(p)], d)))
<1> DEFINE n == Len(p)
<1> DEFINE m == Labyrinths!Moved(p[n], d)
<1> DEFINE q == Append(p, m)
<1>1. p \in Seq(Places) /\ n \in Nat /\ n >= 1 /\ n \in 1..n
  BY DEF Carved
<1>2. p[n] \in Places /\ p[n][1] + p[n][2] = n + 1
  BY <1>1 DEF Carved
<1>3. d \in Labyrinths!Deltas /\ d[1] \in Int /\ d[2] \in Int /\ d[1] + d[2] = 1
  BY DEF Labyrinths!Deltas
<1>4. m \in Places /\ m[1] = p[n][1] + d[1] /\ m[2] = p[n][2] + d[2]
  BY <1>2, <1>3 DEF Places, Labyrinths!Moved
<1>5. m \in Labyrinths!Interior
  OBVIOUS
<1> HIDE DEF m
<1>6. m[1] + m[2] = (n + 1) + 1
  <2>1. p[n][1] \in Int /\ p[n][2] \in Int
    BY <1>2 DEF Places
  <2> DEFINE a == p[n][1]
  <2> DEFINE b == p[n][2]
  <2>2. a \in Int /\ b \in Int /\ a + b = n + 1 /\ m[1] = a + d[1] /\ m[2] = b + d[2]
    BY <1>2, <1>4, <2>1
  <2> HIDE DEF n, a, b
  <2>3. m[1] + m[2] = a + b + (d[1] + d[2])
    BY <1>3, <2>2
  <2>4. QED BY <1>1, <1>3, <2>2, <2>3
<1>7. q \in Seq(Places) /\ Len(q) = n + 1 /\ q[n + 1] = m /\ \A j \in 1..n : q[j] = p[j]
  BY <1>1, <1>4
<1> HIDE DEF q, n
<1>8. \A j \in 1..Len(q) : q[j] \in Labyrinths!Interior /\ q[j][1] + q[j][2] = j + 1
  <2>1. ASSUME NEW j \in 1..n PROVE q[j] \in Labyrinths!Interior /\ q[j][1] + q[j][2] = j + 1
    BY <1>7 DEF Carved, n
  <2>2. \A j \in 1..Len(q) : j \in 1..n \/ j = n + 1
    BY <1>1, <1>7
  <2>3. QED BY <1>5, <1>6, <1>7, <2>1, <2>2
<1>9. ASSUME NEW j \in 1..(Len(q) - 1) PROVE \E a \in Labyrinths!Deltas : q[j + 1] = Labyrinths!Moved(q[j], a)
  <2>1. CASE j = n
    <3>1. q[n] = p[n]
      BY <1>1, <1>7
    <3>2. QED BY <1>3, <1>7, <2>1, <3>1 DEF m
  <2>2. CASE j # n
    <3>1. j \in 1..(n - 1) /\ j \in 1..n /\ j + 1 \in 1..n
      BY <1>1, <1>7, <2>2
    <3>2. QED BY <1>7, <3>1 DEF Carved, n
  <2>3. QED BY <2>1, <2>2
<1>10. q[1] = <<1, 1>>
  BY <1>1, <1>7 DEF Carved
<1>11. Carved(q)
  BY <1>1, <1>7, <1>8, <1>9, <1>10 DEF Carved
<1>12. QED BY <1>11 DEF q, m, n

LEMMA LabyrinthStep == ASSUME LabyrinthInv, Labyrinths!LabyrinthNext PROVE LabyrinthInv'
<1>1. ASSUME NEW d \in {<<1, 0>>, <<0, 1>>}, Labyrinths!CarveMainPath(d) PROVE LabyrinthInv'
  <2>1. env.stage = "carve"
    BY <1>1 DEF Labyrinths!CarveMainPath
  <2>2. env \in Planned /\ Carved(env.path)
    BY <2>1 DEF LabyrinthInv, OnTheWay, Explored
  <2> DEFINE q == Append(env.path, Labyrinths!Moved(env.path[Len(env.path)], d))
  <2>3. Carved(q)
    BY <1>1, <2>2, PathGrows DEF Labyrinths!CarveMainPath
  <2>4. env' = [env EXCEPT !.path = q]
    BY <1>1 DEF Labyrinths!CarveMainPath
  <2> HIDE DEF q
  <2>5. env' \in Planned /\ env'.path = q
    BY <2>2, <2>3, <2>4 DEF Planned, Carved
  <2>6. QED BY <2>3, <2>5 DEF LabyrinthInv
<1>2. ASSUME NEW branches, NEW walls, Labyrinths!Generate(branches, walls) PROVE LabyrinthInv'
  <2> DEFINE p == env.path
  <2> DEFINE carved == UNION {Labyrinths!Range(w) : w \in branches}
  <2>1. env.stage = "carve" /\ p[Len(p)] = Labyrinths!Goal
    BY <1>2 DEF Labyrinths!Generate
  <2>2. Carved(p)
    BY <2>1 DEF LabyrinthInv, OnTheWay, Explored
  <2> DEFINE c == [open |-> Labyrinths!Range(p) \cup (carved \ walls),
               keys |-> [i \in 1..Locks |-> Labyrinths!KeyCell(p, i)],
               doors |-> [i \in 1..Locks |-> Labyrinths!DoorCell(p, i)]]
  <2>3. env' = Labyrinths!Started(c)
    BY <1>2 DEF Labyrinths!Generate
  <2>4. PathOf(c, p)
    <3>1. DOMAIN p = 1..Len(p)
      BY <2>2 DEF Carved
    <3>2. \A j \in 1..Len(p) : p[j] \in c.open
      BY <3>1 DEF Labyrinths!Range
    <3>3. QED BY <3>2 DEF PathOf, KeyIdx, DoorIdx, Labyrinths!KeyCell, Labyrinths!DoorCell
  <2> HIDE DEF c
  <2>5. Labyrinths!OptimalMoves(c) = Labyrinths!Apart
    BY <2>1, <2>2, <2>4, CornersApart
  <2> DEFINE e == [stage |-> "play", case |-> c, optimal |-> Labyrinths!Apart, position |-> <<1, 1>>,
                   inventory |-> {}, opened |-> {}, moves |-> 0, success |-> FALSE]
  <2>6. env' = e
    BY <2>3, <2>5 DEF Labyrinths!Started
  <2>7. e \in Explored(c) /\ OnTheWay(e)
    BY DEF Explored, OnTheWay, Places
  <2> HIDE DEF e
  <2>8. QED BY <2>6, <2>7 DEF LabyrinthInv
<1>3. ASSUME env' = env PROVE LabyrinthInv'
  BY <1>3 DEF LabyrinthInv
<1>4. ASSUME Labyrinths!Playing PROVE OnTheWay(env)
  BY <1>4 DEF Labyrinths!Playing, LabyrinthInv, Planned
<1>5. ASSUME Labyrinths!InvalidDirection PROVE LabyrinthInv'
  BY <1>3, <1>5 DEF Labyrinths!InvalidDirection, Labyrinths!Applied
<1>6. ASSUME NEW cell, Labyrinths!Blocked(cell) PROVE LabyrinthInv'
  <2>1. OnTheWay(env)
    BY <1>4, <1>6 DEF Labyrinths!Blocked
  <2>2. PICK c : env \in Explored(c)
    BY <2>1 DEF OnTheWay
  <2> DEFINE m == env.moves + 1
  <2> DEFINE e == [env EXCEPT !.moves = m]
  <2>3. env' = e
    BY <1>6 DEF Labyrinths!Blocked, Labyrinths!After, Labyrinths!Applied
  <2>4. env.moves \in Nat /\ m \in Nat /\ env.position[1] \in Int /\ env.position[2] \in Int
    BY <2>2 DEF Explored, Places
  <2>5. env.position[1] + env.position[2] <= m + 2
    BY <2>1, <2>4 DEF OnTheWay
  <2> HIDE DEF m
  <2>6. /\ e \in Explored(c) /\ e.moves = m /\ e.position = env.position /\ e.success = env.success
        /\ e.opened = env.opened /\ e.inventory = env.inventory
    BY <2>2, <2>4 DEF Explored
  <2> HIDE DEF e
  <2>7. OnTheWay(e)
    BY <2>1, <2>5, <2>6 DEF OnTheWay
  <2>8. QED BY <2>3, <2>7 DEF LabyrinthInv
<1>7. ASSUME NEW d \in Labyrinths!Deltas, Labyrinths!Move(Labyrinths!Moved(env.position, d)) PROVE LabyrinthInv'
  <2>1. OnTheWay(env)
    BY <1>4, <1>7 DEF Labyrinths!Move
  <2>2. PICK c : env \in Explored(c)
    BY <2>1 DEF OnTheWay
  <2> DEFINE cell == Labyrinths!Moved(env.position, d)
  <2> DEFINE m == env.moves + 1
  <2> DEFINE door == {i \in 1..Locks : env.case.doors[i] = cell}
  <2> DEFINE opened == env.opened \cup door
  <2> DEFINE keys == Labyrinths!PickedUp(env.case, cell, env.inventory)
  <2> DEFINE there == cell = Labyrinths!Goal
  <2> DEFINE e == [env EXCEPT !.position = cell, !.moves = m, !.success = there, !.opened = opened, !.inventory = keys]
  <2>3. env' = e
    BY <1>7 DEF Labyrinths!Move, Labyrinths!After, Labyrinths!Applied
  <2>4. env.position \in Places /\ env.moves \in Nat /\ m \in Nat
    BY <2>2 DEF Explored
  <2>5. cell \in Places /\ cell[1] + cell[2] <= env.position[1] + env.position[2] + 1
    BY <2>4, Nearer
  <2>6. cell[1] + cell[2] <= m + 2
    <3>1. env.position[1] + env.position[2] <= env.moves + 2
      BY <2>1 DEF OnTheWay
    <3>2. cell[1] \in Int /\ cell[2] \in Int /\ env.position[1] \in Int /\ env.position[2] \in Int
      BY <2>4, <2>5 DEF Places
    <3> HIDE DEF cell
    <3>3. QED BY <2>4, <2>5, <3>1, <3>2
  <2>7. keys \in SUBSET (1..Locks) /\ env.inventory \subseteq keys /\ opened \in SUBSET (1..Locks)
    BY <2>2 DEF Explored, Labyrinths!PickedUp
  <2>8. opened \subseteq keys
    <3>1. door \subseteq env.inventory
      BY <1>7 DEF Labyrinths!Move, Labyrinths!Enterable
    <3>2. env.opened \subseteq env.inventory
      BY <2>1 DEF OnTheWay
    <3> HIDE DEF door, keys
    <3>3. QED BY <2>7, <3>1, <3>2
  <2>9. there \in BOOLEAN
    OBVIOUS
  <2>10. there => cell = Labyrinths!Goal
    OBVIOUS
  <2> HIDE DEF cell, m, opened, keys, there
  <2>11. /\ e \in Explored(c) /\ e.moves = m /\ e.position = cell /\ e.success = there
        /\ e.opened = opened /\ e.inventory = keys
    BY <2>2, <2>4, <2>5, <2>7, <2>9 DEF Explored
  <2> HIDE DEF e
  <2>12. OnTheWay(e)
    BY <2>6, <2>8, <2>10, <2>11 DEF OnTheWay
  <2>13. QED BY <2>3, <2>12 DEF LabyrinthInv
<1>8. ASSUME Labyrinths!Abandoned PROVE LabyrinthInv'
  BY <1>3, <1>8 DEF Labyrinths!Abandoned, Labyrinths!Interrupted
<1>9. QED
  BY <1>1, <1>2, <1>5, <1>6, <1>7, <1>8 DEF Labyrinths!LabyrinthNext

-----------------------------------------------------------------------------
(* --- The werewolf game: who does as asked is safe, and who has won wins. --- *)

(* The werewolf game *)

Roles == Games!Agents
Someone == Roles \cup {Nobody}
GamePhases == {"SYNC", "NIGHT_WOLF", "NIGHT_WITCH", "NIGHT_SEER", "DAY_ANNOUNCE", "DAY_SPEAK",
               "DAY_VOTE", "DAY_LAST_WORDS", "GAME_OVER"}
Faults == {"fine", "refused", "spent potion", "no kill", "wolves only"}
Game ==
  [phase : GamePhases, round : Nat, steps : Nat, alive : SUBSET Roles, kill : Someone,
   has_save : BOOLEAN, has_poison : BOOLEAN, saved : BOOLEAN, poison : Someone,
   to_speak : SUBSET Roles, speaker : Someone, vote_round : Nat, votes : [Roles -> Someone],
   last_words : Someone, winner : {"none", "good", "wolf"}, error : Faults, obeyed : BOOLEAN]

WolvesLeft(e) == Cardinality(e.alive \cap Wolves)
GoodLeft(e) == Cardinality(e.alive \cap Games!Good)
Even(e) == 0 < WolvesLeft(e) /\ WolvesLeft(e) < GoodLeft(e)
SomeLeft(e) == WolvesLeft(e) = 0 => GoodLeft(e) > 0

(* The steps a round may take, and how many of them lie behind a phase. *)
RoundSteps == 5 + VoteMaxRounds + Cardinality(Roles)
StepsUpTo(rounds) == 1 + rounds * RoundSteps
StepsInto(e) ==
  CASE e.phase = "NIGHT_WOLF" -> 0
    [] e.phase = "NIGHT_WITCH" -> 1
    [] e.phase = "NIGHT_SEER" -> 2
    [] e.phase = "DAY_ANNOUNCE" -> 3
    [] e.phase = "DAY_SPEAK" -> 4 + Cardinality(Roles) - Cardinality(e.to_speak)
    [] e.phase = "DAY_VOTE" -> 3 + Cardinality(Roles) + e.vote_round
    [] e.phase = "DAY_LAST_WORDS" -> 4 + Cardinality(Roles) + VoteMaxRounds
    [] OTHER -> 0
InTime(e) ==
  IF e.phase = "SYNC" THEN e.steps = 0 /\ e.round = 1
  ELSE e.steps <= StepsUpTo(e.round - 1) + StepsInto(e)

Playable(e) ==
  /\ e.phase # "GAME_OVER" /\ e.winner = "none" /\ e.error = "fine"
  /\ e.round \in 1..MaxRounds
  /\ e.kill \notin Wolves
  /\ e.phase = "DAY_SPEAK" => e.to_speak \subseteq e.alive /\ e.speaker \in e.to_speak
  /\ e.phase = "DAY_VOTE" => e.vote_round \in 1..VoteMaxRounds
  /\ e.phase = "DAY_LAST_WORDS" => e.last_words \in Roles \ e.alive
Going(e) == Playable(e) /\ InTime(e)

Over(e) ==
  /\ e.phase = "GAME_OVER"
  /\ e.winner = "good" => WolvesLeft(e) = 0 /\ GoodLeft(e) > 0
  /\ e.winner = "wolf" => WolvesLeft(e) >= GoodLeft(e) \/ e.round > MaxRounds
  /\ e.error # "fine" <=> e.winner = "none"
  /\ e.steps <= StepsUpTo(MaxRounds)

(* What may end the game of those who do as asked. *)
Excused(e) ==
  /\ e.error \in {"fine", "spent potion", "wolves only"}
  /\ e.error = "spent potion" => ~e.has_save \/ ~e.has_poison

GameInv(e) ==
  /\ e \in Game
  /\ (Going(e) /\ Even(e)) \/ Over(e)
  /\ e.obeyed => Excused(e)

(* What a handler has made of a step, before it is looked who has won. *)
Handed(e) == e \in Game /\ SomeLeft(e) /\ (Going(e) \/ (Over(e) /\ e.error = "fine"))

(* Each instance has a copy of its own of the library's definitions. *)
LEMMA GamesCount ==
  /\ \A S : Games!Cardinality(S) = Cardinality(S)
  /\ \A S : Games!IsFiniteSet(S) <=> IsFiniteSet(S)
<1>1. \A S : Games!Cardinality(S) = Cardinality(S)
  BY DEF Games!Cardinality, Cardinality
<1>2. \A S : Games!IsFiniteSet(S) <=> IsFiniteSet(S)
  BY DEF Games!IsFiniteSet, IsFiniteSet
<1>3. QED BY <1>1, <1>2

LEMMA GameConstants ==
  /\ IsFiniteSet(Roles) /\ Cardinality(Roles) \in Nat /\ Nobody \notin Roles
  /\ Wolves \subseteq Roles /\ Witch \in Roles
  /\ 0 < Cardinality(Wolves) /\ Cardinality(Wolves) < Cardinality(Games!Good)
  /\ MaxRounds \in Nat \ {0} /\ VoteMaxRounds \in Nat \ {0}
<1>1. IsFiniteSet(Roles) /\ Nobody \notin Roles
  BY ProblemsAssumption, GamesCount DEF Games!WerewolfAssumption, Roles
<1>2. 0 < Cardinality(Wolves) /\ Cardinality(Wolves) < Cardinality(Games!Good)
  BY ProblemsAssumption, GamesCount DEF Games!WerewolfAssumption
<1>3. QED
  BY <1>1, <1>2, ProblemsAssumption, FS_CardinalityType DEF Games!WerewolfAssumption, Roles, Games!Agents

LEMMA LeftCounted ==
  ASSUME NEW e, e.alive \in SUBSET Roles
  PROVE  /\ IsFiniteSet(e.alive) /\ Cardinality(e.alive) \in Nat
         /\ Cardinality(e.alive) <= Cardinality(Roles) /\ Cardinality(Roles) \in Nat
         /\ IsFiniteSet(e.alive \cap Wolves) /\ IsFiniteSet(e.alive \cap Games!Good)
         /\ WolvesLeft(e) \in Nat /\ GoodLeft(e) \in Nat
         /\ WolvesLeft(e) = 0 <=> e.alive \cap Wolves = {}
         /\ GoodLeft(e) = 0 <=> e.alive \cap Games!Good = {}
<1>1. IsFiniteSet(Roles)
  BY GameConstants
<1>2. /\ IsFiniteSet(e.alive) /\ IsFiniteSet(e.alive \cap Wolves)
      /\ IsFiniteSet(e.alive \cap Games!Good)
  BY <1>1, FS_Subset
<1>3. QED
  BY <1>1, <1>2, FS_Subset, FS_CardinalityType, FS_EmptySet DEF WolvesLeft, GoodLeft

(* The arithmetic of rounds. *)
LEMMA RoundsAddUp ==
  ASSUME NEW r \in Nat, NEW m \in Nat, r < m
  PROVE  /\ RoundSteps \in Nat
         /\ StepsUpTo(r) \in Nat /\ StepsUpTo(r + 1) = StepsUpTo(r) + RoundSteps
         /\ StepsUpTo(r + 1) <= StepsUpTo(m)
<1>1. RoundSteps \in Nat
  BY GameConstants DEF RoundSteps
<1>2. ASSUME NEW k \in Nat PROVE k * RoundSteps \in Nat /\ (k + 1) * RoundSteps = k * RoundSteps + RoundSteps
  BY <1>1
<1>3. m * RoundSteps = (r + 1) * RoundSteps + (m - (r + 1)) * RoundSteps
  BY <1>1
<1>4. (m - (r + 1)) * RoundSteps \in Nat
  BY <1>2
<1>5. m * RoundSteps \in Nat /\ r * RoundSteps \in Nat /\ (r + 1) * RoundSteps \in Nat
  BY <1>2
<1>6. QED
  BY <1>1, <1>2, <1>3, <1>4, <1>5 DEF StepsUpTo

LEMMA GameEnded ==
  ASSUME NEW e \in Game, NEW w \in {"none", "good", "wolf"}
  PROVE  LET x == Games!Ended(e, w)
         IN /\ x \in Game /\ x.phase = "GAME_OVER" /\ x.winner = w
            /\ x.alive = e.alive /\ x.round = e.round /\ x.steps = e.steps
            /\ x.error = e.error /\ x.obeyed = e.obeyed
BY DEF Game, Games!Ended, GamePhases

LEMMA IntoARound ==
  ASSUME NEW e \in Game
  PROVE  /\ StepsUpTo(e.round - 1) \in Int /\ StepsInto(e) \in Int
         /\ Cardinality(e.to_speak) \in Nat
<1>1. Cardinality(e.to_speak) \in Nat
  BY GameConstants, FS_Subset, FS_CardinalityType DEF Game
<1>2. StepsInto(e) \in Int
  BY <1>1, GameConstants DEF StepsInto, Game
<1>3. StepsUpTo(e.round - 1) \in Int
  BY GameConstants DEF StepsUpTo, RoundSteps, Game
<1>4. QED BY <1>1, <1>2, <1>3

(* However far a round is, its steps are not used up. *)
LEMMA StepLeft ==
  ASSUME NEW e \in Game, Going(e)
  PROVE  e.steps + 1 <= StepsUpTo(e.round) /\ e.steps + 1 <= StepsUpTo(MaxRounds)
<1>1. e.round - 1 \in Nat /\ e.round - 1 < MaxRounds /\ MaxRounds \in Nat /\ VoteMaxRounds \in Nat \ {0}
  BY GameConstants DEF Going, Playable
<1>2. StepsUpTo(e.round) = StepsUpTo(e.round - 1) + RoundSteps /\ StepsUpTo(e.round) <= StepsUpTo(MaxRounds)
      /\ StepsUpTo(e.round - 1) \in Nat /\ StepsUpTo(MaxRounds) \in Int
  <2>1. e.round - 1 + 1 = e.round
    BY <1>1 DEF Game
  <2>2. StepsUpTo(MaxRounds) \in Int
    BY <1>1, GameConstants DEF StepsUpTo, RoundSteps
  <2>3. QED BY <1>1, <2>1, <2>2, RoundsAddUp
<1>3. Cardinality(Roles) \in Nat /\ Cardinality(e.to_speak) \in Nat
      /\ (e.phase = "DAY_SPEAK" => Cardinality(e.to_speak) > 0)
  <2>1. IsFiniteSet(e.to_speak) /\ Cardinality(Roles) \in Nat
    BY GameConstants, FS_Subset DEF Game
  <2>2. QED
    BY <2>1, FS_CardinalityType, FS_EmptySet DEF Going, Playable
<1>4. CASE e.phase = "SYNC"
  BY <1>1, <1>2, <1>3, <1>4 DEF Going, Playable, InTime, RoundSteps
<1>5. CASE e.phase # "SYNC"
  <2>1. StepsInto(e) \in Int /\ StepsInto(e) + 1 <= RoundSteps
    BY <1>1, <1>3 DEF StepsInto, RoundSteps, Going, Playable, Game, GamePhases
  <2>2. e.steps <= StepsUpTo(e.round - 1) + StepsInto(e) /\ e.steps \in Nat
    BY <1>5 DEF Going, Playable, InTime, Game
  <2>3. RoundSteps \in Nat
    BY <1>1, <1>3 DEF RoundSteps
  <2>4. QED BY <1>1, <1>2, <2>1, <2>2, <2>3
<1>6. QED BY <1>4, <1>5

(* A game whose step is being made: one more has been counted. *)
Stepped(d) ==
  /\ d \in Game /\ Playable(d) /\ Even(d)
  /\ d.steps <= StepsUpTo(d.round)
  /\ IF d.phase = "SYNC" THEN d.steps = 1 /\ d.round = 1
     ELSE d.steps <= StepsUpTo(d.round - 1) + StepsInto(d) + 1

LEMMA StepMade ==
  ASSUME NEW e \in Game, Going(e), Even(e), NEW obeyed \in BOOLEAN
  PROVE  LET d == [e EXCEPT !.steps = @ + 1, !.obeyed = @ /\ obeyed]
         IN Stepped(d) /\ d.phase = e.phase /\ d.obeyed = (e.obeyed /\ obeyed)
<1> DEFINE obeys == e.obeyed /\ obeyed
           more == e.steps + 1
           d == [e EXCEPT !.steps = more, !.obeyed = obeys]
<1>1. obeys \in BOOLEAN /\ more \in Nat
  BY DEF Game
<1> HIDE DEF obeys, more
<1>2. d \in Game
  BY <1>1 DEF Game
<1>3. /\ d.phase = e.phase /\ d.round = e.round /\ d.steps = more /\ d.alive = e.alive
      /\ d.kill = e.kill /\ d.to_speak = e.to_speak /\ d.speaker = e.speaker
      /\ d.vote_round = e.vote_round /\ d.last_words = e.last_words /\ d.winner = e.winner
      /\ d.error = e.error /\ d.obeyed = obeys
  BY DEF Game
<1> HIDE DEF d
<1> USE DEF more
<1>4. Playable(d)
  BY <1>3 DEF Going, Playable
<1>5. Even(d)
  BY <1>3 DEF Even, WolvesLeft, GoodLeft
<1>6. StepsInto(d) = StepsInto(e)
  BY <1>3 DEF StepsInto
<1>7. d.steps <= StepsUpTo(d.round)
  BY <1>3, StepLeft
<1>8. ASSUME e.phase # "SYNC" PROVE d.steps <= StepsUpTo(d.round - 1) + StepsInto(d) + 1
  <2>1. e.steps <= StepsUpTo(e.round - 1) + StepsInto(e) /\ e.steps \in Nat
    BY <1>8 DEF Going, InTime, Game
  <2>2. StepsUpTo(e.round - 1) \in Int /\ StepsInto(e) \in Int
    BY IntoARound
  <2>3. QED BY <2>1, <2>2, <1>3, <1>6
<1>9. Stepped(d)
  BY <1>2, <1>3, <1>4, <1>5, <1>7, <1>8 DEF Stepped, Going, InTime
<1>10. QED
  BY <1>3, <1>9 DEF d, obeys

LEMMA CheckedGame ==
  ASSUME NEW y, Handed(y)
  PROVE  LET x == Games!CheckGameOver(y)
         IN /\ x \in Game /\ ((Going(x) /\ Even(x)) \/ Over(x))
            /\ x.error = "fine" /\ x.obeyed = y.obeyed
<1> DEFINE x == Games!CheckGameOver(y)
<1>1. y \in Game /\ SomeLeft(y) /\ y.error = "fine" /\ y.steps <= StepsUpTo(MaxRounds)
  <2>1. Going(y) => y.steps <= StepsUpTo(MaxRounds)
    <3>1. StepsUpTo(MaxRounds) \in Int
      BY GameConstants DEF StepsUpTo, RoundSteps
    <3>2. QED BY <3>1, StepLeft DEF Handed, Game
  <2>2. QED BY <2>1 DEF Handed, Over, Going, Playable
<1>2. /\ WolvesLeft(y) \in Nat /\ GoodLeft(y) \in Nat
      /\ Games!Cardinality(y.alive \cap Wolves) = WolvesLeft(y)
      /\ Games!Cardinality(y.alive \cap Games!Good) = GoodLeft(y)
  BY <1>1, LeftCounted, GamesCount DEF WolvesLeft, GoodLeft, Game
<1>3. ASSUME NEW w \in {"good", "wolf"}, x = Games!Ended(y, w),
             w = "good" => WolvesLeft(y) = 0 /\ GoodLeft(y) > 0,
             w = "wolf" => WolvesLeft(y) >= GoodLeft(y)
      PROVE  x \in Game /\ Over(x) /\ x.error = "fine" /\ x.obeyed = y.obeyed
  <2>1. /\ x \in Game /\ x.phase = "GAME_OVER" /\ x.winner = w /\ x.alive = y.alive
        /\ x.steps = y.steps /\ x.error = y.error /\ x.obeyed = y.obeyed
    BY <1>1, <1>3, GameEnded
  <2>2. QED
    BY <2>1, <1>1, <1>3 DEF Over, WolvesLeft, GoodLeft
<1>4. CASE WolvesLeft(y) = 0
  <2>1. x = Games!Ended(y, "good")
    BY <1>2, <1>4 DEF Games!CheckGameOver
  <2>2. GoodLeft(y) > 0
    BY <1>1, <1>4 DEF SomeLeft
  <2>3. QED BY <2>1, <2>2, <1>3, <1>4
<1>5. CASE WolvesLeft(y) > 0 /\ WolvesLeft(y) >= GoodLeft(y)
  <2>1. x = Games!Ended(y, "wolf")
    BY <1>2, <1>5 DEF Games!CheckGameOver
  <2>2. QED BY <2>1, <1>3, <1>5
<1>6. CASE WolvesLeft(y) > 0 /\ ~(WolvesLeft(y) >= GoodLeft(y))
  <2>1. x = y
    BY <1>2, <1>6 DEF Games!CheckGameOver
  <2>2. QED BY <2>1, <1>1, <1>2, <1>6 DEF Handed, Even
<1>7. QED BY <1>2, <1>4, <1>5, <1>6

LEMMA NextRoundHanded ==
  ASSUME NEW e \in Game, SomeLeft(e), e.winner = "none", e.error = "fine", e.phase # "GAME_OVER",
         e.round \in 1..MaxRounds, e.kill \notin Wolves, e.steps <= StepsUpTo(e.round)
  PROVE  Handed(Games!NextRound(e)) /\ Games!NextRound(e).obeyed = e.obeyed
<1> DEFINE over == Games!CheckGameOver(e)
           late == [e EXCEPT !.round = @ + 1]
           later == e.round + 1
           next == [e EXCEPT !.round = later, !.phase = "NIGHT_WOLF"]
<1>1. /\ WolvesLeft(e) \in Nat /\ GoodLeft(e) \in Nat
      /\ Games!Cardinality(e.alive \cap Wolves) = WolvesLeft(e)
      /\ Games!Cardinality(e.alive \cap Games!Good) = GoodLeft(e)
  BY LeftCounted, GamesCount DEF WolvesLeft, GoodLeft, Game
<1>2. /\ MaxRounds \in Nat /\ e.round \in Nat /\ e.round - 1 + 1 = e.round /\ e.steps \in Nat
      /\ StepsUpTo(e.round) \in Int /\ StepsUpTo(MaxRounds) \in Int
      /\ StepsUpTo(e.round) <= StepsUpTo(MaxRounds)
  <2>1. MaxRounds \in Nat /\ e.round \in Nat /\ e.round - 1 + 1 = e.round /\ e.steps \in Nat
        /\ e.round - 1 \in Nat /\ e.round - 1 < MaxRounds
    BY GameConstants DEF Game
  <2>2. StepsUpTo(e.round) \in Int /\ StepsUpTo(MaxRounds) \in Int
    BY <2>1, GameConstants DEF StepsUpTo, RoundSteps
  <2>3. QED BY <2>1, <2>2, RoundsAddUp
<1>3. ASSUME NEW w \in {"good", "wolf"}, NEW f \in {e, late},
             w = "good" => WolvesLeft(f) = 0 /\ GoodLeft(f) > 0,
             w = "wolf" => WolvesLeft(f) >= GoodLeft(f) \/ f.round > MaxRounds
      PROVE  Handed(Games!Ended(f, w)) /\ Games!Ended(f, w).obeyed = e.obeyed
  <2>1. /\ f \in Game /\ f.alive = e.alive /\ f.steps = e.steps /\ f.error = e.error
        /\ f.obeyed = e.obeyed
    BY DEF Game
  <2> DEFINE x == Games!Ended(f, w)
  <2>2. /\ x \in Game /\ x.phase = "GAME_OVER" /\ x.winner = w /\ x.alive = f.alive
        /\ x.round = f.round /\ x.steps = f.steps /\ x.error = f.error /\ x.obeyed = f.obeyed
    BY <2>1, GameEnded
  <2> HIDE DEF x, late
  <2>3. Over(x)
    BY <1>2, <1>3, <2>1, <2>2 DEF Over, WolvesLeft, GoodLeft
  <2>4. SomeLeft(x)
    BY <2>1, <2>2 DEF SomeLeft, WolvesLeft, GoodLeft
  <2>5. QED BY <2>1, <2>2, <2>3, <2>4 DEF Handed, x
<1>4. CASE WolvesLeft(e) = 0
  <2>1. over = Games!Ended(e, "good") /\ GoodLeft(e) > 0
    BY <1>1, <1>4 DEF Games!CheckGameOver, SomeLeft
  <2>2. over.phase = "GAME_OVER"
    BY <2>1, GameEnded
  <2>3. Games!NextRound(e) = over
    BY <2>2 DEF Games!NextRound
  <2>4. QED BY <2>1, <2>3, <1>3, <1>4
<1>5. CASE WolvesLeft(e) > 0 /\ WolvesLeft(e) >= GoodLeft(e)
  <2>1. over = Games!Ended(e, "wolf")
    BY <1>1, <1>5 DEF Games!CheckGameOver
  <2>2. over.phase = "GAME_OVER"
    BY <2>1, GameEnded
  <2>3. Games!NextRound(e) = over
    BY <2>2 DEF Games!NextRound
  <2>4. QED BY <2>1, <2>3, <1>3, <1>5
<1>6. CASE WolvesLeft(e) > 0 /\ ~(WolvesLeft(e) >= GoodLeft(e))
  <2>1. over = e
    BY <1>1, <1>6 DEF Games!CheckGameOver
  <2>2. CASE e.round = MaxRounds
    <3>1. Games!NextRound(e) = Games!Ended(late, "wolf")
      BY <2>1, <2>2 DEF Games!NextRound
    <3>2. late.round > MaxRounds
      BY <2>2, <1>2 DEF Game
    <3>3. QED BY <3>1, <3>2, <1>3
  <2>3. CASE e.round # MaxRounds
    <3>1. Games!NextRound(e) = next
      BY <2>1, <2>3 DEF Games!NextRound
    <3> HIDE DEF later
    <3>7. later \in Nat
      BY <1>2 DEF later
    <3>2. /\ next \in Game /\ next.phase = "NIGHT_WOLF" /\ next.round = later
          /\ next.steps = e.steps /\ next.alive = e.alive /\ next.kill = e.kill
          /\ next.winner = e.winner /\ next.error = e.error /\ next.obeyed = e.obeyed
      BY <3>7 DEF Game, GamePhases
    <3> HIDE DEF next
    <3> USE DEF later
    <3>3. Playable(next)
      BY <3>2, <1>2, <2>3 DEF Playable
    <3>4. InTime(next)
      <4>1. next.round - 1 = e.round /\ StepsInto(next) = 0
        BY <3>2, <1>2 DEF StepsInto
      <4>2. QED BY <4>1, <3>2, <1>2 DEF InTime
    <3>5. SomeLeft(next)
      BY <3>2 DEF SomeLeft, WolvesLeft, GoodLeft
    <3>6. QED BY <3>1, <3>2, <3>3, <3>4, <3>5 DEF Handed, Going
  <2>4. QED BY <2>2, <2>3
<1>7. QED BY <1>1, <1>4, <1>5, <1>6

(* What every handler leaves alone, and a step further in the round. *)
Same(y, d) ==
  /\ y.round = d.round /\ y.steps = d.steps /\ y.winner = d.winner
  /\ y.error = d.error /\ y.obeyed = d.obeyed

LEMMA Onward ==
  ASSUME NEW d, Stepped(d), NEW y \in Game, Same(y, d), SomeLeft(y),
         y.phase \notin {"SYNC", "GAME_OVER"}, y.kill \notin Wolves,
         y.phase = "DAY_SPEAK" => y.to_speak \subseteq y.alive /\ y.speaker \in y.to_speak,
         y.phase = "DAY_VOTE" => y.vote_round \in 1..VoteMaxRounds,
         y.phase = "DAY_LAST_WORDS" => y.last_words \in Roles \ y.alive,
         IF d.phase = "SYNC" THEN StepsInto(y) >= 0 ELSE StepsInto(y) >= StepsInto(d) + 1
  PROVE  Handed(y) /\ y.obeyed = d.obeyed
<1>1. d \in Game /\ Playable(d)
  BY DEF Stepped
<1>2. Playable(y)
  BY <1>1 DEF Same, Playable
<1>3. InTime(y)
  <2>1. /\ StepsUpTo(y.round - 1) \in Int /\ StepsInto(y) \in Int /\ StepsInto(d) \in Int
        /\ y.steps \in Nat /\ y.round = d.round /\ y.steps = d.steps
    BY <1>1, IntoARound DEF Same, Game
  <2>2. CASE d.phase = "SYNC"
    <3>1. StepsUpTo(y.round - 1) = 1 /\ y.steps = 1
      BY <2>1, <2>2, GameConstants DEF Stepped, StepsUpTo, RoundSteps
    <3>2. QED BY <2>1, <2>2, <3>1 DEF InTime
  <2>3. CASE d.phase # "SYNC"
    <3>1. d.steps <= StepsUpTo(d.round - 1) + StepsInto(d) + 1
      BY <2>3 DEF Stepped
    <3>2. QED BY <2>1, <2>3, <3>1 DEF InTime
  <2>4. QED BY <2>2, <2>3
<1>4. Handed(y)
  BY <1>2, <1>3 DEF Handed, Going
<1>5. y.obeyed = d.obeyed
  BY DEF Same
<1>6. QED BY <1>4, <1>5

LEMMA SyncHanded ==
  ASSUME NEW d, Stepped(d), d.phase = "SYNC", NEW acts, NEW y \in Games!Handled(d, acts)
  PROVE  Handed(y) /\ y.obeyed = d.obeyed
<1>1. y = [d EXCEPT !.phase = "NIGHT_WOLF"] /\ d \in Game
  BY DEF Games!Handled, Stepped
<1>2. /\ y \in Game /\ Same(y, d) /\ y.phase = "NIGHT_WOLF" /\ y.kill = d.kill /\ y.alive = d.alive
  BY <1>1 DEF Game, GamePhases, Same
<1>3. SomeLeft(y) /\ y.kill \notin Wolves /\ StepsInto(y) = 0
  BY <1>2 DEF Stepped, Even, SomeLeft, WolvesLeft, GoodLeft, Playable, StepsInto
<1>4. QED BY <1>2, <1>3, Onward

(* No wolf has named a victim, which is their fault unless all of them     *)
(* have named a living wolf.                                               *)
Friendly(d, acts) ==
  \A w \in d.alive \cap Wolves : acts[w].action = "kill" /\ acts[w].target \in d.alive \cap Wolves
Unkilled(d, acts, y) ==
  /\ y = Games!Error(d, IF Friendly(d, acts) THEN "wolves only" ELSE "no kill")
  /\ \A w \in d.alive \cap Wolves :
       acts[w].action = "kill" => acts[w].target \notin d.alive \ Wolves

LEMMA NightWolfHanded ==
  ASSUME NEW d, Stepped(d), d.phase = "NIGHT_WOLF", NEW acts, NEW y \in Games!Handled(d, acts)
  PROVE  \/ Handed(y) /\ y.obeyed = d.obeyed
         \/ Unkilled(d, acts, y)
<1> DEFINE targets == {acts[w].target : w \in {v \in d.alive \cap Wolves : acts[v].action = "kill"}}
                        \cap (d.alive \ Wolves)
<1>1. y \in Games!NightWolf(d, acts) /\ d \in Game
  BY DEF Games!Handled, Stepped
<1>2. CASE targets = {}
  <2>1. y = Games!Error(d, IF Friendly(d, acts) THEN "wolves only" ELSE "no kill")
    BY <1>1, <1>2 DEF Games!NightWolf, Friendly
  <2>2. \A w \in d.alive \cap Wolves :
          acts[w].action = "kill" => acts[w].target \notin d.alive \ Wolves
    BY <1>2
  <2>3. QED BY <2>1, <2>2 DEF Unkilled
<1>3. CASE targets # {}
  <2>1. PICK t \in targets : y = [d EXCEPT !.kill = t, !.phase = "NIGHT_WITCH"]
    BY <1>1, <1>3 DEF Games!NightWolf
  <2>2. t \in Someone /\ t \notin Wolves
    BY <1>1 DEF Game, Someone
  <2> HIDE DEF targets
  <2>3. /\ y \in Game /\ Same(y, d) /\ y.phase = "NIGHT_WITCH" /\ y.kill = t /\ y.alive = d.alive
    BY <1>1, <2>1, <2>2 DEF Game, GamePhases, Same
  <2>4. SomeLeft(y) /\ StepsInto(y) = 1 /\ StepsInto(d) = 0
    BY <2>3 DEF Stepped, Even, SomeLeft, WolvesLeft, GoodLeft, StepsInto
  <2>5. QED BY <2>2, <2>3, <2>4, Onward
<1>4. QED BY <1>2, <1>3

LEMMA NightWitchHanded ==
  ASSUME NEW d, Stepped(d), d.phase = "NIGHT_WITCH", NEW acts, NEW y \in Games!Handled(d, acts)
  PROVE  Handed(y) /\ y.obeyed = d.obeyed
<1> DEFINE act == acts[Witch]
           saves == Witch \in d.alive /\ act.action = "save" /\ d.has_save
           poisons == Witch \in d.alive /\ act.action = "poison" /\ d.has_poison
                        /\ act.target \in d.alive \ {Witch}
           hasSave == d.has_save /\ ~saves
           hasPoison == d.has_poison /\ ~poisons
           target == IF poisons THEN act.target ELSE Nobody
           x == [d EXCEPT !.saved = saves, !.has_save = hasSave, !.poison = target,
                          !.has_poison = hasPoison, !.phase = "NIGHT_SEER"]
<1>1. y = x /\ d \in Game
  BY DEF Games!Handled, Games!NightWitch, Stepped
<1>2. saves \in BOOLEAN /\ hasSave \in BOOLEAN /\ hasPoison \in BOOLEAN
  OBVIOUS
<1>3. target \in Someone
  BY <1>1 DEF Game, Someone
<1> HIDE DEF saves, poisons, hasSave, hasPoison, target
<1>4. y \in Game
  BY <1>1, <1>2, <1>3 DEF Game, GamePhases
<1>5. Same(y, d) /\ y.phase = "NIGHT_SEER" /\ y.kill = d.kill /\ y.alive = d.alive
  BY <1>1 DEF Game, Same
<1>6. SomeLeft(y) /\ y.kill \notin Wolves /\ StepsInto(y) = 2 /\ StepsInto(d) = 1
  BY <1>5 DEF Stepped, Even, SomeLeft, WolvesLeft, GoodLeft, Playable, StepsInto
<1>7. QED BY <1>4, <1>5, <1>6, Onward

(* Of the good at most the wolves' victim dies in a night that leaves no   *)
(* wolf: the poison was for the last one.                                  *)
LEMMA NightSeerHanded ==
  ASSUME NEW d, Stepped(d), d.phase = "NIGHT_SEER", NEW acts, NEW y \in Games!Handled(d, acts)
  PROVE  Handed(y) /\ y.obeyed = d.obeyed
<1> DEFINE dead == {d.poison} \cup (IF d.saved THEN {} ELSE {d.kill})
           left == d.alive \ dead
           x == [d EXCEPT !.alive = left, !.kill = Nobody, !.saved = FALSE, !.poison = Nobody,
                          !.phase = "DAY_ANNOUNCE"]
<1>1. y = x /\ d \in Game
  BY DEF Games!Handled, Games!NightSeer, Stepped
<1>2. left \in SUBSET Roles /\ Nobody \in Someone /\ Nobody \notin Wolves
  BY <1>1, GameConstants DEF Game, Someone
<1>3. SomeLeft(x)
  <2>1. d.alive \in SUBSET Roles /\ d.kill \notin Wolves
    BY <1>1 DEF Game, Stepped, Playable
  <2>2. /\ IsFiniteSet(d.alive \cap Games!Good)
        /\ Cardinality(d.alive \cap Games!Good) > 1 /\ d.alive \cap Wolves # {}
    <3>1. WolvesLeft(d) \in Nat /\ GoodLeft(d) \in Nat /\ IsFiniteSet(d.alive \cap Games!Good)
          /\ (WolvesLeft(d) = 0 <=> d.alive \cap Wolves = {})
      BY <2>1, LeftCounted
    <3>2. QED BY <3>1 DEF Stepped, Even, GoodLeft
  <2>3. x.alive = left
    BY <1>1 DEF Game
  <2>4. ASSUME left \cap Wolves = {} PROVE left \cap Games!Good # {}
    <3>1. d.poison \in Wolves
      BY <2>1, <2>2, <2>4
    <3>2. (d.alive \cap Games!Good) \ {d.kill} \subseteq left \cap Games!Good
      BY <3>1 DEF Games!Good
    <3>3. (d.alive \cap Games!Good) \ {d.kill} # {}
      BY <2>2, FS_RemoveElement, FS_EmptySet, FS_CardinalityType
    <3>4. QED BY <3>2, <3>3
  <2>5. /\ WolvesLeft(x) = 0 <=> left \cap Wolves = {}
        /\ GoodLeft(x) = 0 <=> left \cap Games!Good = {}
        /\ GoodLeft(x) \in Nat
    BY <1>2, <2>3, LeftCounted
  <2> HIDE DEF x, left
  <2>6. QED BY <2>4, <2>5 DEF SomeLeft
<1> HIDE DEF left
<1>4. y \in Game
  BY <1>1, <1>2 DEF Game, GamePhases
<1>5. Same(y, d) /\ y.phase = "DAY_ANNOUNCE" /\ y.kill = Nobody
  BY <1>1 DEF Game, Same
<1>6. StepsInto(y) = 3 /\ StepsInto(d) = 2
  BY <1>5 DEF StepsInto
<1>7. SomeLeft(y) /\ y.kill \notin Wolves
  BY <1>1, <1>2, <1>3, <1>5
<1> HIDE DEF x
<1>8. QED BY <1>4, <1>5, <1>6, <1>7, Onward

LEMMA DayAnnounceHanded ==
  ASSUME NEW d, Stepped(d), d.phase = "DAY_ANNOUNCE", NEW acts, NEW y \in Games!Handled(d, acts)
  PROVE  Handed(y) /\ y.obeyed = d.obeyed
<1>1. d \in Game /\ d.alive \in SUBSET Roles
  BY DEF Stepped, Game
<1>2. PICK s \in d.alive : y = [d EXCEPT !.to_speak = d.alive, !.speaker = s, !.phase = "DAY_SPEAK"]
  BY DEF Games!Handled, Games!DayAnnounce
<1>3. s \in Someone
  BY <1>1 DEF Someone
<1>4. /\ y \in Game /\ Same(y, d) /\ y.phase = "DAY_SPEAK" /\ y.kill = d.kill
      /\ y.alive = d.alive /\ y.to_speak = d.alive /\ y.speaker = s
  BY <1>1, <1>2, <1>3 DEF Game, GamePhases, Same
<1>5. SomeLeft(y) /\ y.kill \notin Wolves
  BY <1>4 DEF Stepped, Even, SomeLeft, WolvesLeft, GoodLeft, Playable
<1>6. StepsInto(y) >= 4 /\ StepsInto(d) = 3
  <2>1. Cardinality(d.alive) \in Nat /\ Cardinality(Roles) \in Nat
        /\ Cardinality(d.alive) <= Cardinality(Roles)
    BY <1>1, LeftCounted
  <2>2. QED BY <2>1, <1>4 DEF StepsInto
<1>7. QED BY <1>4, <1>5, <1>6, Onward

LEMMA DaySpeakHanded ==
  ASSUME NEW d, Stepped(d), d.phase = "DAY_SPEAK", NEW acts, NEW y \in Games!Handled(d, acts)
  PROVE  Handed(y) /\ y.obeyed = d.obeyed
<1> DEFINE left == d.to_speak \ {d.speaker}
           noVotes == [a \in Roles |-> Nobody]
<1>1. d \in Game /\ d.to_speak \in SUBSET Roles /\ d.speaker \in d.to_speak /\ d.to_speak \subseteq d.alive
  BY DEF Stepped, Game, Playable
<1>2. /\ Cardinality(d.to_speak) \in Nat /\ Cardinality(Roles) \in Nat
      /\ Cardinality(left) = Cardinality(d.to_speak) - 1
      /\ left = {} => Cardinality(left) = 0
  BY <1>1, GameConstants, FS_Subset, FS_CardinalityType, FS_RemoveElement, FS_EmptySet
<1>3. StepsInto(d) = 4 + Cardinality(Roles) - Cardinality(d.to_speak)
  BY DEF StepsInto
<1>4. y \in Games!DaySpeak(d)
  BY DEF Games!Handled
<1>5. CASE left # {}
  <2>1. PICK s \in left : y = [d EXCEPT !.to_speak = left, !.speaker = s]
    BY <1>4, <1>5 DEF Games!DaySpeak
  <2>2. s \in Someone /\ left \in SUBSET Roles /\ left \subseteq d.alive
    BY <1>1 DEF Someone
  <2> HIDE DEF left
  <2>3. /\ y \in Game /\ Same(y, d) /\ y.phase = "DAY_SPEAK" /\ y.kill = d.kill
        /\ y.alive = d.alive /\ y.to_speak = left /\ y.speaker = s
    BY <1>1, <2>1, <2>2 DEF Game, GamePhases, Same
  <2>4. SomeLeft(y) /\ y.kill \notin Wolves
    BY <2>3 DEF Stepped, Even, SomeLeft, WolvesLeft, GoodLeft, Playable
  <2>5. StepsInto(y) >= StepsInto(d) + 1
    BY <1>2, <1>3, <2>3 DEF StepsInto
  <2>6. QED BY <2>1, <2>2, <2>3, <2>4, <2>5, Onward
<1>6. CASE left = {}
  <2>1. y = [d EXCEPT !.to_speak = {}, !.speaker = Nobody, !.vote_round = 1,
                      !.votes = noVotes, !.phase = "DAY_VOTE"]
    BY <1>4, <1>6 DEF Games!DaySpeak, Roles
  <2>2. noVotes \in [Roles -> Someone] /\ Nobody \in Someone
    BY DEF Someone
  <2> HIDE DEF left, noVotes
  <2>3. /\ y \in Game /\ Same(y, d) /\ y.phase = "DAY_VOTE" /\ y.kill = d.kill
        /\ y.alive = d.alive /\ y.vote_round = 1
    BY <1>1, <2>1, <2>2 DEF Game, GamePhases, Same
  <2>4. SomeLeft(y) /\ y.kill \notin Wolves
    BY <2>3 DEF Stepped, Even, SomeLeft, WolvesLeft, GoodLeft, Playable
  <2>5. StepsInto(y) >= StepsInto(d) + 1
    BY <1>2, <1>3, <1>6, <2>3 DEF StepsInto
  <2>6. y.vote_round \in 1..VoteMaxRounds
    BY <2>3, GameConstants
  <2>7. QED BY <2>3, <2>4, <2>5, <2>6, Onward
<1>7. QED BY <1>5, <1>6

LEMMA DayVoteHanded ==
  ASSUME env \in Game, NEW d, Stepped(d), d.phase = "DAY_VOTE", NEW acts, NEW y \in Games!Handled(d, acts)
  PROVE  Handed(y) /\ y.obeyed = d.obeyed
<1> DEFINE votes == [a \in Roles |->
                       IF a \in d.alive /\ Games!ValidVote(a, acts[a]) THEN acts[a].target ELSE d.votes[a]]
           e == [d EXCEPT !.votes = votes]
<1>1. d \in Game /\ d.alive \in SUBSET Roles /\ d.vote_round \in 1..VoteMaxRounds /\ VoteMaxRounds \in Nat
      /\ d.votes \in [Roles -> Someone]
  BY GameConstants DEF Stepped, Game, Playable
<1>2. votes \in [Roles -> Someone]
  <2>1. ASSUME NEW a \in Roles, Games!ValidVote(a, acts[a]) PROVE acts[a].target \in Someone
    <3>1. env.alive \in SUBSET Roles
      BY DEF Game
    <3>2. QED BY <2>1, <3>1 DEF Games!ValidVote, Games!Others, Someone
  <2>2. QED BY <1>1, <2>1
<1>3. \/ y \in Games!ResolveVotes(e)
      \/ d.vote_round < VoteMaxRounds /\ y = [e EXCEPT !.vote_round = @ + 1]
  <2>1. y \in Games!DayVote(d, acts)
    BY DEF Games!Handled
  <2>2. QED BY <2>1, <1>1 DEF Games!DayVote, Roles
<1> HIDE DEF votes
<1>4. /\ e \in Game /\ Same(e, d) /\ e.phase = "DAY_VOTE" /\ e.kill = d.kill
      /\ e.alive = d.alive /\ e.vote_round = d.vote_round
  BY <1>1, <1>2 DEF Game, Same
<1> HIDE DEF e
<1>5. StepsInto(d) = 3 + Cardinality(Roles) + d.vote_round /\ Cardinality(Roles) \in Nat
  BY GameConstants DEF StepsInto
<1>6. CASE d.vote_round < VoteMaxRounds /\ y = [e EXCEPT !.vote_round = @ + 1]
  <2> DEFINE n == e.vote_round + 1
  <2>1. n \in Nat /\ n \in 1..VoteMaxRounds /\ n = d.vote_round + 1
    BY <1>1, <1>4, <1>6
  <2> HIDE DEF n
  <2>2. y = [e EXCEPT !.vote_round = n]
    BY <1>6 DEF n
  <2>3. /\ y \in Game /\ Same(y, d) /\ y.phase = "DAY_VOTE" /\ y.kill = d.kill
        /\ y.alive = d.alive /\ y.vote_round = n
    BY <1>4, <2>1, <2>2 DEF Game, Same
  <2>4. SomeLeft(y) /\ y.kill \notin Wolves
    BY <2>3 DEF Stepped, Even, SomeLeft, WolvesLeft, GoodLeft, Playable
  <2>5. StepsInto(y) >= StepsInto(d) + 1
    BY <1>1, <1>5, <2>1, <2>3 DEF StepsInto
  <2>6. QED BY <2>1, <2>3, <2>4, <2>5, Onward
<1>7. ASSUME y = Games!NextRound([e EXCEPT !.last_words = Nobody]) PROVE Handed(y) /\ y.obeyed = d.obeyed
  <2> DEFINE f == [e EXCEPT !.last_words = Nobody]
  <2>1. /\ f \in Game /\ Same(f, d) /\ f.phase = "DAY_VOTE" /\ f.kill = d.kill /\ f.alive = d.alive
    BY <1>4 DEF Game, Same, Someone
  <2> HIDE DEF f
  <2>2. SomeLeft(f)
    BY <2>1 DEF Stepped, Even, SomeLeft, WolvesLeft, GoodLeft
  <2>3. /\ f.winner = "none" /\ f.error = "fine" /\ f.round \in 1..MaxRounds /\ f.kill \notin Wolves
        /\ f.steps <= StepsUpTo(f.round) /\ f.obeyed = d.obeyed
    BY <2>1 DEF Stepped, Playable, Same
  <2>4. QED BY <1>7, <2>1, <2>2, <2>3, NextRoundHanded DEF f
<1>8. ASSUME NEW t \in e.alive, y = [e EXCEPT !.alive = @ \ {t}, !.last_words = t, !.phase = "DAY_LAST_WORDS"]
      PROVE  Handed(y) /\ y.obeyed = d.obeyed
  <2> DEFINE left == e.alive \ {t}
  <2>1. left \in SUBSET Roles /\ t \in Roles /\ t \in Someone /\ t \notin left
    BY <1>1, <1>4, <1>8 DEF Someone
  <2>2. y = [e EXCEPT !.alive = left, !.last_words = t, !.phase = "DAY_LAST_WORDS"]
    BY <1>8
  <2> HIDE DEF left
  <2>3. /\ y \in Game /\ Same(y, d) /\ y.phase = "DAY_LAST_WORDS" /\ y.kill = d.kill
        /\ y.alive = left /\ y.last_words = t
    BY <1>4, <2>1, <2>2 DEF Game, GamePhases, Same
  <2>4. SomeLeft(y)
    <3>1. /\ WolvesLeft(d) = 0 <=> d.alive \cap Wolves = {}
          /\ GoodLeft(d) = 0 <=> d.alive \cap Games!Good = {}
          /\ WolvesLeft(y) = 0 <=> left \cap Wolves = {}
          /\ GoodLeft(y) = 0 <=> left \cap Games!Good = {}
          /\ WolvesLeft(d) \in Nat /\ GoodLeft(d) \in Nat /\ GoodLeft(y) \in Nat
      BY <1>1, <2>1, <2>3, LeftCounted
    <3>2. d.alive \cap Wolves # {} /\ d.alive \cap Games!Good # {}
      BY <3>1 DEF Stepped, Even
    <3>3. left = d.alive \ {t}
      BY <1>4 DEF left
    <3>4. left \cap Wolves = {} => left \cap Games!Good # {}
      BY <3>2, <3>3 DEF Games!Good
    <3>5. QED BY <3>1, <3>4 DEF SomeLeft
  <2>5. y.kill \notin Wolves /\ y.last_words \in Roles \ y.alive
    BY <2>1, <2>3 DEF Stepped, Playable
  <2>6. StepsInto(y) >= StepsInto(d) + 1
    BY <1>1, <1>5, <2>3 DEF StepsInto
  <2>7. QED BY <2>3, <2>4, <2>5, <2>6, Onward
<1>9. CASE y \in Games!ResolveVotes(e)
  <2>1. \/ y = Games!NextRound([e EXCEPT !.last_words = Nobody])
        \/ \E t \in e.alive : y = [e EXCEPT !.alive = @ \ {t}, !.last_words = t, !.phase = "DAY_LAST_WORDS"]
    BY <1>9 DEF Games!ResolveVotes
  <2>2. QED BY <2>1, <1>7, <1>8
<1>10. QED BY <1>3, <1>6, <1>9

LEMMA DayLastWordsHanded ==
  ASSUME NEW d, Stepped(d), d.phase = "DAY_LAST_WORDS", NEW acts, NEW y \in Games!Handled(d, acts)
  PROVE  Handed(y) /\ y.obeyed = d.obeyed
<1>1. y = Games!NextRound(d) /\ d \in Game
  BY DEF Games!Handled, Stepped
<1>2. SomeLeft(d)
  BY <1>1, LeftCounted DEF Stepped, Even, SomeLeft, Game
<1>3. /\ d.winner = "none" /\ d.error = "fine" /\ d.round \in 1..MaxRounds /\ d.kill \notin Wolves
      /\ d.steps <= StepsUpTo(d.round) /\ d.phase # "GAME_OVER"
  BY DEF Stepped, Playable
<1>4. QED BY <1>1, <1>2, <1>3, NextRoundHanded

LEMMA HandledRight ==
  ASSUME env \in Game, NEW d, Stepped(d), NEW acts, NEW y \in Games!Handled(d, acts)
  PROVE  \/ Handed(y) /\ y.obeyed = d.obeyed
         \/ Unkilled(d, acts, y) /\ d.phase = "NIGHT_WOLF"
<1>1. d.phase \in GamePhases /\ d.phase # "GAME_OVER"
  BY DEF Stepped, Game, Playable
<1>2. QED
  BY <1>1, SyncHanded, NightWolfHanded, NightWitchHanded, NightSeerHanded, DayAnnounceHanded,
     DaySpeakHanded, DayVoteHanded, DayLastWordsHanded DEF GamePhases

LEMMA GameError ==
  ASSUME NEW d, Stepped(d), NEW reason \in Faults \ {"fine"}
  PROVE  LET x == Games!Error(d, reason)
         IN /\ x \in Game /\ Over(x) /\ x.error = reason /\ x.obeyed = d.obeyed
            /\ x.has_save = d.has_save /\ x.has_poison = d.has_poison
<1> DEFINE e == Games!Ended(d, "none")
           x == [e EXCEPT !.error = reason]
<1>1. /\ e \in Game /\ e.phase = "GAME_OVER" /\ e.winner = "none" /\ e.steps = d.steps
      /\ e.obeyed = d.obeyed
  BY GameEnded DEF Stepped
<1>2. Games!Error(d, reason) = x
  BY DEF Games!Error, Games!NoWinner
<1>6. e.has_save = d.has_save /\ e.has_poison = d.has_poison
  BY DEF Games!Ended, Stepped, Game
<1> HIDE DEF e
<1>3. /\ x \in Game /\ x.phase = "GAME_OVER" /\ x.winner = "none" /\ x.steps = d.steps
      /\ x.obeyed = d.obeyed /\ x.error = reason /\ x.has_save = d.has_save /\ x.has_poison = d.has_poison
  BY <1>1, <1>6 DEF Game
<1> HIDE DEF x
<1>4. d.steps <= StepsUpTo(MaxRounds)
  <2>1. /\ d.round - 1 \in Nat /\ d.round - 1 < MaxRounds /\ MaxRounds \in Nat /\ d.steps \in Nat
        /\ d.round - 1 + 1 = d.round
    BY GameConstants DEF Stepped, Playable, Game
  <2>2. StepsUpTo(d.round) <= StepsUpTo(MaxRounds)
    BY <2>1, RoundsAddUp
  <2>3. StepsUpTo(d.round) \in Int /\ StepsUpTo(MaxRounds) \in Int
    BY <2>1, GameConstants DEF StepsUpTo, RoundSteps
  <2>4. QED BY <2>1, <2>2, <2>3 DEF Stepped
<1>5. QED BY <1>2, <1>3, <1>4 DEF Over

(* Who does as asked is not refused, but for a potion that is spent. *)
LEMMA AskedIsValid ==
  ASSUME env \in Game, Going(env), NEW acts, \A a \in Roles : acts[a] \in Games!Asked(a),
         ~Games!SpentPotion(acts[Witch])
  PROVE  ~Games!Invalid(acts)
<1> USE DEF Games!Call, Games!CallOn
<1>1. SUFFICES ASSUME NEW a \in Roles
               PROVE /\ acts[a] # Games!Missing
                     /\ ~Games!Alive(a) /\ ~Games!LastWords(a) => acts[a].action = "connection"
                     /\ Games!Alive(a) \/ Games!LastWords(a) => Games!ValidName(a, acts[a].action)
                     /\ ~Games!ForcedVoteInvalid(a, acts[a])
  BY DEF Games!Invalid, Roles
<1> DEFINE act == acts[a]
<1>2. act \in Games!Asked(a)
  OBVIOUS
<1>3. Games!LastWords(a) => ~Games!Alive(a)
  BY DEF Games!LastWords, Games!Alive, Going, Playable
<1> HIDE DEF act
<1>4. ASSUME act = [action |-> "connection", target |-> Nobody], env.phase # "DAY_VOTE" \/ ~Games!Alive(a)
      PROVE  /\ act # Games!Missing /\ act.action = "connection"
             /\ Games!Alive(a) \/ Games!LastWords(a) => Games!ValidName(a, act.action)
             /\ ~Games!ForcedVoteInvalid(a, act)
  BY <1>4 DEF Games!Missing, Games!ValidName, Games!ForcedVoteInvalid, Games!LastWords
<1>5. CASE ~Games!Alive(a) /\ ~Games!LastWords(a)
  <2>1. act = [action |-> "connection", target |-> Nobody]
    BY <1>2, <1>5 DEF Games!Asked
  <2>2. QED BY <2>1, <1>4, <1>5 DEF act
<1>6. CASE Games!LastWords(a)
  <2>1. act = [action |-> "speak", target |-> Nobody]
    BY <1>2, <1>6, <1>3 DEF Games!Asked, Games!LastWords
  <2>2. env.phase = "DAY_LAST_WORDS"
    BY <1>6 DEF Games!LastWords
  <2>3. QED
    BY <2>1, <2>2, <1>6 DEF Games!Missing, Games!ValidName, Games!ForcedVoteInvalid, act
<1>7. CASE Games!Alive(a)
  <2>1. CASE env.phase = "NIGHT_WOLF" /\ a \in Wolves
    <3>1. act.action = "kill"
      BY <1>2, <1>3, <1>7, <2>1 DEF Games!Asked
    <3>2. QED BY <3>1, <1>7, <2>1 DEF Games!Missing, Games!ValidName, Games!ForcedVoteInvalid, act
  <2>2. CASE env.phase = "NIGHT_WITCH" /\ a = Witch
    <3>1. \/ act = [action |-> "connection", target |-> Nobody]
          \/ act.action = "save" /\ env.has_save
          \/ act.action = "poison" /\ env.has_poison
      BY <1>2, <1>3, <1>7, <2>2 DEF Games!Asked, Games!WitchChoice, Games!SpentPotion, act
    <3>2. QED BY <3>1, <1>4, <1>7, <2>2 DEF Games!Missing, Games!ValidName, Games!ForcedVoteInvalid, act
  <2>3. CASE env.phase = "NIGHT_SEER" /\ a = Seer
    <3>1. act.action = "check"
      BY <1>2, <1>3, <1>7, <2>3 DEF Games!Asked
    <3>2. QED BY <3>1, <1>7, <2>3 DEF Games!Missing, Games!ValidName, Games!ForcedVoteInvalid, act
  <2>4. CASE env.phase = "DAY_SPEAK" /\ a = env.speaker
    <3>1. act.action = "speak"
      BY <1>2, <1>3, <1>7, <2>4 DEF Games!Asked
    <3>2. QED BY <3>1, <1>7, <2>4 DEF Games!Missing, Games!ValidName, Games!ForcedVoteInvalid, act
  <2>5. CASE env.phase = "DAY_VOTE"
    <3>1. \/ act.action = "vote" /\ act.target \in Games!Others(a)
          \/ /\ act.action \in {"connection", "vote"}
             /\ ~(Games!FinalRound /\ ~Games!FirstDay /\ ~Games!HasVoted(a))
      BY <1>2, <1>3, <1>7, <2>5 DEF Games!Asked, Games!VoteChoice
    <3>2. QED
      BY <3>1, <1>7, <2>5 DEF Games!Missing, Games!ValidName, Games!ForcedVoteInvalid, Games!ValidVote, act
  <2>6. CASE /\ ~(env.phase = "NIGHT_WOLF" /\ a \in Wolves) /\ ~(env.phase = "NIGHT_WITCH" /\ a = Witch)
             /\ ~(env.phase = "NIGHT_SEER" /\ a = Seer) /\ ~(env.phase = "DAY_SPEAK" /\ a = env.speaker)
             /\ env.phase # "DAY_VOTE"
    <3>1. act = [action |-> "connection", target |-> Nobody]
      BY <1>2, <1>3, <1>7, <2>6 DEF Games!Asked
    <3>2. QED BY <3>1, <1>4, <2>6 DEF act
  <2>7. QED BY <2>1, <2>2, <2>3, <2>4, <2>5, <2>6
<1>8. QED BY <1>5, <1>6, <1>7

LEMMA ActionsApplied ==
  ASSUME env \in Game, Going(env), Even(env), NEW acts, NEW obeyed \in BOOLEAN,
         obeyed => \A a \in Roles : acts[a] \in Games!Asked(a),
         Games!ApplyActions(acts, obeyed)
  PROVE  GameInv(env')
<1> DEFINE d == [env EXCEPT !.steps = @ + 1, !.obeyed = @ /\ obeyed]
           reason == IF Games!SpentPotion(acts[Witch]) THEN "spent potion" ELSE "refused"
           after == IF Games!Invalid(acts) THEN {Games!Error(d, reason)}
                    ELSE {IF x.error # Games!Fine THEN x ELSE Games!CheckGameOver(x) : x \in Games!Handled(d, acts)}
<1>1. env' \in after
  BY DEF Games!ApplyActions, Games!Applied
<1>2. /\ Stepped(d) /\ d.phase = env.phase /\ d.obeyed = (env.obeyed /\ obeyed) /\ d.alive = env.alive
      /\ d.has_save = env.has_save /\ d.has_poison = env.has_poison
  <2>1. Stepped(d) /\ d.phase = env.phase /\ d.obeyed = (env.obeyed /\ obeyed)
    BY StepMade
  <2>2. d.alive = env.alive /\ d.has_save = env.has_save /\ d.has_poison = env.has_poison
    BY DEF Game
  <2>3. QED BY <2>1, <2>2
<1> HIDE DEF d
<1>3. ASSUME NEW r \in Faults \ {"fine"}, env' = Games!Error(d, r),
             obeyed => r \in {"spent potion", "wolves only"},
             r = "spent potion" => ~env.has_save \/ ~env.has_poison
      PROVE  GameInv(env')
  BY <1>2, <1>3, GameError DEF GameInv, Excused
<1>4. CASE Games!Invalid(acts)
  <2>1. obeyed => Games!SpentPotion(acts[Witch])
    BY <1>4, AskedIsValid
  <2>2. Games!SpentPotion(acts[Witch]) => ~env.has_save \/ ~env.has_poison
    BY DEF Games!SpentPotion
  <2>3. env' = Games!Error(d, reason) /\ reason \in Faults \ {"fine"}
    BY <1>1, <1>4 DEF Faults
  <2>4. (obeyed => reason \in {"spent potion", "wolves only"}) /\ (reason = "spent potion" => ~env.has_save \/ ~env.has_poison)
    BY <2>1, <2>2
  <2> HIDE DEF reason
  <2>5. QED BY <2>3, <2>4, <1>3
<1>5. CASE ~Games!Invalid(acts)
  <2>1. PICK x \in Games!Handled(d, acts) : env' = IF x.error # "fine" THEN x ELSE Games!CheckGameOver(x)
    BY <1>1, <1>5 DEF Games!Fine
  <2> HIDE DEF after
  <2>2. CASE Handed(x) /\ x.obeyed = d.obeyed
    <3>1. x.error = "fine"
      BY <2>2 DEF Handed, Going, Playable
    <3>2. env' = Games!CheckGameOver(x)
      BY <2>1, <3>1
    <3>3. QED BY <2>2, <3>2, CheckedGame DEF GameInv, Excused
  <2>3. CASE Unkilled(d, acts, x) /\ d.phase = "NIGHT_WOLF"
    <3> DEFINE r == IF Friendly(d, acts) THEN "wolves only" ELSE "no kill"
    <3>1. obeyed => Friendly(d, acts)
      <4>1. SUFFICES ASSUME obeyed, NEW w \in d.alive \cap Wolves
                     PROVE  acts[w].action = "kill" /\ acts[w].target \in d.alive \cap Wolves
        BY DEF Friendly
      <4>2. w \in Roles /\ w \in env.alive
        BY <1>2 DEF Game
      <4>3. acts[w] \in Games!CallOn("kill", env.alive)
        <5>1. acts[w] \in Games!Asked(w)
          BY <4>1, <4>2
        <5>2. Games!Alive(w) /\ ~Games!LastWords(w) /\ env.phase = "NIGHT_WOLF"
          BY <1>2, <2>3, <4>2 DEF Games!Alive, Games!LastWords
        <5>3. QED BY <5>1, <5>2, <4>1 DEF Games!Asked
      <4>4. acts[w].action = "kill" /\ acts[w].target \in d.alive
        BY <4>3, <1>2 DEF Games!CallOn
      <4>5. acts[w].target \notin d.alive \ Wolves
        BY <4>1, <4>4, <2>3 DEF Unkilled
      <4>6. QED BY <4>4, <4>5
    <3>2. x = Games!Error(d, r) /\ r \in Faults \ {"fine"} /\ (obeyed => r = "wolves only") /\ r # "spent potion"
      BY <2>3, <3>1 DEF Unkilled, Faults
    <3> HIDE DEF r
    <3>3. x.error = r
      BY <1>2, <3>2, GameError
    <3>4. QED BY <1>3, <2>1, <3>2, <3>3
  <2>4. QED BY <1>2, <2>2, <2>3, HandledRight
<1>6. QED BY <1>4, <1>5

LEMMA GameStep == ASSUME GameInv(env), Games!WerewolfNext PROVE GameInv(env')
<1>1. CASE env.phase = "GAME_OVER"
  <2>1. UNCHANGED env
    BY <1>1 DEF Games!WerewolfNext, Games!Play, Games!Misplay, Games!Interrupted
  <2>2. QED BY <2>1
<1>2. CASE env.phase # "GAME_OVER"
  <2>1. env \in Game /\ Going(env) /\ Even(env)
    BY <1>2 DEF GameInv, Over
  <2>2. CASE Games!Play
    <3> DEFINE asked == UNION {{a} \X Games!Asked(a) : a \in Roles}
    <3>1. PICK acts \in [Roles -> {c[2] : c \in asked}] :
            Games!ApplyActions(acts, TRUE) /\ \A a \in DOMAIN acts : <<a, acts[a]>> \in asked
      BY <2>2 DEF Games!Play, Roles
    <3>2. ASSUME NEW a \in Roles PROVE acts[a] \in Games!Asked(a)
      <4>1. <<a, acts[a]>> \in asked
        BY <3>1
      <4>2. QED BY <4>1
    <3> HIDE DEF asked
    <3>3. QED BY <2>1, <3>1, <3>2, ActionsApplied
  <2>3. ASSUME NEW a, NEW act, Games!Misplay(a, act) PROVE GameInv(env')
    <3>1. PICK acts : Games!ApplyActions(acts, FALSE)
      BY <2>3 DEF Games!Misplay
    <3>2. QED BY <2>1, <3>1, ActionsApplied
  <2>4. CASE Games!Interrupted(0)
    BY <2>4 DEF Games!Interrupted
  <2>5. QED BY <2>2, <2>3, <2>4 DEF Games!WerewolfNext
<1>3. QED BY <1>1, <1>2

LEMMA GameInit == ASSUME Games!WerewolfInit PROVE GameInv(env)
<1> DEFINE noVotes == [a \in Roles |-> Nobody]
<1>1. env = [phase |-> "SYNC", round |-> 1, steps |-> 0, alive |-> Roles, kill |-> Nobody,
            has_save |-> TRUE, has_poison |-> TRUE, saved |-> FALSE, poison |-> Nobody,
            to_speak |-> {}, speaker |-> Nobody, vote_round |-> 0,
            votes |-> noVotes, last_words |-> Nobody,
            winner |-> "none", error |-> "fine", obeyed |-> TRUE]
  BY DEF Games!WerewolfInit, Roles, Games!NoWinner, Games!Fine
<1>2. noVotes \in [Roles -> Someone] /\ Nobody \in Someone
  BY DEF Someone
<1> HIDE DEF noVotes
<1>3. env \in Game
  BY <1>1, <1>2 DEF Game, GamePhases, Faults
<1>4. Playable(env) /\ InTime(env)
  BY <1>1, GameConstants DEF Playable, InTime
<1>5. Even(env)
  <2>1. env.alive \cap Wolves = Wolves /\ env.alive \cap Games!Good = Games!Good
    BY <1>1, GameConstants DEF Games!Good, Roles
  <2>2. QED BY <2>1, GameConstants DEF Even, WolvesLeft, GoodLeft
<1>6. env.error = "fine"
  BY <1>1
<1>7. QED BY <1>3, <1>4, <1>5, <1>6 DEF GameInv, Going, Excused

LEMMA GameInvRight == ASSUME GameInv(env) PROVE Games!ObedienceIsSafe /\ Games!WinnerRight
<1>1. Games!ObedienceIsSafe
  BY DEF Games!ObedienceIsSafe, GameInv, Excused, Games!Fine
<1>2. /\ env \in Game /\ env.alive \in SUBSET Roles /\ env.steps \in Nat
      /\ env.phase # "GAME_OVER" => Going(env) /\ Even(env)
      /\ env.phase = "GAME_OVER" => Over(env)
  BY DEF GameInv, Game, Going, Playable, Over
<1>3. /\ Games!Cardinality(env.alive \cap Wolves) = WolvesLeft(env)
      /\ Games!Cardinality(env.alive \cap Games!Good) = GoodLeft(env)
      /\ Games!Cardinality(Games!Agents) = Cardinality(Roles)
  BY GamesCount DEF WolvesLeft, GoodLeft, Roles
<1>4. env.steps <= StepsUpTo(MaxRounds)
  <2>1. StepsUpTo(MaxRounds) \in Int
    BY GameConstants DEF StepsUpTo, RoundSteps
  <2>2. QED BY <1>2, <2>1, StepLeft DEF Over
<1>5. StepsUpTo(MaxRounds) = 1 + MaxRounds * (5 + VoteMaxRounds + Cardinality(Roles))
  BY DEF StepsUpTo, RoundSteps
<1> HIDE DEF StepsUpTo
<1>6. env.steps <= 1 + MaxRounds * (5 + VoteMaxRounds + Games!Cardinality(Games!Agents))
  BY <1>3, <1>4, <1>5
<1>7. /\ env.phase # "GAME_OVER" => 0 < WolvesLeft(env) /\ WolvesLeft(env) < GoodLeft(env)
      /\ env.winner = "good" => WolvesLeft(env) = 0 /\ GoodLeft(env) > 0
      /\ env.winner = "wolf" => WolvesLeft(env) >= GoodLeft(env) \/ env.round > MaxRounds
      /\ env.phase = "GAME_OVER" => (env.error # "fine" <=> env.winner = "none")
  BY <1>2 DEF Going, Playable, Over, Even
<1>8. Games!WinnerRight
  BY <1>3, <1>6, <1>7 DEF Games!WinnerRight, Games!NoWinner, Games!Fine
<1>9. QED BY <1>1, <1>8

-----------------------------------------------------------------------------
(* --- A case of any problem. --- *)

CaseInv ==
  \/ which = "maze" /\ MazeInv /\ MazeUnscored
  \/ which = "keyed_labyrinth" /\ LabyrinthInv /\ LabyrinthUnscored
  \/ which = "interrupt_judge" /\ JudgeInv
  \/ which = "log_hunter" /\ LogInv
  \/ which = "structured_output" /\ OutputUnscored
  \/ which = "ml_hyperparam_tuner" /\ TunerInv
  \/ which = "parallel_weather" /\ WeatherInv
  \/ which = "resilient_scraper" /\ ScraperInv
  \/ which = "short_circuit_scraper" /\ CircuitInv
  \/ which = "sports_shopping" /\ ShoppingInv
  \/ which = "tool_creator_challenge" /\ CreatorInv
  \/ which = "werewolf" /\ GameInv(env) /\ GameUnscored

LEMMA OutputStarts == ASSUME Outputs!OutputInit PROVE OutputUnscored
  BY DEF Outputs!OutputInit, Outputs!CaseInit, OutputUnscored, Unscored, Mazes!Verdicts, Mazes!CutShort

LEMMA GameStarts == ASSUME Games!WerewolfInit PROVE GameUnscored
  BY DEF Games!WerewolfInit, Games!CaseInit, GameUnscored, Unscored, Mazes!Verdicts, Mazes!CutShort

LEMMA CaseStarts == ASSUME Init PROVE CaseInv
  BY MazeMade, MazeStarts, LabyrinthPlanned, LabyrinthStarts, JudgeStarts, LogStarts, OutputStarts,
     TunerStarts, WeatherStarts, ScraperStarts, CircuitStarts, ShoppingStarts, CreatorStarts,
     GameInit, GameStarts
     DEF Init, CaseInv

LEMMA CaseGoesOn == ASSUME CaseInv, Next PROVE CaseInv'
<1>1. CASE which = "maze"
  BY <1>1, MazeStep, MazeGoesOn DEF CaseInv, Next
<1>2. CASE which = "keyed_labyrinth"
  BY <1>2, LabyrinthStep, LabyrinthGoesOn DEF CaseInv, Next
<1>3. CASE which = "interrupt_judge"
  BY <1>3, JudgeGoesOn DEF CaseInv, Next
<1>4. CASE which = "log_hunter"
  BY <1>4, LogGoesOn DEF CaseInv, Next
<1>5. CASE which = "structured_output"
  BY <1>5, OutputGoesOn DEF CaseInv, Next
<1>6. CASE which = "ml_hyperparam_tuner"
  BY <1>6, TunerGoesOn DEF CaseInv, Next
<1>7. CASE which = "parallel_weather"
  BY <1>7, WeatherGoesOn DEF CaseInv, Next
<1>8. CASE which = "resilient_scraper"
  BY <1>8, ScraperGoesOn DEF CaseInv, Next
<1>9. CASE which = "short_circuit_scraper"
  BY <1>9, CircuitGoesOn DEF CaseInv, Next
<1>10. CASE which = "sports_shopping"
  BY <1>10, ShoppingGoesOn DEF CaseInv, Next
<1>11. CASE which = "tool_creator_challenge"
  BY <1>11, CreatorGoesOn DEF CaseInv, Next
<1>12. CASE which = "werewolf"
  BY <1>12, GameStep, GameGoesOn DEF CaseInv, Next
<1>13. QED
  BY <1>1, <1>2, <1>3, <1>4, <1>5, <1>6, <1>7, <1>8, <1>9, <1>10, <1>11, <1>12 DEF CaseInv

LEMMA CaseStutters == ASSUME CaseInv, UNCHANGED <<env, verdict, score, which>> PROVE CaseInv'
<1> USE DEF Unscored
<1>1. MazeInv /\ MazeUnscored => (MazeInv /\ MazeUnscored)'
  BY DEF MazeInv, MazeUnscored
<1>2. LabyrinthInv /\ LabyrinthUnscored => (LabyrinthInv /\ LabyrinthUnscored)'
  BY DEF LabyrinthInv, LabyrinthUnscored
<1>3. JudgeInv => JudgeInv'
  BY DEF JudgeInv
<1>4. LogInv => LogInv'
  BY DEF LogInv
<1>5. OutputUnscored => OutputUnscored'
  BY DEF OutputUnscored
<1>6. TunerInv => TunerInv'
  BY DEF TunerInv, Tuners!TunerEarned
<1>7. WeatherInv => WeatherInv'
  BY DEF WeatherInv, Weathers!WeatherEarned, Weathers!InTime, Weathers!Restarted, Weathers!OnTheDot
<1>8. ScraperInv => ScraperInv'
  BY DEF ScraperInv
<1>9. CircuitInv => CircuitInv'
  BY DEF CircuitInv, Circuits!CascadeCaught, Circuits!Waiting
<1>10. ShoppingInv => ShoppingInv'
  BY DEF ShoppingInv, Shops!ShoppingEarned, Shops!Elapsed
<1>11. CreatorInv => CreatorInv'
  BY DEF CreatorInv
<1>12. GameInv(env) /\ GameUnscored => (GameInv(env) /\ GameUnscored)'
  BY DEF GameUnscored
<1>13. QED
  BY <1>1, <1>2, <1>3, <1>4, <1>5, <1>6, <1>7, <1>8, <1>9, <1>10, <1>11, <1>12 DEF CaseInv

LEMMA CasesSound == Spec => []CaseInv
<1>1. Init => CaseInv
  BY CaseStarts
<1>2. CaseInv /\ [Next]_<<env, verdict, score, which>> => CaseInv'
  BY CaseGoesOn, CaseStutters
<1>3. QED BY <1>1, <1>2, PTL DEF Spec

LEMMA CutShortUnscored == ASSUME CaseInv PROVE CutShortScoresNothing
<1>1. CASE which = "interrupt_judge"
  BY <1>1 DEF CaseInv, JudgeInv, CutShortScoresNothing, Mazes!CutShortScoresNothing
<1>2. CASE which # "interrupt_judge"
  <2>1. \E nothing \in BOOLEAN : Unscored(nothing)
    BY <1>2 DEF CaseInv, MazeUnscored, LabyrinthUnscored, LogInv, OutputUnscored, TunerInv, WeatherInv,
       ScraperInv, CircuitInv, ShoppingInv, CreatorInv, GameUnscored
  <2>2. QED BY <2>1 DEF Unscored, CutShortScoresNothing, Mazes!CutShortScoresNothing
<1>3. QED BY <1>1, <1>2

LEMMA PassesRight ==
  ASSUME CaseInv, which = "tool_creator_challenge" => Creators!SolversRight
  PROVE  PassEarned
<1>1. which = "interrupt_judge" => Interrupts!NobodyPasses
  BY DEF CaseInv, JudgeInv, Interrupts!NobodyPasses
<1>2. which = "log_hunter" => Logs!LogEarned
  BY HitsAreAll DEF CaseInv
<1>3. which = "ml_hyperparam_tuner" => Tuners!TunerEarned
  BY DEF CaseInv, TunerInv
<1>4. which = "parallel_weather" => Weathers!WeatherEarned
  BY DEF CaseInv, WeatherInv
<1>5. which = "resilient_scraper" => Scrapers!ScraperEarned
  BY ScraperRight DEF CaseInv
<1>6. which = "short_circuit_scraper" => Circuits!CascadeCaught
  BY DEF CaseInv, CircuitInv
<1>7. which = "sports_shopping" => Shops!ShoppingEarned
  BY DEF CaseInv, ShoppingInv
<1>8. which = "tool_creator_challenge" => Creators!CreatorEarned
  BY CreatorRight DEF CaseInv
<1>9. QED
  BY <1>1, <1>2, <1>3, <1>4, <1>5, <1>6, <1>7, <1>8 DEF PassEarned

(* A case that is cut short, by its time, its memory or the user's code,   *)
(* has scored nothing, in every problem: run_turn_based_case asks each     *)
(* environment for its points even then (judge_scaffold.py).               *)
THEOREM NothingForTheCutShort == Spec => []CutShortScoresNothing
<1>1. Spec => []CaseInv
  BY CasesSound
<1>2. CaseInv => CutShortScoresNothing
  BY CutShortUnscored
<1>3. QED BY <1>1, <1>2, PTL

(* A case is passed only by what its problem asks for, whatever the order  *)
(* of calls, answers and ticks (the environments' submit methods and       *)
(* scores), but for what the environments let by and the properties name:  *)
(* one right address told twice (log_hunter), a clock started again and    *)
(* the very limit (parallel_weather).  A pass of tool_creator_challenge is *)
(* earned if its solvers compute what the descriptions define: nobody can  *)
(* prove that of collatz_steps, and TLC computes it.                       *)
THEOREM PassesAreEarned ==
  Spec => []((which = "tool_creator_challenge" => Creators!SolversRight) => PassEarned)
<1>1. Spec => []CaseInv
  BY CasesSound
<1>2. CaseInv => ((which = "tool_creator_challenge" => Creators!SolversRight) => PassEarned)
  BY PassesRight
<1>3. QED BY <1>1, <1>2, PTL

(* Both generators make labyrinths that can be solved, and nobody solves   *)
(* one in less moves than its score is measured against, or opens a door   *)
(* without its key: maze of every size (_shortest_path), keyed_labyrinth   *)
(* of every width and height, with whatever branches _carve_branches may   *)
(* walk (Walks may hold them all) and whatever _add_extra_walls closes.    *)
THEOREM LabyrinthsFair == Spec => []NoShortCut
<1>1. Spec => []CaseInv
  BY CasesSound
<1>2. CaseInv => NoShortCut
  BY WalkedRight, LabyrinthRight DEF CaseInv, NoShortCut
<1>3. QED BY <1>1, <1>2, PTL

(* werewolf: while everyone does what the observation asks for, the        *)
(* environment makes no error of it (build_obs against                     *)
(* _validate_phase_action and _handle_night_wolf), with any number of      *)
(* wolves, villagers and rounds, but for two offers: a potion that the     *)
(* witch has used, and the wolves themselves when every wolf takes it.     *)
THEOREM ObedientAreSafe == Spec => []ObedienceIsSafe
<1>1. Spec => []CaseInv
  BY CasesSound
<1>2. CaseInv => ObedienceIsSafe
  BY GameInvRight DEF CaseInv, ObedienceIsSafe
<1>3. QED BY <1>1, <1>2, PTL

(* werewolf: a winner has won by the rules (_check_win), and the game ends *)
(* within the steps its rounds allow.                                      *)
THEOREM WinnersHaveWon == Spec => []WinnerRight
<1>1. Spec => []CaseInv
  BY CasesSound
<1>2. CaseInv => WinnerRight
  BY GameInvRight DEF CaseInv, WinnerRight
<1>3. QED BY <1>1, <1>2, PTL
=============================================================================
