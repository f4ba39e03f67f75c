------------------------------ MODULE Problems ------------------------------
(***************************************************************************)
(* The problems together: one case of any of them.  `which' names the      *)
(* problem and never changes; everything else is the problem's own.        *)
(***************************************************************************)
EXTENDS Integers, FiniteSets

CONSTANTS
  Rows, Columns, MazeMoves,
  Width, Height, Locks, Walks, ExtraWalls, LabyrinthMoves,
  Questions,
  Addresses, Seconds, MaxAnswers,
  Values, NotJson,
  Configs, BadConfigs, NoConfig, Accuracies, MaxTrials,
  WeatherQuestions, ToolDelay, MaxAllowedTime, WeatherClock,
  BackoffBase, BackoffTolerance, ScraperClock,
  Endpoints, ValidDelay, InvalidDelay, BlockDelay, SubmitDeadline, CircuitClock,
  NumCases, InfoDelay, SubmitTimeLimit, GuardrailTimeLimit, ShoppingClock,
  Arguments, QueryCount,
  Wolves, Seer, Witch, Villagers, MaxRounds, VoteMaxRounds, Nobody

VARIABLES env, verdict, score, which

Mazes == INSTANCE Maze
Labyrinths == INSTANCE KeyedLabyrinth
Interrupts == INSTANCE InterruptJudge
Logs == INSTANCE LogHunter
Outputs == INSTANCE StructuredOutput
Tuners == INSTANCE HyperparamTuner
Weathers == INSTANCE ParallelWeather WITH ClockLimit <- WeatherClock
Scrapers == INSTANCE ResilientScraper WITH ClockLimit <- ScraperClock
Circuits == INSTANCE ShortCircuitScraper WITH ClockLimit <- CircuitClock
Shops == INSTANCE SportsShopping WITH ClockLimit <- ShoppingClock
Creators == INSTANCE ToolCreator
Games == INSTANCE Werewolf

ASSUME ProblemsAssumption ==
  /\ Mazes!MazeAssumption /\ Labyrinths!LabyrinthAssumption
  /\ Interrupts!InterruptAssumption /\ Logs!LogAssumption /\ Tuners!TunerAssumption
  /\ Weathers!WeatherAssumption /\ Scrapers!ScraperAssumption
  /\ Circuits!CircuitAssumption /\ Shops!ShoppingAssumption
  /\ Games!WerewolfAssumption

Init ==
  \/ which = "maze" /\ Mazes!MazeInit
  \/ which = "keyed_labyrinth" /\ Labyrinths!LabyrinthInit
  \/ which = "interrupt_judge" /\ Interrupts!InterruptInit
  \/ which = "log_hunter" /\ Logs!LogInit
  \/ which = "structured_output" /\ Outputs!OutputInit
  \/ which = "ml_hyperparam_tuner" /\ Tuners!TunerInit
  \/ which = "parallel_weather" /\ Weathers!WeatherInit
  \/ which = "resilient_scraper" /\ Scrapers!ScraperInit
  \/ which = "short_circuit_scraper" /\ Circuits!CircuitInit
  \/ which = "sports_shopping" /\ Shops!ShoppingInit
  \/ which = "tool_creator_challenge" /\ Creators!CreatorInit
  \/ which = "werewolf" /\ Games!WerewolfInit

Next ==
  \/ which = "maze" /\ Mazes!MazeNext /\ UNCHANGED which
  \/ which = "keyed_labyrinth" /\ Labyrinths!LabyrinthNext /\ UNCHANGED which
  \/ which = "interrupt_judge" /\ Interrupts!InterruptNext /\ UNCHANGED which
  \/ which = "log_hunter" /\ Logs!LogNext /\ UNCHANGED which
  \/ which = "structured_output" /\ Outputs!OutputNext /\ UNCHANGED which
  \/ which = "ml_hyperparam_tuner" /\ Tuners!TunerNext /\ UNCHANGED which
  \/ which = "parallel_weather" /\ Weathers!WeatherNext /\ UNCHANGED which
  \/ which = "resilient_scraper" /\ Scrapers!ScraperNext /\ UNCHANGED which
  \/ which = "short_circuit_scraper" /\ Circuits!CircuitNext /\ UNCHANGED which
  \/ which = "sports_shopping" /\ Shops!ShoppingNext /\ UNCHANGED which
  \/ which = "tool_creator_challenge" /\ Creators!CreatorNext /\ UNCHANGED which
  \/ which = "werewolf" /\ Games!WerewolfNext /\ UNCHANGED which

Spec == Init /\ [][Next]_<<env, verdict, score, which>>

(* A case that is cut short is worth nothing in any problem: see the       *)
(* property of that name in TurnBasedCase.                                 *)
CutShortScoresNothing == Mazes!CutShortScoresNothing

(* Both labyrinths: what the generator makes can be solved, and not in     *)
(* less than the optimum that the score is measured against.               *)
NoShortCut ==
  /\ which = "maze" => Mazes!MazeSolvable
  /\ which = "keyed_labyrinth" => Labyrinths!LabyrinthSolvable

(* A pass has been earned: in each problem that asks for a skill, a case   *)
(* is passed only by what its description asks for, however calls, answers *)
(* and time were interleaved.  Where the environment accepts more than the *)
(* description, the problem's property names the exceptions: log_hunter's  *)
(* RightTwice and parallel_weather's Restarted and OnTheDot.  In           *)
(* interrupt_judge nobody passes at all.                                   *)
PassEarned ==
  /\ which = "interrupt_judge" => Interrupts!NobodyPasses
  /\ which = "log_hunter" => Logs!LogEarned
  /\ which = "ml_hyperparam_tuner" => Tuners!TunerEarned
  /\ which = "parallel_weather" => Weathers!WeatherEarned
  /\ which = "resilient_scraper" => Scrapers!ScraperEarned
  /\ which = "short_circuit_scraper" => Circuits!CascadeCaught
  /\ which = "sports_shopping" => Shops!ShoppingEarned
  /\ which = "tool_creator_challenge" => Creators!CreatorEarned

(* Werewolf: who does what the observation asks for makes no error. *)
ObedienceIsSafe == which = "werewolf" => Games!ObedienceIsSafe

(* Werewolf: the winner is the side that has won, and the game ends. *)
WinnerRight == which = "werewolf" => Games!WinnerRight
=============================================================================
