SPECIFICATION Spec
CONSTANTS
  Rows = 3
  Columns = 3
  MazeMoves = 6
  Width = 5
  Height = 5
  Locks = 2
  Walks <- MCWalks
  ExtraWalls <- MCExtraWalls
  LabyrinthMoves = 9
  Questions = 2
  Addresses = {"a1", "a2", "a3", "a4"}
  Seconds = {10, 42, 75, 76}
  MaxAnswers = 4
  Values = {"u", "v"}
  NotJson = "not JSON"
  Configs = {"a", "b", "bad"}
  BadConfigs = {"bad"}
  NoConfig = "empty"
  Accuracies = {79, 85, 90, 95}
  MaxTrials = 2
  WeatherQuestions = {0, 1}
  ToolDelay = 2
  MaxAllowedTime = 3
  WeatherClock = 5
  BackoffBase = 2
  BackoffTolerance = 1
  ScraperClock = 12
  Endpoints = {1, 2}
  ValidDelay = 2
  InvalidDelay = 4
  BlockDelay = 4
  SubmitDeadline = 4
  CircuitClock = 8
  NumCases = {1, 5}
  InfoDelay = 4
  SubmitTimeLimit = 5
  GuardrailTimeLimit = 3
  ShoppingClock = 8
  Arguments <- MCArguments
  QueryCount = 2
  Wolves = {"wolf"}
  Seer = "seer"
  Witch = "witch"
  Villagers = {"villager"}
  MaxRounds = 2
  VoteMaxRounds = 2
  Nobody = "nobody"
CHECK_DEADLOCK FALSE
INVARIANTS
  CutShortScoresNothing
  NoShortCut
  
  ObedienceIsSafe
  WinnerRight
