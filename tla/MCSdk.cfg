INIT Init
NEXT Next
CONSTANTS
  Agents = 2
  Npcs = {2}
  ServedNames = {1, 2}
  MaxProbes = 2
  Publishers = {"p", "q"}
  Phases = {1, 2}
  Nobody = "nobody"
  MaxLost = 1
  Evaluations = {"a", "b", "c"}
  CasesOf <- MCCasesOf
  User = "user"
  MaxGiven = 2
  MaxConcurrent = 2
  MaxToolRetries = 1
  MaxCalls = 2
  MaxRounds = 2
  Services = {1, 2, 3}
  Submissions <- MCSubmissions
  Durations <- MCDurations
  MaxCases = 1
  MaxErrors = 2
  MaxTold = 3
  Programs = {1, 2}
  Indexes = {0, 1}
  MaxMessages = 3
  MaxReports = 2
  MaxOutput = 4
CHECK_DEADLOCK FALSE
INVARIANTS
  SetupRight
  PublicationRight
  StreamFaithful
  ConversationSound
  MetricsRight
  TraceFaithful
