SPECIFICATION CallSpec
CONSTANTS
  SafetyMargin = 4
  DefaultModelMax = 26
  DefaultMaxOutput = 4
  MessageCost = 1
  CallsCost = 2
  SuffixTokens = 1
  Drift = 1
  ModelShare = 3
  CommonShare = 2
  CommonSuffix = 1
  Half = 32
  RangeLimit = 7
  DefaultMin = 1
  DefaultMax = 5
  Days = 2
  MaxSamples = 3
  Texts = {0, 3, 9}
  MaxMessages = 4
  ToolSizes = {0, 3}
  Limits = {0, 1, 3, 10, 17}
  OutputLimits = {4, 30}
  Numbers = {0, 2, 3}
  MaxSymbols = 4
  Lengths = {30, 40, 61}
  MaxGroups = 2
  Users = {"a", "b"}
  Today = 9
  MaxPast = 1
  MaxMoves = 2
  Names = {"m", "n"}
  Durations = {1, 2, 5}
  MaxRows = 4
  Rates = {1, 2, 4}
INVARIANTS
  FitSelectsFromEnd
  FitStaysInBudget
  FirstRoundIsWhole
  CalculatorIsRight
  RandomIsInRange
  AskingChangesNothing
  ChartIsTotalButOneDay
  RestoredIsNewest
CHECK_DEADLOCK FALSE
