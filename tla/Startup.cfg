SPECIFICATION Spec
CONSTANTS
  None = None
  MaxInstances = 2
  Files <- MCFiles
  Envs <- MCEnvs
  Rules <- MCRules
  DefaultRules <- MCDefaultRules
  DefaultPool = 4
  DefaultPoll = 1
  DefaultStale = 2
  Nodes <- MCNodes
  NodesAt <- MCNodesAt
  Temps = {40, 80}
INVARIANTS TypeOK PoolAndRulesFit ChipMatchesAlerter AllStarted OnlyNegativeIntervalsPanic
PROPERTY StaleTemperatureGoes
CHECK_DEADLOCK FALSE
