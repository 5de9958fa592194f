SPECIFICATION XFairSpec
CONSTANTS
  Node1 = Node1
  Node2 = Node2
  NoHost = NoHost
  CustomHosts = {}
  ConfigCalls <- NoConfigCalls
  GasLimits <- OneLimit
  DefaultGasLimit = 1600000
  KnownGasLimit = 2000000
  Calls = {t1}
  Ticks = {p1}
  Checks = {}
  MaxAttempts = 2
  Builders <- AllBuilders
INVARIANTS
  XTypeOK
  StatusAgreesWithChain
  ContinuesFinalTransfers
  GivesUpAfterMaxAttempts
PROPERTIES
  PollSpvProofEnds
