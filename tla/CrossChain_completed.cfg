SPECIFICATION XSpec
CONSTANTS
  Node1 = Node1
  Node2 = Node2
  NoHost = NoHost
  CustomHosts = {}
  ConfigCalls <- NoConfigCalls
  GasLimits <- OneLimit
  DefaultGasLimit = 1600000
  KnownGasLimit = 2000000
  Calls = {t1}
  Ticks = {}
  Checks = {}
  MaxAttempts = 2
  Builders <- OneBuilder
INVARIANTS
  CompletedMeansContinued
