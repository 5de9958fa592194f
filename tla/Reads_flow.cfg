SPECIFICATION ReadsFairSpec
CONSTANTS
  n1 = n1
  n2 = n2
  none = none
  noread = noread
  c1 = c1
  c2 = c2
  Node1 = n1
  Node2 = n2
  CustomHosts = {}
  NoHost = none
  NoRead = noread
  DefaultGasLimit = 2000000
  KnownGasLimit = 2000000
  GasLimits = {2000000}
  Calls = {c1, c2}
  Checks = {}
  Ticks = {}
  ConfigCalls <- DefaultConfig
  MaxHeight = 1
  Workloads <- EachAndPairs
INVARIANTS
  ReadsTypeOK
  NothingFabricated
PROPERTIES
  BalanceGoesForward
  RawReadsSettle
