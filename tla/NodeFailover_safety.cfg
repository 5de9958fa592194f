SPECIFICATION Spec
CONSTANTS
  Node1 = Node1
  Node2 = Node2
  Custom = Custom
  NoHost = NoHost
  CustomHosts <- MCCustomHosts
  ConfigCalls <- AnyCalls
  GasLimits <- OneLimit
  DefaultGasLimit = 1600000
  KnownGasLimit = 2000000
  Calls = {c1, c2}
  Ticks = {t1}
  Checks = {i1}
SYMMETRY Symmetry
INVARIANTS
  TypeOK
  OnlyPrimaryFailuresRetry
  RetryReachesFallback
  TimerDiscipline
PROPERTIES
  TripIsJustified
  RecoveryIsJustified
