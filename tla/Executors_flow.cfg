SPECIFICATION XecFairSpec
CONSTANTS
  n1 = n1
  n2 = n2
  c1 = c1
  none = none
  noprofile = noprofile
  e1 = e1
  t1 = t1
  Node1 = n1
  Node2 = n2
  CustomHosts = {c1}
  NoHost = none
  NoProfile = noprofile
  DefaultGasLimit = 1600000
  KnownGasLimit = 2000000
  GasLimits = {1600000, 2000000}
  Calls = {e1}
  Checks = {}
  ConfigCalls <- CustomConfig
  GasNeeds <- Needs
  Profiles <- EveryDecision
  Ticks = {t1}
INVARIANTS
  XecTypeOK
  LimitCoversGas
  LimitWithinNode
  HeldWasSimulated
  FailedBeforeSubmit
PROPERTIES
  RunsSettle
