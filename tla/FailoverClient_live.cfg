SPECIFICATION ClientFairSpec
CONSTANTS
  Node1 = Node1
  Node2 = Node2
  NoHost = NoHost
  CustomHosts = {}
  ConfigCalls <- Reconfigurations
  GasLimits <- OneLimit
  DefaultGasLimit = 1600000
  KnownGasLimit = 2000000
  Calls = {c1}
  Ticks = {p1}
  Checks = {}
  UsedTiers <- AllTiers
  Txs = {t1}
  RequestKeys = {k1}
  NoTx = NoTx
  NoKey = NoKey
INVARIANTS
  ClientTypeOK
PROPERTIES
  CallsSettle
  Recovery
