SPECIFICATION ClientSpec
CONSTANTS
  Node1 = Node1
  Node2 = Node2
  NoHost = NoHost
  CustomHosts = {}
  ConfigCalls <- NoConfigCalls
  GasLimits <- OneLimit
  DefaultGasLimit = 1600000
  KnownGasLimit = 2000000
  Calls = {c1, c2}
  Ticks = {}
  Checks = {}
  UsedTiers <- OnlySubmit
  Txs = {t1}
  RequestKeys = {k1, k2}
  NoTx = NoTx
  NoKey = NoKey
INVARIANTS
  OneKeyPerSubmit
  SettledByLastAttempt
PROPERTIES
  ImplementsContract
