SPECIFICATION SmartFairSpec
CONSTANTS
  k1 = k1
  k2 = k2
  k3 = k3
  none = none
  o1 = o1
  standard = standard
  Keys = {k1, k2, k3}
  NoKey = none
  Operations = {o1}
  MaxRuns = 2
  Requests <- MCRequests
  Accounts <- MCAccounts
  Rotations <- MCRotations
  NoAccount = standard
INVARIANTS
  XsTypeOK
  PayerApart
  AskedOnce
  GuardsMet
  FullySigned
  LandsOnce
  ChosenPathAccepted
PROPERTIES
  ExecuteSettles
