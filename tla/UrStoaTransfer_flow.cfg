SPECIFICATION USpec
CONSTANTS
  p = p
  a = a
  b = b
  Keys = {p, a, b}
  Requests <- MCRequests
INVARIANTS
  AnyKeyGuardsMet
  RebuildMeetsWhatItCan
