SPECIFICATION PSpec
CONSTANTS
  a = a
  b = b
  c = c
  A = A
  B = B
  C = C
  t1 = t1
  t2 = t2
  m1 = m1
  m2 = m2
  u1 = u1
  Keys = {a, b, c}
  Parties = {A, B, C}
  KeysOf <- MCKeysOf
  Cmds = {t1, t2, m1, m2, u1}
  Signers <- MCSigners
  NoKey = NoKey
  NoTx = NoTx
  NoSig = NoSig
  Junk = Junk
  MaxEnvelopes = 1
  MaxAlterations = 1
INVARIANTS
  ReadyIsComplete
  ReadyIsAgreed
  HandoffIsFaithful
