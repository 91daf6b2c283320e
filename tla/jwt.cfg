SPECIFICATION MCSpec
CONSTANTS
  u1 = u1
  p1 = p1
  p2 = p2
  a1 = a1
  a2 = a2
  Procs = {p1, p2}
  Users = {u1}
  Instances = {a1, a2}
  Storeless = {a2}
  ForeignTokens <- MCForeign
  Sec = 2
  Lifetime = 2
  MaxTime = 3
  MaxWipes = 1
SYMMETRY Symmetry
INVARIANTS AuthInvariant RevocationCoversLife BlacklistDrains RejectionJustified
PROPERTIES RevokedStaysRejected SignedTokenValid RegistrySpec
