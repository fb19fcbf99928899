SPECIFICATION Spec
CONSTANTS
  Users = {u1, u2}
  Sessions = {s1}
  Rotators = {m1}
  Servers = {w1, w2}
  Secrets = {a, b, c, d}
  NoSecret = NoSecret
  NoProc = NoProc
  NoRow = NoRow
  Untouched = Untouched
SYMMETRY Symmetry
INVARIANTS
  TypeOK
  DigestMatches
  RotationKeepsSecrets
  RotationComplete
  FailureLeavesNothing
  AnswersAgree
PROPERTY StoreSpec
