SPECIFICATION FairSpec
CONSTANTS
  Users = {u1, u2}
  Sessions = {}
  Rotators = {m1, m2}
  Servers = {w1}
  Secrets = {a, b}
  NoSecret = NoSecret
  NoProc = NoProc
  NoRow = NoRow
  Untouched = Untouched
PROPERTIES
  RotationEnds
