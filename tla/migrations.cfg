SPECIFICATION Spec
CONSTANTS
  u1 = u1
  u2 = u2
  s1 = s1
  t1 = t1
  t2 = t2
  j1 = j1
  r1 = r1
  f1 = f1
  f2 = f2
  Users = {u1, u2}
  Sessions = {s1}
  Texts = {t1, t2}
  NoText = NoText
  Jobs = {j1}
  Rules = {r1}
  Families = {f1, f2}
  RestartCounts = {1, 11}
  MaxMajor = 3
  Targets <- Stops
  Earlier <- Shipped
  MaxWrites = 2
SYMMETRY symmetry
INVARIANTS
  TypeOK
  SecretsKept
  SecretsReadable
  WebhookUpgradeNotRaced
  ChecksConverge
  IdentitiesComplete
  RestartsKeepTheirPlace
  JobsBelong
  PendingIsKnown
PROPERTY UpgradeFailsForItsRows
