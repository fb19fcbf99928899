SPECIFICATION Spec
CONSTANTS
  u1 = u1
  u2 = u2
  s1 = s1
  t1 = t1
  t2 = t2
  j1 = j1
  r1 = r1
  f1 = f1
  f2 = f2
  Users = {u1}
  Sessions = {s1}
  Texts = {t1}
  NoText = NoText
  Jobs = {j1}
  Rules = {r1}
  Families = {f1}
  RestartCounts = {1}
  MaxMajor = 1
  Targets <- Stops
  Earlier <- NoOthers
  MaxWrites = 0
INVARIANT DowngradeFindsWhatItDrops
