SPECIFICATION FairSpec
CONSTANTS
  w1 = w1
  w2 = w2
  alice = alice
  Workflows = {w1, w2}
  Users = {alice}
  Owner <- OneOwner
  Workers = {p1}
  Cron = Cron
  Policy = {"cpu", "disk"}
  Periodic = TRUE
  Initial = {"pending"}
  MaxTime = 2
  NoRow = NoRow
  None = None
INVARIANTS
  TypeOK
  RulesActive
  Timestamped
PROPERTY QuotasCatchUp
