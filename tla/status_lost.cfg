SPECIFICATION Spec
CONSTANTS
  w1 = w1
  w2 = w2
  alice = alice
  Workflows = {w1}
  Users = {alice}
  Owner <- OneOwner
  Workers = {p1, p2}
  Cron = Cron
  Policy = {"cpu", "disk"}
  Periodic = FALSE
  Initial = {"created"}
  MaxTime = 5
  NoRow = NoRow
  None = None
INVARIANT QuotaErrorsAreContinuable
CHECK_DEADLOCK FALSE
