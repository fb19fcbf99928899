SPECIFICATION Spec
CONSTANTS
  Users = {u1}
  Workers = {w1}
  Cron = Cron
  Deployers = {d1, d2}
  Length <- Lengths
  Period = 1
  MaxMonth = 2
  MaxRuns = 1
  NoDate = NoDate
  Nobody = Nobody
INVARIANTS
  TypeOK
  StartsAgree
  Initialised
PROPERTIES
  OnlyOvertakenMoveBack
  PeriodsCatchUp
CHECK_DEADLOCK FALSE
