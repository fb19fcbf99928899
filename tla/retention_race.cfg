SPECIFICATION Spec
CONSTANTS
  w1 = w1
  w2 = w2
  w3 = w3
  a = a
  b = b
  c = c
  Workflows = {w1, w2, w3}
  Rules = {a, b, c}
  Of <- OfEach
  Family <- Families
  Originals = {w1}
  Workers = {p1, p2}
  Cron = Cron
  RetentionDays = 1
  MaxDay = 3
  NoRule = NoRule
  None = None
PROPERTY TransitionsAllowed
CHECK_DEADLOCK FALSE
