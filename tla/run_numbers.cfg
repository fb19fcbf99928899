SPECIFICATION Spec
CONSTANTS
  analysis = analysis
  Users = {u1, u2}
  Words = {analysis}
  Names <- OneName
  Clients = {p1, p2}
  DayLength = 2
  Untils = {0}
  MaxMajor = 2
  MaxMinor = 2
  MaxHour = 2
  MaxShares = 1
  None = None
SYMMETRY Processes
INVARIANTS
  TypeOK
  NoGaps
  NoNeedlessClash
  FullNameFinds
  ActiveAgrees
PROPERTY NumbersAscend
CHECK_DEADLOCK FALSE
