SPECIFICATION FairSpec
CONSTANTS
  c1 = c1
  p1 = p1
  Call = {c1}
  Candidate = {p1}
  CalledBy <- JustOne
  LastDay = 3
  NoRow = NoRow
  NotSent = NotSent
INVARIANTS TypeOK DayToldWhole HandedOverToldOnce ReportAgrees
PROPERTIES CostsNeverFall EveryDayTold
