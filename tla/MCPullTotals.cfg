\* One season type of one season, two games, two workers.
SPECIFICATION Spec
CONSTANTS
  e1 = e1  e2 = e2  t1 = t1  t2 = t2  a1 = a1  w1 = w1  w2 = w2  none = none  idle = idle
  Season <- MCSeason
  SeasonType <- MCSeasonType
  Event <- MCEvent
  Team <- MCTeam
  Athlete <- MCAthlete
  Worker <- MCWorker
  None <- none
  Idle <- idle
  ScopeOf <- MCScopeOf
  TeamsOf <- MCTeamsOf
  AthletesOf <- MCAthletesOf
  RowsOf <- MCRowsOf
  DayOf <- MCDayOf
  Unscheduled = {}
  ScanDays = 2
  SeasonTables = {}
  LastSeason = 2026
  MaxLost = 1
  Flags <- MCFlags
INVARIANT MarkedTotalsAreFinal

