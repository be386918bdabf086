\* A postseason the schedules cut short: the scoreboard pass must find the rest.
SPECIFICATION SpecInOrder
CONSTANTS
  e1 = e1  f1 = f1  f2 = f2  t1 = t1  t2 = t2  a1 = a1  w1 = w1  none = none  idle = idle
  Season <- MCSeason
  SeasonType <- MCSeasonType
  Event <- MCEvent
  Team <- MCTeam
  Athlete <- MCAthlete
  Worker <- MCWorker
  None <- none
  Idle <- idle
  ScopeOf <- MCScopeOf
  TeamsOf <- MCTeamsOf
  AthletesOf <- MCAthletesOf
  RowsOf <- MCRowsOf
  DayOf <- MCDayOf
  Unscheduled <- MCUnscheduled
  ScanDays = 2
  SeasonTables = {}
  LastSeason = 2000
  MaxLost = 0
  Flags <- MCFlags
INVARIANT MarkedScopeIsResolved

