\* A pull that wrote nothing, over a warehouse an earlier pull left behind.
SPECIFICATION CSpec
CONSTANTS
  e1 = e1  t1 = t1  t2 = t2  a1 = a1  w1 = w1  none = none  idle = idle
  Season <- MCSeason
  SeasonType <- MCSeasonType
  Event <- MCEvent
  Team <- MCTeam
  Athlete <- MCAthlete
  Worker <- MCWorker
  None <- none
  Idle <- idle
  ScopeOf <- MCScopeOf
  TeamsOf <- MCTeamsOf
  AthletesOf <- MCAthletesOf
  RowsOf <- MCRowsOf
  DayOf <- MCDayOf
  Unscheduled = {}
  ScanDays = 2
  SeasonTables = {"standings"}
  LastSeason = 2026
  MaxLost = 0
  Flags <- MCFlags
INVARIANT NothingWrittenNothingStale
