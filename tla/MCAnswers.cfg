\* Pull after pull of one game and its standings, the calendar rolling over; and
\* the readers, each on an instance of its own.
SPECIFICATION MCSpec
CONSTANTS
  e1 = e1  t1 = t1  t2 = t2  a1 = a1  w1 = w1  none = none  idle = idle
  Season <- MCSeason
  SeasonType <- MCSeasonType
  Event <- MCEvent
  Team <- MCTeam
  Athlete <- MCAthlete
  Worker <- MCWorker
  None <- none
  Idle <- idle
  ScopeOf <- MCScopeOf
  TeamsOf <- MCTeamsOf
  AthletesOf <- MCAthletesOf
  RowsOf <- MCRowsOf
  DayOf <- MCDayOf
  Unscheduled = {}
  ScanDays = 2
  SeasonTables = {"standings"}
  LastSeason = 2026
  MaxLost = 0
  Flags <- MCFlags
  CellSets <- MCCellSets
  PlayedGames = {1, 2}
  Periods = {1, 2}
  Overtime = 2
  MaxInAPeriod = 1
  MissingOutOf = 2
  LastGame = 4
  SeasonsGames = 3
  NamedRuns = 1
  DayYears <- MCDayYears
  GameDaysOf <- MCGameDaysOf
  DayKinds <- MCDayKinds
  NoBoxRow = NoBoxRow
  Namesakes = {1, 2, 3}
  NamesakeRows <- MCNamesakeRows
  MaxCandidates = 2
  MaxClarifyCandidates = 1
  NoSeason = NoSeason
  NoTeam = NoTeam
  SeasonGames <- MCSeasonGames
  AskedDays <- MCAskedDays
SYMMETRY Symmetry
VIEW MCView
INVARIANTS
  NothingForgotten
  OnlyTheTeamCompilerDrops PeriodFiguresAreBounded StreaksAreTrue SplitIsTrue WithoutIsOneReading NameMeansOne DatedIsItsGames
PROPERTIES DecidedStays
