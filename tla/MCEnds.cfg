SPECIFICATION MCSpec
CONSTANTS
  e1 = e1  f1 = f1  t1 = t1  t2 = t2  w1 = w1  w2 = w2  none = none  idle = idle
  Season <- MCSeason
  SeasonType <- MCSeasonType
  Event <- MCEvent
  Team <- MCTeam
  Athlete <- MCAthlete
  Worker <- MCWorker
  None <- none
  Idle <- idle
  ScopeOf <- MCScopeOf
  TeamsOf <- MCTeamsOf
  AthletesOf <- MCAthletesOf
  RowsOf <- MCRowsOf
  DayOf <- MCDayOf
  Unscheduled <- MCUnscheduled
  ScanDays = 2
  SeasonTables = {}
  LastSeason = 2000
  MaxLost = 0
  Flags <- MCFlags
  q1 = q1  q2 = q2
  Nothing = Nothing
  Discard = Discard
  Questions <- MCQuestions
  FactSets <- MCFactSets
  LogStages = {"words", "model"}
INVARIANTS
  TracesReachTheirOwner
  AnswersItsOwnQuestion
  EndedStreamsAreWhole
PROPERTIES
  PullEnds
  AnswersOneAtATime
  EveryoneIsServed
