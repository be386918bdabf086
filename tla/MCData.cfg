\* Each part by itself, on an instance of its own.
SPECIFICATION MCSpec
CONSTANTS
  none = none
  None <- none
  Season <- MCSeason
  Count <- MCCount
  b1 = b1  b2 = b2  r1 = r1  f1 = f1  f2 = f2  f3 = f3  f4 = f4
  c1 = c1  c2 = c2  w1 = w1  w2 = w2  p1 = p1  p2 = p2  p3 = p3  p4 = p4
  t1 = t1  t2 = t2  t3 = t3  t4 = t4  t5 = t5
  Threads <- MCThreads
  CallsOf <- MCCallsOf
  NoOne = NoOne
  Builder <- MCBuilder
  Reader <- MCReader
  Table <- MCTable
  File <- MCFile
  NoDb = NoDb
  Kinds <- OneFull
  MaxVersion = 1
  Interval = 1
  MaxRetries = 1
  Collection <- MCCollection
  PageSizes = {1, 2}
  Envelopes <- MCEnvelopes
  MaxMoves = 1
  Paths <- MCPaths
  Markers <- MCMarkers
  Writers <- MCWriters
  Pids = {11, 12}
  NoFile = NoFile
  Processes = 2
  LastDay = 3
  NoEvent = NoEvent
  Pulls = 2
  Posters <- MCPosters
  RunLine = RunLine
  NoLine = NoLine
  Years <- MCYears
  Stints = {"first", "second"}
  MaxGames = 2
  MaxPoints = 2
  Combined = "combined"
  Null = Null
  GameRows <- MCGameRows
  Games <- MCGames
  RoundOf <- MCRoundOf
  KnownTeams <- MCKnownTeams
  NoGame = NoGame
  Unboxed = 1
  Late = 1
  Athletes = {1, 2, 3}
  NameOf <- MCNameOf
  KeyOf <- MCKeyOf
  Slots = {1, 2}
  Shapes <- MCShapes
  NoId = NoId
  NoRow = NoRow
  NoAnswer = NoAnswer
VIEW MCView
INVARIANTS
  TurnsAreSpaced RequestsEndTruly ShortReadsAreSaid
  StoredIsWhole
  RowsNameTheirGame MarkedHalvesAreWritten
  NotesLostOnlyToOverlap
  DatedByTheWallClock
  SeasonIsTrueOrNull
  EachGameOnce RoundIsTrueOrUnsaid SidesAreReal
  NamesMeanTheMerged GivenIdsSurvive LinesSurviveTheMerge
  ReadersSeeRepaired WarehouseIsFinished
  TrueOrNull
PROPERTIES
  RepairedStays
  SnapshotStays
