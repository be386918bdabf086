\* A traded player's line, filled at fetch time and repaired at load time.
SPECIFICATION TotalsSpec
CONSTANTS
  Stints = {"first", "second"}
  MaxGames = 2
  MaxPoints = 2
  Combined = "combined"
  Null = Null
PROPERTY FilledTotalsAreLoaded
