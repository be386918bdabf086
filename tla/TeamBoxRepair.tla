--------------------------- MODULE TeamBoxRepair ---------------------------
(***************************************************************************)
(* association.fetch.repairs.team_box_repair: the team box columns ESPN     *)
(* serves under the wrong name are rewritten in the loaded table, from the  *)
(* sums of the players' rows.  It runs at the end of every build, also of   *)
(* one that did not reload the table, and reads the row it last wrote.      *)
(*                                                                         *)
(* One team-game is enough: the statement joins a team's row with its own   *)
(* players only.  Of the columns one of each fault is kept; the percentages *)
(* follow the shooting columns.                                             *)
(***************************************************************************)
EXTENDS Integers

CONSTANTS
  None,        \* SQL NULL, and a table not loaded
  Season,      \* the seasons a row may be of
  Count        \* the values a count may take

ASSUME CountAssumption == Count \subseteq Nat /\ Season \subseteq Nat /\ None \notin Int

ShiftedSeason == 2018
SwappedReboundsSeason == 2008
LastMissingTurnoverSeason == 2012

PlayerColumns == {"fieldGoalsAttempted", "assists", "blocks", "turnovers",
                  "offensiveRebounds", "defensiveRebounds"}
TeamColumns == PlayerColumns \cup {"teamTurnovers", "totalTurnovers", "flagrantFouls", "totalRebounds"}

\* a loaded row is not taken for a table not loaded
ASSUME RowAssumption == None \notin [TeamColumns -> Int \cup {None}]

VARIABLES
  season, seasonType,
  truth,      \* what happened in the game, column by column
  box,        \* ESPN's answer: "full", or "noTeam" or "noPlayers", an empty row or rows
  team,       \* the row in team_box_stats
  players     \* player_box_stats is loaded

vars == << season, seasonType, truth, box, team, players >>
game == << season, seasonType, truth, box >>

\* the sum of the players' rows; a box score without minutes sums to zeros
PlayerTotals == IF box = "noPlayers" THEN [c \in PlayerColumns |-> 0]
                ELSE [c \in PlayerColumns |-> truth[c]]
PlayersHaveMinutes == box # "noPlayers"
PlayerRebounds == PlayerTotals["offensiveRebounds"] + PlayerTotals["defensiveRebounds"]

-----------------------------------------------------------------------------
(* What ESPN serves, by the faults the module's docstring measures *)

Shifted(t) == [t EXCEPT !["assists"] = t["blocks"], !["blocks"] = t["flagrantFouls"],
                        !["turnovers"] = t["teamTurnovers"],
                        !["totalTurnovers"] = 2 * t["teamTurnovers"],
                        !["flagrantFouls"] = t["assists"]]
NoTurnovers(t) == [t EXCEPT !["turnovers"] = 0, !["teamTurnovers"] = t["totalTurnovers"]]
Swapped(t) ==
  LET both == t["offensiveRebounds"] + t["defensiveRebounds"]
      teamRebounds == t["totalRebounds"] - both
  IN [t EXCEPT !["defensiveRebounds"] = t["offensiveRebounds"],
               !["offensiveRebounds"] = teamRebounds,
               !["totalRebounds"] = both + teamRebounds + t["offensiveRebounds"]]

Served ==
  IF box # "full" THEN [c \in TeamColumns |-> None]
  ELSE LET t == IF season <= LastMissingTurnoverSeason THEN NoTurnovers(truth) ELSE truth IN
       IF season = ShiftedSeason THEN Shifted(t)
       ELSE IF season = SwappedReboundsSeason /\ seasonType = 2 THEN Swapped(t)
       ELSE t

-----------------------------------------------------------------------------
(* The repair *)

\* mutant of EmptyTeamRow: the players' minutes are not asked for
EmptyRow(t) == t["fieldGoalsAttempted"] = None
EmptyTeamRow(t) == t["fieldGoalsAttempted"] = None /\ PlayersHaveMinutes
Repairable(t) == t["fieldGoalsAttempted"] # None /\ PlayersHaveMinutes
IsShifted(t) == Repairable(t) /\ season = ShiftedSeason
HasNoTurnovers(t) == Repairable(t) /\ season <= LastMissingTurnoverSeason
ReboundsSwapped(t) == Repairable(t) /\ season = SwappedReboundsSeason /\ seasonType = 2

\* mutant of Corrected: 2018's blocks are read back from the name they are stored under
CorrectedInPlace(t, c) ==
  IF c = "blocks" /\ IsShifted(t) THEN t["assists"]
  ELSE IF c = "assists" /\ (EmptyTeamRow(t) \/ IsShifted(t)) THEN PlayerTotals[c]
  ELSE t[c]

\* _corrections: every expression reads the stored row
Corrected(t, c) ==
  LET faulty ==
        CASE c \in {"assists", "blocks"} -> EmptyTeamRow(t) \/ IsShifted(t)
          [] c = "turnovers" -> EmptyTeamRow(t) \/ IsShifted(t) \/ HasNoTurnovers(t)
          [] c = "fieldGoalsAttempted" -> EmptyTeamRow(t)
          [] c \in {"offensiveRebounds", "defensiveRebounds"} -> EmptyTeamRow(t) \/ ReboundsSwapped(t)
          [] c = "totalRebounds" -> ReboundsSwapped(t)
          [] c = "teamTurnovers" -> HasNoTurnovers(t)
          [] c \in {"totalTurnovers", "flagrantFouls"} -> IsShifted(t)
  IN CASE ~faulty -> t[c]
       [] faulty /\ c \in PlayerColumns -> PlayerTotals[c]
       [] faulty /\ c = "totalRebounds" -> PlayerRebounds + t["offensiveRebounds"]
       [] OTHER -> None

\* mutant of Repair: the rewritten table keeps the rewritten columns only
RepairSelectsPlayerColumns(t, loaded) ==
  IF t = None \/ ~loaded THEN t ELSE [c \in PlayerColumns |-> Corrected(t, c)]

\* skipped while either table is missing
Repair(t, loaded) == IF t = None \/ ~loaded THEN t ELSE [c \in TeamColumns |-> Corrected(t, c)]

-----------------------------------------------------------------------------
TypeOK == /\ season \in Season /\ seasonType \in {2, 3}
          /\ truth \in [TeamColumns -> Int]
          /\ box \in {"full", "noTeam", "noPlayers"}
          /\ (team = None \/ DOMAIN team = TeamColumns) /\ players \in BOOLEAN

\* a game: totals are what their parts add up to
Truths == {[c \in TeamColumns |->
              CASE c = "fieldGoalsAttempted" -> 1
                [] c = "totalTurnovers" -> n["turnovers"] + n["teamTurnovers"]
                [] c = "totalRebounds" ->
                     n["offensiveRebounds"] + n["defensiveRebounds"] + n["teamRebounds"]
                [] OTHER -> n[c]] :
           n \in [{"assists", "blocks", "turnovers", "teamTurnovers", "offensiveRebounds",
                   "defensiveRebounds", "teamRebounds", "flagrantFouls"} -> Count]}

Init ==
  /\ season \in Season /\ seasonType \in {2, 3} /\ truth \in Truths
  \* the empty rows the docstring counts: Vancouver's 1996, Chicago's 2013 to 2018
  /\ box \in {"full"} \cup (IF season = 1996 THEN {"noTeam"} ELSE {})
                       \cup (IF season \in 2013..2018 THEN {"noPlayers"} ELSE {})
  /\ team = None /\ players = FALSE

\* warehouse.build: the named tables are reloaded, then the repair runs
Build(tables) ==
  /\ players' = (players \/ "player_box_stats" \in tables)
  /\ team' = Repair(IF "team_box_stats" \in tables THEN Served ELSE team, players')
  /\ UNCHANGED game

Next == \E tables \in SUBSET {"team_box_stats", "player_box_stats"} : Build(tables)
Spec == Init /\ [][Next]_vars

-----------------------------------------------------------------------------
ReboundsDrift == season = SwappedReboundsSeason /\ seasonType = 2

\* A table just loaded and repaired has 2008's rebounds right, the total as
\* well: the shuffle is undone.
FirstRepairIsRight ==
  ReboundsDrift => \A c \in {"offensiveRebounds", "defensiveRebounds", "totalRebounds"} :
                     Repair(Served, TRUE)[c] = truth[c]

\* What the repair is for: beside a loaded player box a column holds what
\* happened in the game or NULL, never another column's number and never a
\* zero summed from an empty box score; 2008's total too, when it is first
\* repaired.
TrueOrNull ==
  /\ team # None /\ players => \A c \in TeamColumns :
       \/ team[c] = None
       \/ team[c] = truth[c] /\ box # "noPlayers"
       \/ c = "totalRebounds" /\ ReboundsDrift
  /\ FirstRepairIsRight

\* Once repaired a row stays as it is whatever later builds load, the rows the
\* first repair filled and the second finds full included (all columns but 2008's total).
RepairedStays ==
  [][ team # None /\ players => \A c \in TeamColumns :
        team'[c] = team[c] \/ (c = "totalRebounds" /\ ReboundsDrift) ]_vars

\* What the docstring says of running it on every partial load: a second run
\* writes the same numbers.
SecondRunWritesTheSame == [][ team # None /\ players => team' = team ]_vars
=============================================================================
