----------------------------- MODULE RepairProofs -----------------------------
(***************************************************************************)
(* What the repairs that follow a load keep true.                           *)
(***************************************************************************)
EXTENDS TeamBoxRepair, RealGames, Athletes, SeasonTotals, SetLemmas

-----------------------------------------------------------------------------
(***************************************************************************)
(* The team box scores, for any counts, any seasons and any sequence of     *)
(* builds.  A repaired row is the row a first repair makes of ESPN's, in    *)
(* every column but 2008's total of rebounds; that row is true or NULL, and *)
(* a second repair leaves it alone.                                         *)
(***************************************************************************)

\* What may be read of a game's box score; which columns drift, and what a first
\* repair makes of them.
Boxes == {"full", "noTeam", "noPlayers"}
IsGame == season \in Season /\ truth \in [TeamColumns -> Int] /\ box \in Boxes
Drifts(c) == c = "totalRebounds" /\ ReboundsDrift
FirstRepaired(c) == Corrected(Served, c)

\* The columns there are.
LEMMA ColumnsAre ==
  TeamColumns = {"fieldGoalsAttempted", "assists", "blocks", "turnovers", "offensiveRebounds",
                 "defensiveRebounds", "teamTurnovers", "totalTurnovers", "flagrantFouls",
                 "totalRebounds"}
BY DEF TeamColumns, PlayerColumns

\* What ESPN serves is a row: a missing one is not taken for a missing table.
LEMMA ServedIsARow == ASSUME IsGame PROVE Served # None
<1>1. \A c \in TeamColumns : truth[c] \in Int
  BY DEF IsGame
<1>2. truth = [c \in TeamColumns |-> truth[c]]
  BY DEF IsGame
<1>3. Served \in [TeamColumns -> Int \cup {None}]
  <2>1. CASE box # "full"
    BY <2>1 DEF Served
  <2> DEFINE t == IF season <= LastMissingTurnoverSeason THEN NoTurnovers(truth) ELSE truth
  <2>2. t \in [TeamColumns -> Int]
    BY <1>1, <1>2, ColumnsAre DEF IsGame, NoTurnovers
  <2>3. Shifted(t) \in [TeamColumns -> Int] /\ Swapped(t) \in [TeamColumns -> Int]
    <3> HIDE DEF t
    <3>1. \A c \in TeamColumns : t[c] \in Int
      BY <2>2
    <3>2. QED
      BY <2>2, <3>1, ColumnsAre DEF Shifted, Swapped
  <2>4. CASE box = "full"
    BY <2>2, <2>3, <2>4 DEF Served
  <2>5. QED
    BY <2>1, <2>4
<1>4. QED
  BY <1>3, RowAssumption DEF RowAssumption

\* Of a full box score ESPN gets every column right outside its three faults.
LEMMA ServedIsTrue ==
  ASSUME IsGame, box = "full", NEW c \in TeamColumns,
         season # ShiftedSeason,
         ReboundsDrift => c \notin {"offensiveRebounds", "defensiveRebounds", "totalRebounds"},
         season <= LastMissingTurnoverSeason => c \notin {"turnovers", "teamTurnovers"}
  PROVE  Served[c] = truth[c]
BY ColumnsAre DEF Served, NoTurnovers, Swapped, IsGame, ReboundsDrift

\* In 2018 five columns hold another one's number.
LEMMA ShiftedIsTrue ==
  ASSUME IsGame, box = "full", NEW c \in TeamColumns,
         season = ShiftedSeason,
         c \notin {"assists", "blocks", "turnovers", "totalTurnovers", "flagrantFouls"}
  PROVE  Served[c] = truth[c]
BY ColumnsAre DEF Served, Shifted, IsGame, ShiftedSeason, LastMissingTurnoverSeason

\* The shots are served under their own name in every season, so the repair can
\* tell an empty row by them.
LEMMA ShotsTell ==
  ASSUME IsGame
  PROVE  /\ box = "full" => Served["fieldGoalsAttempted"] = truth["fieldGoalsAttempted"]
         /\ box # "full" => Served["fieldGoalsAttempted"] = None
         /\ truth["fieldGoalsAttempted"] # None
<1>1. truth["fieldGoalsAttempted"] # None
  BY CountAssumption, ColumnsAre DEF CountAssumption, IsGame
<1>2. CASE box = "full"
  BY <1>1, <1>2, ServedIsTrue, ShiftedIsTrue, ColumnsAre
<1>3. CASE box # "full"
  BY <1>1, <1>3, ColumnsAre DEF Served
<1>4. QED
  BY <1>2, <1>3

\* Without players' minutes nothing is repaired.
LEMMA NoMinutesNoRepair ==
  ASSUME box = "noPlayers", NEW t, NEW c \in TeamColumns
  PROVE  Corrected(t, c) = t[c]
<1>1. ~EmptyTeamRow(t) /\ ~IsShifted(t) /\ ~HasNoTurnovers(t) /\ ~ReboundsSwapped(t)
  BY DEF EmptyTeamRow, IsShifted, HasNoTurnovers, ReboundsSwapped, Repairable, PlayersHaveMinutes
<1>2. QED
  BY <1>1, ColumnsAre DEF Corrected

\* A first repair leaves what happened in the game, or NULL, in every column.
LEMMA FirstRepairTrueOrNull ==
  ASSUME IsGame, NEW c \in TeamColumns, ~Drifts(c)
  PROVE  FirstRepaired(c) = None \/ (FirstRepaired(c) = truth[c] /\ box # "noPlayers")
<1>1. CASE box = "noPlayers"
  BY <1>1, NoMinutesNoRepair DEF FirstRepaired, Served
<1>2. CASE box = "noTeam"
  <2>1. Served[c] = None /\ (c \in PlayerColumns => PlayerTotals[c] = truth[c])
    BY <1>2 DEF Served, PlayerTotals
  <2>2. EmptyTeamRow(Served) /\ ~Repairable(Served)
    BY <1>2, ShotsTell DEF EmptyTeamRow, Repairable, PlayersHaveMinutes
  <2>3. ~IsShifted(Served) /\ ~HasNoTurnovers(Served) /\ ~ReboundsSwapped(Served)
    BY <2>2 DEF IsShifted, HasNoTurnovers, ReboundsSwapped
  <2>4. QED
    BY <1>2, <2>1, <2>2, <2>3, ColumnsAre DEF FirstRepaired, Corrected, PlayerColumns
<1>3. CASE box = "full"
  <2>1. Repairable(Served) /\ ~EmptyTeamRow(Served)
    BY <1>3, ShotsTell DEF EmptyTeamRow, Repairable, PlayersHaveMinutes
  <2>2. c \in PlayerColumns => PlayerTotals[c] = truth[c]
    BY <1>3 DEF PlayerTotals
  <2>3. /\ IsShifted(Served) <=> season = ShiftedSeason
        /\ HasNoTurnovers(Served) <=> season <= LastMissingTurnoverSeason
        /\ ReboundsSwapped(Served) <=> ReboundsDrift
    BY <2>1 DEF IsShifted, HasNoTurnovers, ReboundsSwapped, ReboundsDrift
  <2>4. CASE season = ShiftedSeason
    <3>1. ~HasNoTurnovers(Served) /\ ~ReboundsSwapped(Served)
      BY <2>3, <2>4 DEF ShiftedSeason, LastMissingTurnoverSeason, ReboundsDrift, SwappedReboundsSeason
    <3>2. QED
      BY <1>3, <2>1, <2>2, <2>3, <2>4, <3>1, ShiftedIsTrue, ColumnsAre
      DEF FirstRepaired, Corrected, PlayerColumns
  <2>5. CASE season # ShiftedSeason
    BY <1>3, <2>1, <2>2, <2>3, <2>5, ServedIsTrue, ColumnsAre
    DEF FirstRepaired, Corrected, PlayerColumns, Drifts
  <2>6. QED
    BY <2>4, <2>5
<1>4. QED
  BY <1>1, <1>2, <1>3 DEF IsGame, Boxes

\* A second repair changes no column: it finds an empty row full, and repairs
\* what it filled by the players' sums it was filled from.
LEMMA SecondRepairIsFirst ==
  ASSUME IsGame, NEW t, NEW c \in TeamColumns, ~Drifts(c),
         t["fieldGoalsAttempted"] = FirstRepaired("fieldGoalsAttempted"),
         t[c] = FirstRepaired(c)
  PROVE  Corrected(t, c) = FirstRepaired(c)
<1>1. CASE box = "noPlayers"
  BY <1>1, NoMinutesNoRepair
<1>2. CASE box = "noTeam"
  <2>1. /\ Served[c] = None /\ Served["fieldGoalsAttempted"] = None
        /\ \A d \in PlayerColumns : PlayerTotals[d] = truth[d]
    BY <1>2, ColumnsAre DEF Served, PlayerTotals
  <2>2. EmptyTeamRow(Served) /\ ~Repairable(Served)
    BY <1>2, <2>1 DEF EmptyTeamRow, Repairable, PlayersHaveMinutes
  <2>3. ~IsShifted(Served) /\ ~HasNoTurnovers(Served) /\ ~ReboundsSwapped(Served)
    BY <2>2 DEF IsShifted, HasNoTurnovers, ReboundsSwapped
  <2>4. FirstRepaired(c) = IF c \in PlayerColumns THEN PlayerTotals[c] ELSE None
    BY <2>1, <2>2, <2>3, ColumnsAre DEF FirstRepaired, Corrected, PlayerColumns
  <2>5. FirstRepaired("fieldGoalsAttempted") = truth["fieldGoalsAttempted"]
    BY <2>1, <2>2, <2>3, ColumnsAre DEF FirstRepaired, Corrected, PlayerColumns
  <2>6. ~EmptyTeamRow(t)
    BY <2>5, ShotsTell DEF EmptyTeamRow
  <2>7. c = "totalRebounds" => ~ReboundsSwapped(t)
    BY DEF ReboundsSwapped, Drifts, ReboundsDrift
  <2>8. QED
    BY <2>4, <2>6, <2>7, ColumnsAre DEF Corrected, PlayerColumns
<1>3. CASE box = "full"
  <2>1. Repairable(Served) /\ ~EmptyTeamRow(Served)
    BY <1>3, ShotsTell DEF EmptyTeamRow, Repairable, PlayersHaveMinutes
  <2>2. FirstRepaired("fieldGoalsAttempted") = Served["fieldGoalsAttempted"]
    BY <2>1, ColumnsAre DEF FirstRepaired, Corrected
  <2>3. Repairable(t) /\ ~EmptyTeamRow(t)
    BY <2>1, <2>2 DEF EmptyTeamRow, Repairable
  <2>4. /\ IsShifted(t) <=> IsShifted(Served)
        /\ HasNoTurnovers(t) <=> HasNoTurnovers(Served)
        /\ ReboundsSwapped(t) <=> ReboundsSwapped(Served)
    BY <2>1, <2>3 DEF IsShifted, HasNoTurnovers, ReboundsSwapped
  <2>5. c = "totalRebounds" => ~ReboundsSwapped(t)
    BY DEF ReboundsSwapped, Drifts, ReboundsDrift
  <2>6. QED
    BY <2>1, <2>3, <2>4, <2>5, ColumnsAre DEF FirstRepaired, Corrected
<1>4. QED
  BY <1>1, <1>2, <1>3 DEF IsGame, Boxes

\* A row beside a loaded player box is a first repair's, but for 2008's total;
\* until the players are loaded it is ESPN's.
BoxInv ==
  /\ IsGame
  /\ team # None /\ players => \A c \in TeamColumns : Drifts(c) \/ team[c] = FirstRepaired(c)
  /\ team # None /\ ~players => team = Served

\* A count is an integer.
LEMMA CountsAreIntegers == ASSUME NEW k \in Count PROVE k \in Int
BY CountAssumption DEF CountAssumption

\* No row is loaded at first.
LEMMA BoxInit == Init => BoxInv
<1> SUFFICES ASSUME Init PROVE BoxInv
  OBVIOUS
<1>1. truth \in [TeamColumns -> Int]
  <2> DEFINE Parts == {"assists", "blocks", "turnovers", "teamTurnovers", "offensiveRebounds",
                       "defensiveRebounds", "teamRebounds", "flagrantFouls"}
  <2>1. PICK n \in [Parts -> Count] : truth = [c \in TeamColumns |->
          CASE c = "fieldGoalsAttempted" -> 1
            [] c = "totalTurnovers" -> n["turnovers"] + n["teamTurnovers"]
            [] c = "totalRebounds" ->
                 n["offensiveRebounds"] + n["defensiveRebounds"] + n["teamRebounds"]
            [] OTHER -> n[c]]
    BY DEF Init, Truths
  <2>2. ASSUME NEW p \in Parts PROVE n[p] \in Int
    <3>1. n[p] \in Count
      BY Zenon
    <3>2. QED
      BY <3>1, CountsAreIntegers
  <2>3. \A c \in TeamColumns : truth[c] \in Int
    BY <2>1, <2>2, ColumnsAre
  <2>4. QED
    BY <2>1, <2>3
<1>2. QED
  BY <1>1 DEF Init, BoxInv, IsGame, Boxes

\* A build reloads the row or not, and repairs it for the first or the tenth time.
LEMMA BoxStep == BoxInv /\ [Next]_vars => BoxInv'
<1> SUFFICES ASSUME BoxInv, [Next]_vars PROVE BoxInv'
  OBVIOUS
<1>g. ASSUME UNCHANGED game, NEW c \in TeamColumns
      PROVE  /\ IsGame' /\ Served' = Served /\ FirstRepaired(c)' = FirstRepaired(c)
             /\ Drifts(c)' = Drifts(c)
  <2>1. IsGame' /\ Served' = Served /\ Drifts(c)' = Drifts(c)
    BY <1>g DEF game, BoxInv, IsGame, Served, Shifted, NoTurnovers, Swapped, Drifts, ReboundsDrift
  <2>2. PlayerTotals' = PlayerTotals
    BY <1>g DEF game, PlayerTotals
  <2>3. QED
    BY <1>g, <2>1, <2>2
    DEF game, FirstRepaired, Corrected, EmptyTeamRow, IsShifted, HasNoTurnovers, ReboundsSwapped,
        Repairable, PlayersHaveMinutes, PlayerRebounds
<1>1. CASE UNCHANGED vars
  BY <1>1, <1>g, ColumnsAre DEF vars, game, BoxInv
<1>2. ASSUME NEW tables \in SUBSET {"team_box_stats", "player_box_stats"}, Build(tables)
      PROVE BoxInv'
  <2> DEFINE row == IF "team_box_stats" \in tables THEN Served ELSE team
  <2>1. UNCHANGED game /\ team' = Repair(row, players') /\ (players => players')
    BY <1>2 DEF Build
  <2>2. CASE ~players'
    <3>1. team' = row /\ ~players
      BY <2>1, <2>2 DEF Repair
    <3>2. team' # None => team' = Served
      BY <3>1 DEF BoxInv
    <3>3. QED
      BY <1>g, <2>1, <2>2, <3>2, ColumnsAre DEF BoxInv
  <2>3. CASE players'
    <3>1. ASSUME team' # None, NEW c \in TeamColumns, ~Drifts(c)
          PROVE  team'[c] = FirstRepaired(c)
      <4>1. team'[c] = Corrected(row, c) /\ row # None
        BY <2>1, <2>3, <3>1 DEF Repair
      <4>2. CASE row = Served
        BY <4>1, <4>2 DEF FirstRepaired
      <4>3. CASE row # Served
        <5>1. row = team /\ players
          BY <4>1, <4>3 DEF BoxInv
        <5>2. \A d \in TeamColumns : Drifts(d) \/ team[d] = FirstRepaired(d)
          BY <4>1, <5>1 DEF BoxInv
        <5>3. team["fieldGoalsAttempted"] = FirstRepaired("fieldGoalsAttempted")
          BY <5>2, ColumnsAre DEF Drifts
        <5>4. QED
          BY <3>1, <4>1, <5>1, <5>2, <5>3, SecondRepairIsFirst DEF BoxInv
      <4>4. QED
        BY <4>2, <4>3
    <3>2. QED
      BY <1>g, <2>1, <2>3, <3>1, ColumnsAre, ZenonT(60) DEF BoxInv
  <2>4. QED
    BY <2>2, <2>3
<1>3. QED
  BY <1>1, <1>2 DEF Next

\* Once repaired a row keeps every column, whatever later builds load: the repair
\* may run at the end of a build that did not reload the table.
THEOREM TeamBoxRepairedStays == Spec => RepairedStays
<1> DEFINE Stays == team # None /\ players => \A c \in TeamColumns :
                      team'[c] = team[c] \/ (c = "totalRebounds" /\ ReboundsDrift)
<1>1. Spec => []BoxInv
  BY BoxInit, BoxStep, PTL DEF Spec
<1>2. ASSUME BoxInv, [Next]_vars PROVE [Stays]_vars
  <2> SUFFICES ASSUME team # None, players, NEW c \in TeamColumns, ~Drifts(c),
                      NEW tables \in SUBSET {"team_box_stats", "player_box_stats"}, Build(tables)
               PROVE  team'[c] = team[c]
    BY <1>2 DEF Next, Drifts
  <2> DEFINE row == IF "team_box_stats" \in tables THEN Served ELSE team
  <2>1. row # None
    BY <1>2, ServedIsARow DEF BoxInv
  <2>2. team' = [d \in TeamColumns |-> Corrected(row, d)]
    BY <2>1 DEF Build, Repair
  <2>3. \A d \in TeamColumns : Drifts(d) \/ team[d] = FirstRepaired(d)
    BY <1>2 DEF BoxInv
  <2>4. team["fieldGoalsAttempted"] = FirstRepaired("fieldGoalsAttempted")
    BY <2>3, ColumnsAre DEF Drifts
  <2>5. CASE row = Served
    BY <2>2, <2>3, <2>5 DEF FirstRepaired
  <2>6. CASE row = team
    BY <1>2, <2>2, <2>3, <2>4, <2>6, SecondRepairIsFirst DEF BoxInv
  <2>7. QED
    BY <2>5, <2>6
<1>3. QED
  BY <1>1, <1>2, PTL DEF Spec, RepairedStays

\* A row of 2008's regular season is all there: the empty ones are of other years.
FullIn2008 == IsGame /\ (season = SwappedReboundsSeason => box = "full")

\* The rebounds shuffled among three columns are put back by the players' sums,
\* the team's own by the column ESPN hid them in.
LEMMA ReboundsUndone == ASSUME FullIn2008 PROVE FirstRepairIsRight
<1> SUFFICES ASSUME ReboundsDrift
             PROVE  \A c \in {"offensiveRebounds", "defensiveRebounds", "totalRebounds"} :
                      Repair(Served, TRUE)[c] = truth[c]
  BY DEF FirstRepairIsRight
<1>1. IsGame /\ box = "full" /\ season = SwappedReboundsSeason /\ seasonType = 2
  BY DEF FullIn2008, ReboundsDrift
<1> DEFINE off == truth["offensiveRebounds"]
           def == truth["defensiveRebounds"]
           all == truth["totalRebounds"]
<1>2. off \in Int /\ def \in Int /\ all \in Int
  BY <1>1, ColumnsAre DEF IsGame
<1>3. Served = Swapped(NoTurnovers(truth))
  BY <1>1 DEF Served, ShiftedSeason, SwappedReboundsSeason, LastMissingTurnoverSeason
<1>4. Served["offensiveRebounds"] = all - (off + def)
  BY <1>1, <1>3, ColumnsAre DEF Swapped, NoTurnovers, IsGame
<1>5. PlayerTotals["offensiveRebounds"] = off /\ PlayerTotals["defensiveRebounds"] = def
  BY <1>1 DEF PlayerTotals, PlayerColumns
<1>6. Repairable(Served) /\ ReboundsSwapped(Served)
  BY <1>1, ShotsTell DEF Repairable, PlayersHaveMinutes, ReboundsSwapped
<1>7. Repair(Served, TRUE) = [c \in TeamColumns |-> Corrected(Served, c)]
  BY <1>1, ServedIsARow DEF Repair
<1>8. /\ Corrected(Served, "offensiveRebounds") = PlayerTotals["offensiveRebounds"]
      /\ Corrected(Served, "defensiveRebounds") = PlayerTotals["defensiveRebounds"]
      /\ Corrected(Served, "totalRebounds") = PlayerRebounds + Served["offensiveRebounds"]
  BY <1>6 DEF Corrected, PlayerColumns
<1>9. PlayerRebounds + Served["offensiveRebounds"] = all
  BY <1>2, <1>4, <1>5 DEF PlayerRebounds
<1>10. QED
  BY <1>5, <1>7, <1>8, <1>9, ColumnsAre

\* A table just loaded and repaired has 2008's rebounds right, the total as well,
\* whatever the players and the team took.
THEOREM TeamBoxFirstRepairIsRight == Spec => []FirstRepairIsRight
<1>1. Init => FullIn2008
  BY BoxInit DEF BoxInv, Init, FullIn2008, SwappedReboundsSeason
<1>2. FullIn2008 /\ [Next]_vars => FullIn2008'
  BY DEF FullIn2008, IsGame, Next, Build, vars, game
<1>3. QED
  BY <1>1, <1>2, ReboundsUndone, PTL DEF Spec

\* Beside a loaded player box every column of the team's row is what happened in
\* the game, or NULL, whatever counts the game has, in every season, and after
\* any sequence of builds (2008's total of rebounds when first repaired).
THEOREM TeamBoxTrueOrNull == Spec => []TrueOrNull
<1>1. Spec => []BoxInv
  BY BoxInit, BoxStep, PTL DEF Spec
<1>2. BoxInv /\ FirstRepairIsRight => TrueOrNull
  BY FirstRepairTrueOrNull DEF BoxInv, TrueOrNull, Drifts
<1>3. QED
  BY <1>1, <1>2, TeamBoxFirstRepairIsRight, PTL

-----------------------------------------------------------------------------
(***************************************************************************)
(* The rows of games that are games, and the sides they were played on.     *)
(***************************************************************************)

\* A game's row that is kept: the one with a box score, or else the first id.
Ahead(x, y, boxes) ==
  \/ x.event \in boxes /\ y.event \notin boxes
  \/ (x.event \in boxes <=> y.event \in boxes) /\ x.event < y.event

\* The order the duplicates of a game are ranked in.
LEMMA AheadIsBefore == ASSUME NEW x, NEW y, NEW boxes PROVE Before(x, y, boxes) <=> Ahead(x, y, boxes)
<1> DEFINE rank(row) == << IF row.event \in boxes THEN 0 ELSE 1, row.event >>
<1>1. Before(x, y, boxes) <=>
        (rank(x)[1] < rank(y)[1] \/ (rank(x)[1] = rank(y)[1] /\ rank(x)[2] < rank(y)[2]))
  BY DEF Before
<1>2. \A row : rank(row)[1] = (IF row.event \in boxes THEN 0 ELSE 1) /\ rank(row)[2] = row.event
  OBVIOUS
<1> HIDE DEF rank
<1>3. CASE x.event \in boxes /\ y.event \in boxes
  BY <1>1, <1>2, <1>3 DEF Ahead
<1>4. CASE x.event \in boxes /\ y.event \notin boxes
  BY <1>1, <1>2, <1>4 DEF Ahead
<1>5. CASE x.event \notin boxes /\ y.event \in boxes
  BY <1>1, <1>2, <1>5 DEF Ahead
<1>6. CASE x.event \notin boxes /\ y.event \notin boxes
  BY <1>1, <1>2, <1>6 DEF Ahead
<1>7. QED
  BY <1>3, <1>4, <1>5, <1>6

\* Among any of ESPN's rows one is ahead of all the others.
LEMMA OneIsAhead ==
  ASSUME NEW S \in SUBSET GameRows, S # {}, NEW boxes
  PROVE  \E x \in S : \A y \in S \ {x} : Ahead(x, y, boxes)
<1> DEFINE B == {row \in S : row.event \in boxes}
           T == IF B # {} THEN B ELSE S
<1>1. T # {} /\ T \subseteq S
  OBVIOUS
<1>2. {row.event : row \in T} \in SUBSET Nat /\ {row.event : row \in T} # {}
  BY <1>1, RowsAssumption
<1> HIDE DEF T
<1>3. PICK x \in T : \A y \in T : x.event <= y.event
  <2>1. PICK least \in {row.event : row \in T} : \A e \in {row.event : row \in T} : least <= e
    BY <1>2, LeastNat
  <2>2. PICK x \in T : x.event = least
    OBVIOUS
  <2>3. \A y \in T : x.event <= y.event
    BY <2>1, <2>2
  <2>4. QED
    BY <2>3
<1> USE DEF T
<1>4. ASSUME NEW y \in S \ {x} PROVE Ahead(x, y, boxes)
  <2>1. x.event \in Nat /\ y.event \in Nat /\ x.event # y.event
    BY <1>1, RowsAssumption, ListingAssumption
  <2>2. CASE y \in T
    <3>1. x.event < y.event
      BY <1>3, <2>1, <2>2
    <3>2. x.event \in boxes <=> y.event \in boxes
      BY <2>2
    <3>3. QED
      BY <3>1, <3>2 DEF Ahead
  <2>3. CASE y \notin T
    <3>1. x.event \in boxes /\ y.event \notin boxes
      BY <1>1, <2>3, SMTT(60)
    <3>2. QED
      BY <3>1 DEF Ahead
  <2>4. QED
    BY <2>2, <2>3
<1>5. QED
  BY <1>1, <1>4

\* What ESPN lists.
AsListed ==
  \/ scored = {} /\ \A row \in listing : row.game # NoGame \/ ~row.won
  \/ /\ scored # {}
     /\ \A row \in listing :
           /\ row.game = NoGame => row.event \notin scored
           /\ row.game # NoGame /\ row.time = "date" => row.event \in scored

\* What is listed is of the rows there may be, the disk has of it what a pull
\* wrote, the warehouse what of that a load read, and the games told apart are
\* made of both tables, of whichever loads they are.
GamesInv ==
  /\ listing \subseteq GameRows /\ AsListed
  /\ listed \subseteq listing /\ boxed \subseteq scored
  /\ inGames = NoGame \/ inGames \subseteq listed
  /\ inBoxes = NoGame \/ inBoxes \subseteq boxed
  /\ real = BuildRealGames(inGames, inBoxes)

\* It holds throughout.
LEMMA GamesInvHolds == GamesSpec => []GamesInv
<1>1. GamesInit => GamesInv
  <2> SUFFICES ASSUME GamesInit PROVE GamesInv
    OBVIOUS
  <2>1. listing \subseteq GameRows /\ AsListed
    BY DEF GamesInit, AsListed
  <2>2. real = BuildRealGames(inGames, inBoxes)
    BY DEF GamesInit, BuildRealGames
  <2>3. QED
    BY <2>1, <2>2 DEF GamesInit, GamesInv
<1>2. GamesInv /\ [GamesNext]_gamesVars => GamesInv'
  <2> SUFFICES ASSUME GamesInv, [GamesNext]_gamesVars PROVE GamesInv'
    OBVIOUS
  <2> USE DEF espnVars, diskVars
  <2>1. ASSUME UNCHANGED <<listing, scored>> PROVE AsListed'
    BY <2>1 DEF GamesInv, AsListed
  <2>2. ASSUME NEW tables, Load(tables) PROVE GamesInv'
    <3>1. UNCHANGED <<listing, scored, listed, boxed>>
      BY <2>2 DEF Load
    <3>2. inGames' \in {inGames, listed} /\ inBoxes' \in {inBoxes, boxed}
      BY <2>2 DEF Load
    <3>3. real' = BuildRealGames(inGames', inBoxes')
      BY <2>2 DEF Load
    <3>4. QED
      BY <2>1, <3>1, <3>2, <3>3 DEF GamesInv
  <2>3. ASSUME EspnCorrects \/ UNCHANGED gamesVars \/ PullGames PROVE GamesInv'
    <3>1. /\ UNCHANGED <<listing, scored, real, inGames, inBoxes>>
          /\ listed \subseteq listed' /\ listed' \subseteq listing
          /\ boxed \subseteq boxed' /\ boxed' \subseteq scored
      BY <2>3 DEF EspnCorrects, gamesVars, PullGames, WriteGame, WriteBox, GamesInv
    <3>2. BuildRealGames(inGames, inBoxes)' = BuildRealGames(inGames, inBoxes)
      BY <3>1
    <3>3. QED
      BY <2>1, <3>1, <3>2 DEF GamesInv
  <2>4. QED
    BY <2>2, <2>3 DEF GamesNext, LoadAll, LoadOne
<1>3. QED
  BY <1>1, <1>2, PTL DEF GamesSpec

\* Tables that tell games from what is none: no such row has a box score, and
\* there are box scores, or no such row that was won.
Telling(rows, boxes) ==
  /\ rows \subseteq GameRows
  /\ \A row \in rows : row.game = NoGame => row.event \notin boxes
  /\ boxes # {} \/ \A row \in rows : row.game # NoGame \/ ~row.won

\* The rows of games that are not taken for phantoms.
Shown(rows, boxes) == {row \in rows : row.game # NoGame /\ ~Phantom(row, boxes)}

\* So do the tables loaded, once some box score is.
LEMMA LoadedTell ==
  ASSUME GamesInv, BothLoaded, Judged
  PROVE  /\ Telling(inGames, inBoxes)
         /\ inGames \subseteq listing
         /\ real = RealGamesOf(inGames, inBoxes)
<1>1. inGames \subseteq listing /\ inBoxes \subseteq scored
  BY DEF GamesInv, BothLoaded
<1>2. \A row \in inGames : row.game = NoGame => row.event \notin inBoxes
  BY <1>1 DEF GamesInv, AsListed
<1>3. inBoxes # {} \/ \A row \in inGames : row.game # NoGame \/ ~row.won
  BY <1>1 DEF GamesInv, AsListed, Judged
<1>4. real = RealGamesOf(inGames, inBoxes)
  BY DEF GamesInv, BothLoaded, BuildRealGames
<1>5. QED
  BY <1>1, <1>2, <1>3, <1>4 DEF Telling, GamesInv

\* What the two rules on a row by itself leave in is rows of games.
LEMMA CandidatesAreGames ==
  ASSUME NEW rows, NEW boxes, Telling(rows, boxes)
  PROVE  {row \in Listed(rows) : ~Phantom(row, boxes)} = Shown(rows, boxes)
<1>1. ASSUME NEW row \in rows, row.game # NoGame PROVE row \in Listed(rows)
  BY <1>1, ListingAssumption DEF Listed, Telling
<1>2. ASSUME NEW row \in rows, row.game = NoGame PROVE ~(row \in Listed(rows) /\ ~Phantom(row, boxes))
  BY <1>2, ListingAssumption DEF Listed, Phantom, Telling
<1>3. QED
  BY <1>1, <1>2 DEF Listed, Shown

\* Which is kept is the one ahead of the other rows of its game.
LEMMA KeptIsAhead ==
  ASSUME NEW rows, NEW boxes, Telling(rows, boxes)
  PROVE  /\ Kept(rows, boxes) \subseteq Shown(rows, boxes)
         /\ \A row \in Shown(rows, boxes) :
               (row \in Kept(rows, boxes) <=>
                  \A other \in Shown(rows, boxes) \ {row} : other.game = row.game => Ahead(row, other, boxes))
<1> DEFINE C == Shown(rows, boxes)
<1>1. Kept(rows, boxes) = {row \in C : \A other \in C \ {row} :
                             other.day = row.day /\ other.pair = row.pair => Before(row, other, boxes)}
  BY CandidatesAreGames DEF Kept
<1>2. \A row, other \in C : (other.day = row.day /\ other.pair = row.pair) <=> other.game = row.game
  BY ListingAssumption DEF Shown, Telling
<1> HIDE DEF C
<1>3. Kept(rows, boxes) = {row \in C : \A other \in C \ {row} : other.game = row.game => Ahead(row, other, boxes)}
  BY <1>1, <1>2, AheadIsBefore
<1>4. QED
  BY <1>3 DEF C

\* Of each game that has a row not taken for a phantom one is kept, and it has
\* a box score if that row has.
LEMMA OneIsKept ==
  ASSUME NEW rows, NEW boxes, Telling(rows, boxes), NEW row \in Shown(rows, boxes)
  PROVE  \E k \in Kept(rows, boxes) : k.game = row.game /\ (row.event \in boxes => k.event \in boxes)
<1> DEFINE S == {other \in Shown(rows, boxes) : other.game = row.game}
<1>1. S \in SUBSET GameRows /\ S # {}
  BY DEF Shown, Telling
<1>2. PICK k \in S : \A y \in S \ {k} : Ahead(k, y, boxes)
  BY <1>1, OneIsAhead
<1>3. k \in Kept(rows, boxes)
  BY <1>2, KeptIsAhead
<1>4. k = row \/ Ahead(k, row, boxes)
  BY <1>2
<1>5. QED
  BY <1>2, <1>3, <1>4 DEF Ahead

(* Whatever of the games and of the box scores a pull had written by the     *)
(* loads that read them: a loaded game is in real_games once, under the id   *)
(* its box score has, nothing else is there, and none is missing but one     *)
(* known by date only whose box score was not loaded. For any rows ESPN may  *)
(* list and any season's box scores, once one of them is loaded.             *)
THEOREM RealGamesHoldEachOnce == GamesSpec => []EachGameOnce
<1>1. GamesInv => EachGameOnce
  <2> SUFFICES ASSUME GamesInv, BothLoaded, Judged PROVE
          /\ \A r \in real : r.row.game # NoGame
          /\ \A r, q \in real : r.row.game = q.row.game => r = q
          /\ \A row \in inGames : row.game # NoGame =>
                \/ \E r \in real : /\ r.row.game = row.game
                                   /\ row.event \in inBoxes => r.row.event \in inBoxes
                \/ row.time = "date" /\ row.event \notin inBoxes
          /\ inGames = listing /\ inBoxes = scored => {r.row.game : r \in real} = GamesIn(listing)
    BY DEF EachGameOnce
  <2> DEFINE kept == Kept(inGames, inBoxes)
             entry(row) == [row |-> row, round |-> PlayoffRound(kept, row.pair),
                            number |-> SeriesGame(kept, row)]
  <2>1. Telling(inGames, inBoxes) /\ inGames \subseteq listing /\ real = {entry(row) : row \in kept}
    BY LoadedTell DEF RealGamesOf
  <2>2. \A row : entry(row).row = row
    OBVIOUS
  <2>3. /\ kept \subseteq Shown(inGames, inBoxes)
        /\ \A row \in Shown(inGames, inBoxes) :
              (row \in kept <=> \A other \in Shown(inGames, inBoxes) \ {row} : other.game = row.game => Ahead(row, other, inBoxes))
    BY <2>1, KeptIsAhead
  <2>4. \A row \in Shown(inGames, inBoxes) :
           \E k \in kept : k.game = row.game /\ (row.event \in inBoxes => k.event \in inBoxes)
    BY <2>1, OneIsKept
  <2> HIDE DEF kept, entry
  <2>5. ASSUME NEW x \in kept, NEW y \in kept, x.game = y.game PROVE x = y
    <3>1. SUFFICES ASSUME x # y PROVE FALSE
      OBVIOUS
    <3>2. Ahead(x, y, inBoxes) /\ Ahead(y, x, inBoxes)
      BY <2>3, <2>5, <3>1
    <3>3. x.event \in Nat /\ y.event \in Nat
      BY <2>1, <2>3, RowsAssumption DEF Shown, Telling
    <3>4. QED
      BY <3>2, <3>3 DEF Ahead
  <2>6. \A r \in real : r.row.game # NoGame
    BY <2>1, <2>2, <2>3 DEF Shown
  <2>7. ASSUME NEW r \in real, NEW q \in real, r.row.game = q.row.game PROVE r = q
    <3>1. PICK x \in kept : r = entry(x)
      BY <2>1
    <3>2. PICK y \in kept : q = entry(y)
      BY <2>1
    <3>3. x = y
      BY <2>2, <2>5, <2>7, <3>1, <3>2
    <3>4. QED
      BY <3>1, <3>2, <3>3
  <2>8. ASSUME NEW row \in Shown(inGames, inBoxes)
        PROVE  \E r \in real : r.row.game = row.game /\ (row.event \in inBoxes => r.row.event \in inBoxes)
    <3>1. PICK k \in kept : k.game = row.game /\ (row.event \in inBoxes => k.event \in inBoxes)
      BY <2>4
    <3>2. entry(k) \in real /\ entry(k).row = k
      BY <2>1, <2>2
    <3>3. QED
      BY <3>1, <3>2
  <2>9. ASSUME NEW row \in inGames, row.game # NoGame
        PROVE  \/ row \in Shown(inGames, inBoxes)
               \/ row.time = "date" /\ row.event \notin inBoxes
    BY <2>9 DEF Shown, Phantom
  <2>10. ASSUME inGames = listing, inBoxes = scored PROVE {r.row.game : r \in real} = GamesIn(listing)
    <3>1. \A row \in listing : row.game # NoGame => row \in Shown(inGames, inBoxes)
      BY <2>10 DEF GamesInv, AsListed, Shown, Phantom
    <3>2. \A r \in real : r.row \in listing
      BY <2>1, <2>2, <2>3 DEF Shown
    <3>3. QED
      BY <2>6, <2>8, <3>1, <3>2 DEF GamesIn
  <2>11. QED
    BY <2>6, <2>7, <2>8, <2>9, <2>10
<1>2. QED
  BY <1>1, GamesInvHolds, PTL

\* The series the warehouse holds are of the bracket, and open in its order.
LEMMA SeriesAre ==
  ASSUME NEW rows, NEW boxes, Telling(rows, boxes)
  PROVE  LET kept == Kept(rows, boxes)
         IN  /\ Series(kept) \subseteq DOMAIN RoundOf
             /\ \A pair, other \in Series(kept) : pair \cap other # {} =>
                   (Opened(kept, other) <= Opened(kept, pair) <=> RoundOf[other] <= RoundOf[pair])
<1> DEFINE kept == Kept(rows, boxes)
           days(pair) == {row.day : row \in {k \in kept : k.pair = pair}}
<1>1. \A row \in kept : row \in GameRows /\ row.game # NoGame /\ row.day \in Nat /\ row.pair \in DOMAIN RoundOf
  BY KeptIsAhead, RowsAssumption, BracketAssumption DEF Telling, Shown
<1>2. Series(kept) \subseteq DOMAIN RoundOf
  BY <1>1 DEF Series
<1>3. ASSUME NEW pair \in Series(kept)
      PROVE  \E row \in kept : row.pair = pair /\ row.day = Opened(kept, pair)
  <2>1. days(pair) \in SUBSET Nat /\ days(pair) # {}
    BY <1>1 DEF Series
  <2>2. Min(days(pair)) \in days(pair)
    <3> HIDE DEF days
    <3>1. QED
      BY <2>1, MinIs
  <2>3. QED
    BY <2>2 DEF Opened
<1> HIDE DEF kept
<1>4. ASSUME NEW pair \in Series(kept), NEW other \in Series(kept), pair \cap other # {},
             RoundOf[other] < RoundOf[pair]
      PROVE  Opened(kept, other) < Opened(kept, pair)
  <2>1. PICK row \in kept : row.pair = pair /\ row.day = Opened(kept, pair)
    BY <1>3
  <2>2. PICK early \in kept : early.pair = other /\ early.day = Opened(kept, other)
    BY <1>3
  <2>3. early.day < row.day
    BY <1>1, <1>4, <2>1, <2>2, BracketAssumption
  <2>4. QED
    BY <2>1, <2>2, <2>3
<1>5. \A pair \in Series(kept) : RoundOf[pair] \in Nat /\ Opened(kept, pair) \in Nat
  BY <1>1, <1>2, <1>3, BracketAssumption
<1>6. ASSUME NEW pair \in Series(kept), NEW other \in Series(kept), pair \cap other # {}
      PROVE  Opened(kept, other) <= Opened(kept, pair) <=> RoundOf[other] <= RoundOf[pair]
  <2>1. CASE RoundOf[other] < RoundOf[pair]
    <3>1. Opened(kept, other) < Opened(kept, pair)
      BY <1>4, <1>6, <2>1
    <3>2. QED
      BY <1>5, <2>1, <3>1
  <2>2. CASE RoundOf[pair] < RoundOf[other]
    <3>1. Opened(kept, pair) < Opened(kept, other)
      BY <1>4, <1>6, <2>2
    <3>2. QED
      BY <1>5, <2>2, <3>1
  <2>3. CASE RoundOf[pair] = RoundOf[other]
    <3>1. pair = other
      BY <1>2, <1>6, <2>3, BracketAssumption
    <3>2. QED
      BY <1>5, <3>1
  <2>4. QED
    BY <1>5, <2>1, <2>2, <2>3
<1>7. QED
  BY <1>2, <1>6 DEF kept

\* A side's series up to one of them: as many as its round.
UpTo(side, pair) == {other \in DOMAIN RoundOf : side \in other /\ RoundOf[other] <= RoundOf[pair]}

\* Of a side's series, as many are of rounds up to this one's as its number.
LEMMA AsManyAsItsRound ==
  ASSUME NEW pair \in DOMAIN RoundOf, NEW side \in pair
  PROVE  IsFiniteSet(UpTo(side, pair)) /\ Cardinality(UpTo(side, pair)) = RoundOf[pair]
<1> DEFINE A == UpTo(side, pair)
           B == 1..RoundOf[pair]
           f == [other \in A |-> RoundOf[other]]
<1>1. RoundOf[pair] \in Nat /\ RoundOf[pair] > 0
  BY BracketAssumption
<1>2. f \in [A -> B]
  BY <1>1, BracketAssumption DEF UpTo
<1>3. \A x, y \in A : f[x] = f[y] => x = y
  BY BracketAssumption DEF UpTo
<1>4. \A k \in B : \E x \in A : f[x] = k
  <2>1. ASSUME NEW k \in B PROVE \E x \in A : f[x] = k
    <3>1. PICK other \in DOMAIN RoundOf : side \in other /\ RoundOf[other] = k
      BY <1>1, BracketAssumption
    <3>2. other \in A
      BY <1>1, <3>1 DEF UpTo
    <3>3. QED
      BY <3>1, <3>2
  <2>2. QED
    BY <2>1
<1>5. IsFiniteSet(A)
  <2>1. A \subseteq DOMAIN RoundOf
    BY DEF UpTo
  <2> HIDE DEF A
  <2>2. QED
    BY <2>1, BracketAssumption, FS_Subset
<1>6. f \in Surjection(A, B) /\ f \in Injection(A, B)
  <2> HIDE DEF A, B, f
  <2>1. QED
    BY <1>2, <1>3, <1>4 DEF Surjection, Injection, IsInjective
<1>7. Cardinality(B) = Cardinality(A)
  <2> HIDE DEF A, B, f
  <2>1. QED
    BY <1>5, <1>6, FS_Surjection
<1>8. Cardinality(B) = RoundOf[pair]
  BY <1>1, FS_Interval
<1>9. QED
  BY <1>5, <1>7, <1>8

\* A series is of two teams.
LEMMA SeriesAreOfTwo == \A pair \in DOMAIN RoundOf : \E a, b \in KnownTeams : a # b /\ pair = {a, b}
BY BracketAssumption

\* With at most one series missing, the sides that miss none of theirs place a
\* series where it was; and not both sides of one that is there can miss it.
LEMMA RoundsAre ==
  ASSUME NEW rows, NEW boxes, Telling(rows, boxes),
         Cardinality({pair \in DOMAIN RoundOf : pair \notin Series(Kept(rows, boxes))}) <= 1,
         NEW pair \in Series(Kept(rows, boxes))
  PROVE  PlayoffRound(Kept(rows, boxes), pair) \in {0, RoundOf[pair]}
<1> DEFINE kept == Kept(rows, boxes)
           Missing == {other \in DOMAIN RoundOf : other \notin Series(kept)}
           places == {Place(kept, pair, side) : side \in pair}
<1>1. /\ Series(kept) \subseteq DOMAIN RoundOf
      /\ \A other \in Series(kept) : pair \cap other # {} =>
            (Opened(kept, other) <= Opened(kept, pair) <=> RoundOf[other] <= RoundOf[pair])
  BY SeriesAre
<1>2. Cardinality(Missing) <= 1 /\ Missing \subseteq DOMAIN RoundOf /\ Missing \cap Series(kept) = {}
      /\ pair \in Series(kept) /\ pair \in DOMAIN RoundOf
      /\ \A other \in DOMAIN RoundOf : other \in Series(kept) \/ other \in Missing
  BY <1>1
<1> HIDE DEF kept, Missing
<1>3. PICK a, b : pair = {a, b} /\ a # b
  <2>1. pair \in DOMAIN RoundOf
    BY <1>2
  <2>2. \E a, b \in KnownTeams : a # b /\ pair = {a, b}
    BY <2>1, SeriesAreOfTwo
  <2>3. QED
    BY <2>2
<1>4. \A x, y \in Missing : x = y
  <2>1. SUFFICES ASSUME NEW x \in Missing, NEW y \in Missing, x # y PROVE FALSE
    OBVIOUS
  <2>2. IsFiniteSet(Missing)
    BY <1>2, BracketAssumption, FS_Subset
  <2>3. Cardinality({x, y}) = 2
    <3>1. IsFiniteSet({x}) /\ Cardinality({x}) = 1
      BY FS_Singleton
    <3>2. Cardinality({x} \cup {y}) = 1 + 1
      BY <2>1, <3>1, FS_AddElement
    <3>3. {x} \cup {y} = {x, y}
      OBVIOUS
    <3>4. QED
      BY <3>2, <3>3
  <2>4. {x, y} \subseteq Missing
    OBVIOUS
  <2>5. Cardinality({x, y}) <= Cardinality(Missing) /\ Cardinality(Missing) \in Nat
    BY <2>2, <2>4, FS_Subset, FS_CardinalityType
  <2>6. QED
    BY <1>2, <2>3, <2>5
<1>5. ASSUME NEW side \in pair, Missing \cap UpTo(side, pair) = {}
      PROVE  Place(kept, pair, side) = RoundOf[pair]
  <2>1. {other \in Series(kept) : side \in other /\ Opened(kept, other) <= Opened(kept, pair)} = UpTo(side, pair)
    <3>1. \A other \in Series(kept) : side \in other => pair \cap other # {}
      OBVIOUS
    <3>2. QED
      BY <1>1, <1>2, <1>5, <3>1 DEF UpTo
  <2>2. QED
    BY <1>2, <2>1, AsManyAsItsRound DEF Place
<1>6. Missing \cap UpTo(a, pair) = {} \/ Missing \cap UpTo(b, pair) = {}
  <2>1. SUFFICES ASSUME NEW x \in Missing, x \in UpTo(a, pair), x \in UpTo(b, pair) PROVE FALSE
    BY <1>4
  <2>2. a \in x /\ b \in x /\ x \in DOMAIN RoundOf
    BY <2>1 DEF UpTo
  <2>3. x = pair
    BY <1>3, <2>2, BracketAssumption
  <2>4. QED
    BY <1>2, <2>1, <2>3
<1>7. RoundOf[pair] \in places
  <2>1. CASE Missing \cap UpTo(a, pair) = {}
    <3>1. a \in pair /\ Place(kept, pair, a) = RoundOf[pair]
      BY <1>3, <1>5, <2>1
    <3>2. QED
      BY <3>1
  <2>2. CASE Missing \cap UpTo(b, pair) = {}
    <3>1. b \in pair /\ Place(kept, pair, b) = RoundOf[pair]
      BY <1>3, <1>5, <2>2
    <3>2. QED
      BY <3>1
  <2>3. QED
    BY <1>6, <2>1, <2>2
<1>8. IsFiniteSet(places)
  <2>1. places = {Place(kept, pair, a)} \cup {Place(kept, pair, b)}
    BY <1>3
  <2>2. IsFiniteSet({Place(kept, pair, a)})
    BY FS_Singleton
  <2> HIDE DEF places
  <2>3. QED
    BY <2>1, <2>2, FS_AddElement
<1>9. PlayoffRound(kept, pair) = IF Cardinality(places) = 1 THEN CHOOSE p \in places : TRUE ELSE 0
  BY DEF PlayoffRound
<1> HIDE DEF places
<1>10. CASE Cardinality(places) = 1
  <2>1. PICK x : places = {x}
    BY <1>8, <1>10, FS_Singleton
  <2>2. (CHOOSE p \in places : TRUE) = RoundOf[pair]
    BY <1>7, <2>1
  <2>3. QED
    BY <1>9, <1>10, <2>2 DEF kept
<1>11. CASE Cardinality(places) # 1
  BY <1>9, <1>11 DEF kept
<1>12. QED
  BY <1>10, <1>11

(* A playoff series is given the round of the bracket it was played in, or   *)
(* none, with any one series of the postseason missing from the tables.      *)
THEOREM RealGamesRoundsAreTrue == GamesSpec => []RoundIsTrueOrUnsaid
<1>1. GamesInv => RoundIsTrueOrUnsaid
  <2> DEFINE kept == Kept(inGames, inBoxes)
             entry(row) == [row |-> row, round |-> PlayoffRound(kept, row.pair),
                            number |-> SeriesGame(kept, row)]
  <2>1. SUFFICES ASSUME GamesInv, BothLoaded, Judged,
                        Cardinality({pair \in DOMAIN RoundOf : \A r \in real : r.row.pair # pair}) <= 1,
                        NEW r \in real
                 PROVE  r.round \in {0, RoundOf[r.row.pair]}
    BY DEF RoundIsTrueOrUnsaid
  <2>2. real = {entry(row) : row \in kept}
    BY <2>1, LoadedTell DEF RealGamesOf
  <2>3. \A row : entry(row).row = row /\ entry(row).round = PlayoffRound(kept, row.pair)
    OBVIOUS
  <2> HIDE DEF kept, entry
  <2>4. \A pair : (\A q \in real : q.row.pair # pair) <=> pair \notin Series(kept)
    BY <2>2, <2>3 DEF Series
  <2>5. {pair \in DOMAIN RoundOf : \A q \in real : q.row.pair # pair} = {pair \in DOMAIN RoundOf : pair \notin Series(kept)}
    BY <2>4
  <2>6. PICK row \in kept : r = entry(row)
    BY <2>2
  <2>7. row.pair \in Series(kept)
    BY DEF Series
  <2>8. PlayoffRound(kept, row.pair) \in {0, RoundOf[row.pair]}
    BY <2>1, <2>5, <2>7, LoadedTell, RoundsAre DEF kept
  <2>9. QED
    BY <2>3, <2>6, <2>8
<1>2. QED
  BY <1>1, GamesInvHolds, PTL

(* games and team_box_stats, wherever loaded, never have the hand-listed     *)
(* game's teams the wrong way round, whichever of the two a load replaced    *)
(* and whether ESPN still serves it so: a repaired row is left alone.        *)
THEOREM RealGamesSidesStay == GamesSpec => []SidesAreReal
<1>1. GamesInit => SidesAreReal
  BY DEF GamesInit, SidesAreReal
<1>2. SidesAreReal /\ [GamesNext]_gamesVars => SidesAreReal'
  <2> SUFFICES ASSUME SidesAreReal, [GamesNext]_gamesVars PROVE SidesAreReal'
    OBVIOUS
  <2>1. ASSUME NEW tables, Load(tables) PROVE SidesAreReal'
    BY <2>1 DEF Load, SidesAreReal, RepairSides, OnDisk
  <2>2. CASE EspnCorrects
    BY <2>2 DEF EspnCorrects, SidesAreReal
  <2>3. CASE PullGames
    BY <2>3 DEF PullGames, WriteGame, WriteBox, SidesAreReal
  <2>4. CASE UNCHANGED gamesVars
    BY <2>4 DEF gamesVars, SidesAreReal
  <2>5. QED
    BY <2>1, <2>2, <2>3, <2>4 DEF GamesNext, LoadAll, LoadOne
<1>3. QED
  BY <1>1, <1>2, PTL DEF GamesSpec

-----------------------------------------------------------------------------
(***************************************************************************)
(* Who a name is.                                                           *)
(***************************************************************************)

\* What is filed is a row of a player the pull knows, and of a box score it has
\* stored.
AthletesInv ==
  /\ known \subseteq Athletes
  /\ boxScores \in [Slots -> [Athletes -> Shapes \cup {NoRow}]]
  /\ next \in Nat
  /\ \A s \in Slots, a \in Athletes : boxScores[s][a] # NoRow => a \in known /\ s < next

\* It holds throughout.
LEMMA AthletesInvHolds == AthletesSpec => []AthletesInv
<1>1. AthletesInit => AthletesInv
  <2>1. Min(Slots) \in Nat
    <3>1. PICK m \in Slots : \A s \in Slots : m <= s
      BY SlotsAssumption, LeastNat
    <3>2. QED
      BY <3>1, SlotsAssumption DEF Min
  <2>2. QED
    BY <2>1 DEF AthletesInit, AthletesInv
<1>2. AthletesInv /\ [AthletesNext]_athletesVars => AthletesInv'
  <2> SUFFICES ASSUME AthletesInv, [AthletesNext]_athletesVars PROVE AthletesInv'
    OBVIOUS
  <2>1. CASE StoreBoxScore
    <3>1. /\ next \in Slots /\ next \in Nat /\ next' = next + 1
          /\ \E rows \in [Athletes -> Shapes \cup {NoRow}] :
                /\ boxScores' = [boxScores EXCEPT ![next] = rows]
                /\ known' = known \cup {a \in Athletes : rows[a] # NoRow}
      BY <2>1 DEF StoreBoxScore, AthletesInv
    <3>1a. PICK rows \in [Athletes -> Shapes \cup {NoRow}] :
             /\ boxScores' = [boxScores EXCEPT ![next] = rows]
             /\ known' = known \cup {a \in Athletes : rows[a] # NoRow}
      BY <3>1
    <3>2. known' \subseteq Athletes /\ known \subseteq known'
      BY <3>1a DEF AthletesInv
    <3>3. boxScores' \in [Slots -> [Athletes -> Shapes \cup {NoRow}]]
      BY <3>1a DEF AthletesInv
    <3>4. ASSUME NEW s \in Slots, NEW a \in Athletes, boxScores'[s][a] # NoRow
          PROVE  a \in known' /\ s < next'
      <4>1. CASE s = next
        BY <3>1, <3>1a, <3>4, <4>1 DEF AthletesInv
      <4>2. CASE s # next
        <5>1. boxScores'[s] = boxScores[s]
          BY <3>1a, <4>2 DEF AthletesInv
        <5>2. s \in Nat
          BY SlotsAssumption
        <5>3. a \in known /\ s < next
          BY <3>4, <5>1 DEF AthletesInv
        <5>4. QED
          BY <3>1, <3>2, <5>2, <5>3
      <4>3. QED
        BY <4>1, <4>2
    <3>5. QED
      BY <3>1, <3>2, <3>3, <3>4 DEF AthletesInv
  <2>2. CASE UNCHANGED << known, boxScores, next >>
    BY <2>2 DEF AthletesInv
  <2>3. QED
    BY <2>1, <2>2 DEF AthletesNext, AthletesOver, GiveId, athletesVars
<1>3. QED
  BY <1>1, <1>2, PTL DEF AthletesSpec

\* One order, written twice: by the pull and by the load.
MinutesOf(a) == Cardinality(WithMinutes(a))
FilingsOf(a) == Cardinality(RowsOf(a))
Outranks(a, b) ==
  \/ MinutesOf(a) > MinutesOf(b)
  \/ MinutesOf(a) = MinutesOf(b) /\ FilingsOf(a) > FilingsOf(b)
  \/ MinutesOf(a) = MinutesOf(b) /\ FilingsOf(a) = FilingsOf(b) /\ a < b

\* The three ways the code ranks two ids are one order.
LEMMA OneOrder ==
  ASSUME NEW a, NEW b
  PROVE  (Established(a, b) <=> Outranks(a, b)) /\ (RankedBefore(a, b) <=> Outranks(a, b))
<1>1. Established(a, b) <=> Outranks(a, b)
  BY DEF Established, Outranks, MinutesOf, FilingsOf
<1> DEFINE history(x) == << MinutesOf(x), FilingsOf(x) >>
<1>2. RankedBefore(a, b) <=>
         \/ history(a)[1] > history(b)[1]
         \/ history(a)[1] = history(b)[1] /\ history(a)[2] > history(b)[2]
         \/ history(a) = history(b) /\ a < b
  BY DEF RankedBefore, MinutesOf, FilingsOf
<1>3. history(a) = history(b) <=> MinutesOf(a) = MinutesOf(b) /\ FilingsOf(a) = FilingsOf(b)
  OBVIOUS
<1>4. /\ history(a)[1] = MinutesOf(a) /\ history(b)[1] = MinutesOf(b)
      /\ history(a)[2] = FilingsOf(a) /\ history(b)[2] = FilingsOf(b)
  OBVIOUS
<1> HIDE DEF history
<1>5. RankedBefore(a, b) <=> Outranks(a, b)
  BY <1>2, <1>3, <1>4 DEF Outranks
<1>6. QED
  BY <1>1, <1>5

\* What an id is ranked by are numbers no greater than that of the slots.
LEMMA CountsAre ==
  ASSUME NEW a
  PROVE  /\ MinutesOf(a) \in Nat /\ MinutesOf(a) <= Cardinality(Slots)
         /\ FilingsOf(a) \in Nat /\ FilingsOf(a) <= Cardinality(Slots)
<1>1. IsFiniteSet(Slots) /\ WithMinutes(a) \subseteq Slots /\ RowsOf(a) \subseteq Slots
  BY SlotsAssumption DEF WithMinutes, RowsOf
<1>2. /\ IsFiniteSet(WithMinutes(a)) /\ Cardinality(WithMinutes(a)) <= Cardinality(Slots)
      /\ IsFiniteSet(RowsOf(a)) /\ Cardinality(RowsOf(a)) <= Cardinality(Slots)
  BY <1>1, FS_Subset
<1>3. QED
  BY <1>2, FS_CardinalityType DEF MinutesOf, FilingsOf

\* No two ids outrank each other.
LEMMA OutranksIsStrict ==
  ASSUME NEW a \in Athletes, NEW b \in Athletes, Outranks(a, b), Outranks(b, a)
  PROVE  FALSE
<1>1. a \in Nat /\ b \in Nat
  BY AthletesAssumption
<1>2. /\ MinutesOf(a) \in Nat /\ MinutesOf(b) \in Nat
      /\ FilingsOf(a) \in Nat /\ FilingsOf(b) \in Nat
  BY CountsAre
<1>3. QED
  BY <1>1, <1>2 DEF Outranks

\* Some id outranks the others, whoever they are.
LEMMA OneOutranks ==
  ASSUME NEW S \in SUBSET Athletes, S # {}
  PROVE  \E a \in S : \A b \in S \ {a} : Outranks(a, b)
<1> DEFINE K == Cardinality(Slots)
           A == {K - MinutesOf(a) : a \in S}
<1>1. K \in Nat
  BY SlotsAssumption, FS_CardinalityType
<1> HIDE DEF K
<1>2. \A a \in S : /\ MinutesOf(a) \in Nat /\ MinutesOf(a) <= K
                   /\ FilingsOf(a) \in Nat /\ FilingsOf(a) <= K
  BY CountsAre DEF K
<1>3. A \in SUBSET Nat /\ A # {}
  BY <1>1, <1>2
<1>4. PICK m \in A : \A x \in A : m <= x
  BY <1>3, LeastNat
<1>5. PICK p \in S : m = K - MinutesOf(p)
  OBVIOUS
<1>6. ASSUME NEW a \in S PROVE MinutesOf(a) <= MinutesOf(p)
  <2>1. m <= K - MinutesOf(a)
    BY <1>4
  <2>2. MinutesOf(a) \in Nat /\ MinutesOf(p) \in Nat
    BY <1>2
  <2>3. QED
    BY <1>1, <1>5, <2>1, <2>2
<1> DEFINE T == {a \in S : MinutesOf(a) = MinutesOf(p)}
           B == {K - FilingsOf(a) : a \in T}
<1>7. B \in SUBSET Nat /\ B # {}
  BY <1>1, <1>2
<1>8. PICK r \in B : \A x \in B : r <= x
  BY <1>7, LeastNat
<1>9. PICK q \in T : r = K - FilingsOf(q)
  OBVIOUS
<1>10. ASSUME NEW a \in T PROVE FilingsOf(a) <= FilingsOf(q)
  <2>1. r <= K - FilingsOf(a)
    BY <1>8
  <2>2. FilingsOf(a) \in Nat /\ FilingsOf(q) \in Nat
    BY <1>2
  <2>3. QED
    BY <1>1, <1>9, <2>1, <2>2
<1> DEFINE U == {a \in T : FilingsOf(a) = FilingsOf(q)}
<1>11. U \in SUBSET Nat /\ U # {}
  BY AthletesAssumption
<1>12. PICK a \in U : \A x \in U : a <= x
  BY <1>11, LeastNat
<1>13. ASSUME NEW b \in S \ {a} PROVE Outranks(a, b)
  <2>1. a \in Nat /\ b \in Nat
    BY AthletesAssumption
  <2>2. MinutesOf(a) = MinutesOf(p) /\ FilingsOf(a) = FilingsOf(q)
    OBVIOUS
  <2>3. CASE b \in U
    <3>1. a <= b /\ a # b
      BY <1>12, <2>3
    <3>2. QED
      BY <2>1, <2>2, <2>3, <3>1 DEF Outranks
  <2>4. CASE b \in T /\ b \notin U
    <3>1. FilingsOf(b) <= FilingsOf(q) /\ FilingsOf(b) # FilingsOf(q)
      BY <1>10, <2>4
    <3>2. QED
      BY <1>2, <2>2, <2>4, <3>1 DEF Outranks
  <2>5. CASE b \notin T
    <3>1. MinutesOf(b) <= MinutesOf(p) /\ MinutesOf(b) # MinutesOf(p)
      BY <1>6, <2>5
    <3>2. QED
      BY <1>2, <2>2, <3>1 DEF Outranks
  <2>6. QED
    BY <2>3, <2>4, <2>5
<1>14. QED
  BY <1>13

\* The id a load merges into is one it merges, above all the others.
LEMMA CanonicalIs ==
  ASSUME known \subseteq Athletes, NEW name, Candidates(name) # {}
  PROVE  /\ Canonical(name) \in Candidates(name)
         /\ \A b \in Candidates(name) \ {Canonical(name)} : Outranks(Canonical(name), b)
<1>1. Candidates(name) \in SUBSET Athletes
  BY DEF Candidates, IdsOf
<1>2. \E a \in Candidates(name) : \A b \in Candidates(name) \ {a} : RankedBefore(a, b)
  BY <1>1, OneOutranks, OneOrder
<1>3. /\ Canonical(name) \in Candidates(name)
      /\ \A b \in Candidates(name) \ {Canonical(name)} : RankedBefore(Canonical(name), b)
  BY <1>2 DEF Canonical
<1>4. QED
  BY <1>3, OneOrder

\* A set has two elements if it is a pair.
LEMMA CountOfTwo ==
  ASSUME NEW S, IsFiniteSet(S)
  PROVE  Cardinality(S) = 2 <=> \E a, b \in S : a # b /\ S = {a, b}
<1>1. ASSUME Cardinality(S) = 2 PROVE \E a, b \in S : a # b /\ S = {a, b}
  <2>1. S # {}
    BY <1>1, FS_EmptySet
  <2>2. PICK a \in S : TRUE
    BY <2>1
  <2>3. IsFiniteSet(S \ {a}) /\ Cardinality(S \ {a}) = 1
    BY <1>1, FS_RemoveElement
  <2>4. PICK b : S \ {a} = {b}
    BY <2>3, FS_Singleton
  <2>5. QED
    BY <2>4
<1>2. ASSUME NEW a \in S, NEW b \in S, a # b, S = {a, b} PROVE Cardinality(S) = 2
  <2>1. S \ {b} = {a}
    BY <1>2
  <2>2. Cardinality(S \ {b}) = 1
    BY <2>1, FS_Singleton
  <2>3. Cardinality(S \ {b}) = Cardinality(S) - 1
    BY FS_RemoveElement
  <2>4. Cardinality(S) \in Nat
    BY FS_CardinalityType
  <2>5. QED
    BY <2>2, <2>3, <2>4
<1>3. QED
  BY <1>1, <1>2

\* A name has finitely many ids.
LEMMA IdsAreFinite ==
  ASSUME known \subseteq Athletes, NEW name
  PROVE  IsFiniteSet(IdsOf(name))
<1>1. IsFiniteSet(Athletes) /\ IdsOf(name) \subseteq Athletes
  BY AthletesAssumption DEF IdsOf
<1>2. QED
  BY <1>1, FS_Subset

\* An id is given its own or that of one who bears its name.
LEMMA MergedIsANamesake ==
  ASSUME known \subseteq Athletes, NEW a \in known
  PROVE  /\ MergedId(a) \in known /\ NameOf[MergedId(a)] = NameOf[a]
         /\ MergedId(a) # a => Safe(NameOf[a])
<1>1. CASE a \in Candidates(NameOf[a]) /\ Merges(NameOf[a])
  <2>1. MergedId(a) = Canonical(NameOf[a])
    BY <1>1 DEF MergedId
  <2>2. Canonical(NameOf[a]) \in Candidates(NameOf[a])
    BY <1>1, CanonicalIs
  <2>3. Safe(NameOf[a])
    BY <1>1 DEF Merges
  <2>4. QED
    BY <2>1, <2>2, <2>3 DEF Candidates, IdsOf
<1>2. CASE ~(a \in Candidates(NameOf[a]) /\ Merges(NameOf[a]))
  <2>1. MergedId(a) = a
    BY <1>2 DEF MergedId
  <2>2. QED
    BY <2>1
<1>3. QED
  BY <1>1, <1>2

\* duplicate_athletes_sql compares the lines of exactly two: were three ids of
\* one name in a box score, it would not look, and lose a line.
AtMostTwoFiled ==
  \A s \in Slots : \A a, b, c \in known :
      /\ NameOf[a] = NameOf[b] /\ NameOf[b] = NameOf[c]
      /\ boxScores[s][a] # NoRow /\ boxScores[s][b] # NoRow /\ boxScores[s][c] # NoRow
      => a = b \/ b = c \/ a = c

(* A merge rewrites ids and keeps one row of two: no line with minutes is    *)
(* lost to it, nor told as anything else, whatever is filed.                 *)
THEOREM AthletesLinesSurvive == AthletesSpec => [](AtMostTwoFiled => LinesSurviveTheMerge)
<1>1. AthletesInv => (AtMostTwoFiled => LinesSurviveTheMerge)
  <2> SUFFICES ASSUME AthletesInv, AtMostTwoFiled,
                      NEW s \in Slots, NEW a \in known, HasMinutes(boxScores[s][a])
               PROVE  Deduped(s, MergedId(a)) = boxScores[s][a]
    BY DEF LinesSurviveTheMerge
  <2> DEFINE id == MergedId(a)
             rows == {x \in Athletes : boxScores[s][x] # NoRow /\ MergedId(x) = id}
             better(x, y) == \/ Informs(boxScores[s][x]) > Informs(boxScores[s][y])
                             \/ /\ Informs(boxScores[s][x]) = Informs(boxScores[s][y])
                                /\ x = id \/ (y # id /\ x < y)
             kept == CHOOSE x \in rows : \A y \in rows \ {x} : better(x, y)
  <2>1. Deduped(s, id) = IF rows = {} THEN NoRow ELSE boxScores[s][kept]
    BY DEF Deduped
  <2>2. known \subseteq Athletes
    BY DEF AthletesInv
  <2>3. a \in rows
    BY <2>2 DEF HasMinutes
  <2>4. \A x \in rows : x \in known /\ x \in Athletes /\ boxScores[s][x] # NoRow
    BY DEF AthletesInv
  <2>5. \A x \in rows : NameOf[x] = NameOf[a]
    BY <2>2, <2>4, MergedIsANamesake
  <2>6. \A x \in rows, y \in rows : x = a \/ y = a \/ x = y
    BY <2>3, <2>4, <2>5 DEF AtMostTwoFiled
  <2>7. ASSUME NEW b \in rows, b # a, HasMinutes(boxScores[s][b])
        PROVE  boxScores[s][b] = boxScores[s][a]
    <3>1. Safe(NameOf[a])
      <4>1. MergedId(a) # a \/ MergedId(b) # b
        BY <2>7
      <4>2. QED
        BY <2>2, <2>4, <2>5, <4>1, MergedIsANamesake
    <3> DEFINE F == {x \in IdsOf(NameOf[a]) : boxScores[s][x] # NoRow}
    <3>2. F = {a, b} /\ a \in F /\ b \in F
      <4>1. a \in F /\ b \in F
        BY <2>3, <2>4, <2>5 DEF IdsOf
      <4>2. \A x \in F : x = a \/ x = b
        BY <2>3, <2>4, <2>5, <2>7 DEF IdsOf, AtMostTwoFiled
      <4>3. QED
        BY <4>1, <4>2
    <3>3. Cardinality(F) = 2
      <4>1. IsFiniteSet(IdsOf(NameOf[a])) /\ F \subseteq IdsOf(NameOf[a])
        BY <2>2, IdsAreFinite
      <4>2. IsFiniteSet(F)
        BY <4>1, FS_Subset
      <4>3. QED
        BY <2>7, <3>2, <4>2, CountOfTwo
    <3>4. s \in DupGroups(NameOf[a])
      BY <3>3 DEF DupGroups
    <3>5. a \in Nat /\ b \in Nat /\ a \in IdsOf(NameOf[a]) /\ b \in IdsOf(NameOf[a])
      BY <2>2, <2>4, <2>5, AthletesAssumption DEF IdsOf
    <3>6. a < b \/ b < a
      BY <2>7, <3>5
    <3>7. QED
      BY <2>7, <3>1, <3>4, <3>5, <3>6 DEF Safe
  <2>8. \A x \in rows : Informs(boxScores[s][x]) \in 0..2
    BY DEF Informs
  <2>9. Informs(boxScores[s][a]) = 2
    BY DEF Informs, HasMinutes
  <2>10. \A x \in rows : ~HasMinutes(boxScores[s][x]) => Informs(boxScores[s][x]) < 2
    BY DEF Informs
  <2>11. \A x \in rows : x \in Nat
    BY AthletesAssumption
  <2> HIDE DEF rows, id
  <2>12. CASE \E b \in rows : b # a /\ HasMinutes(boxScores[s][b])
    <3>1. PICK b \in rows : b # a /\ HasMinutes(boxScores[s][b])
      BY <2>12
    <3>2. boxScores[s][b] = boxScores[s][a]
      BY <2>7, <3>1
    <3>3. \A x \in rows : x = a \/ x = b
      BY <2>6, <3>1
    <3>4. better(a, b) \/ better(b, a)
      <4>1. Informs(boxScores[s][b]) = Informs(boxScores[s][a])
        BY <3>2
      <4>2. a < b \/ b < a
        BY <2>3, <2>11, <3>1
      <4>3. QED
        BY <3>1, <4>1, <4>2
    <3> HIDE DEF better
    <3>5. \E x \in rows : \A y \in rows \ {x} : better(x, y)
      BY <2>3, <3>1, <3>3, <3>4
    <3>6. kept \in rows
      BY <3>5
    <3>7. QED
      BY <2>1, <2>3, <3>2, <3>3, <3>6 DEF id
  <2>13. CASE \A b \in rows : b # a => ~HasMinutes(boxScores[s][b])
    <3>1. \A y \in rows \ {a} : better(a, y)
      BY <2>8, <2>9, <2>10, <2>13
    <3>2. \A x \in rows \ {a} : ~better(x, a)
      BY <2>8, <2>9, <2>10, <2>13
    <3> HIDE DEF better
    <3>3. kept \in rows /\ \A y \in rows \ {kept} : better(kept, y)
      BY <2>3, <3>1
    <3>4. kept = a
      BY <2>3, <3>2, <3>3
    <3>5. QED
      BY <2>1, <2>3, <3>4 DEF id
  <2>14. QED
    BY <2>12, <2>13
<1>2. QED
  BY <1>1, AthletesInvHolds, PTL

\* One id bears a name: it stands for itself.  Two who shared a box score: the
\* pull answers with the one the load would merge both into.
LEMMA SoleIdStands ==
  ASSUME known \subseteq Athletes, NEW a \in known, IdsOf(NameOf[a]) = {a}
  PROVE  MergedId(a) = a
BY MergedIsANamesake DEF IdsOf

\* The id a pair resolves to is one of the two, which have shared a team, and no
\* other id's alias.
LEMMA ResolvedIsCanonical ==
  ASSUME known \subseteq Athletes, NEW name, NEW a, NEW b,
         a # b, IdsOf(name) = {a, b}, ResolvePair({a, b}) # NoId
  PROVE  /\ Share(a, b)
         /\ ResolvePair({a, b}) \in {a, b}
         /\ \A x \in {a, b} \ {ResolvePair({a, b})} : Outranks(ResolvePair({a, b}), x)
         /\ MergedId(ResolvePair({a, b})) = ResolvePair({a, b})
<1> DEFINE S == {a, b}
           id == ResolvePair(S)
<1>1. S \in SUBSET Athletes /\ S # {} /\ NameOf[a] = name /\ NameOf[b] = name /\ a \in known /\ b \in known
  BY DEF IdsOf
<1>2. \E x, y \in S : x # y /\ Share(x, y)
  BY DEF ResolvePair
<1>3. Share(a, b) /\ Share(b, a)
  BY <1>2 DEF Share
<1>4. id = CHOOSE x \in S : \A y \in S \ {x} : Established(x, y)
  BY <1>2 DEF ResolvePair
<1>5. \E x \in S : \A y \in S \ {x} : Established(x, y)
  BY <1>1, OneOutranks, OneOrder
<1>6. id \in S /\ \A y \in S \ {id} : Established(id, y)
  BY <1>4, <1>5
<1>7. \A y \in S \ {id} : Outranks(id, y)
  BY <1>6, OneOrder
<1>8. PICK s \in Slots : boxScores[s][a] # NoRow /\ boxScores[s][b] # NoRow
  BY <1>3 DEF Share, RowsOf
<1>9. Cardinality({x \in IdsOf(name) : boxScores[s][x] # NoRow}) = 2
  <2> DEFINE F == {x \in IdsOf(name) : boxScores[s][x] # NoRow}
  <2>1. F = {a, b}
    BY <1>8
  <2>2. IsFiniteSet(F)
    BY <2>1, IdsAreFinite
  <2>3. QED
    BY <2>1, <2>2, CountOfTwo
<1>10. s \in DupGroups(name)
  BY <1>9 DEF DupGroups
<1>11. Candidates(name) = S
  BY <1>8, <1>10 DEF Candidates, RowsOf
<1>12. Canonical(name) \in S /\ \A y \in S \ {Canonical(name)} : Outranks(Canonical(name), y)
  BY <1>11, CanonicalIs
<1> HIDE DEF id
<1>13. Canonical(name) = id
  BY <1>1, <1>6, <1>7, <1>12, OutranksIsStrict
<1>14. MergedId(id) \in {id, Canonical(name)}
  BY <1>1, <1>6 DEF MergedId
<1>15. QED
  BY <1>3, <1>6, <1>7, <1>13, <1>14 DEF id

\* What the two maps answer with: an id that stands for itself, before the
\* other ids of the name, and that those have shared a box score with.
LEMMA ExactIs ==
  ASSUME known \subseteq Athletes, NEW name, ExactId(name) # NoId
  PROVE  /\ ExactId(name) \in IdsOf(name)
         /\ MergedId(ExactId(name)) = ExactId(name)
         /\ \A a \in IdsOf(name) : a = ExactId(name) \/ Share(a, ExactId(name))
         /\ \A a \in IdsOf(name) \ {ExactId(name)} : Outranks(ExactId(name), a)
<1> DEFINE id == ExactId(name)
<1>1. IsFiniteSet(IdsOf(name))
  BY IdsAreFinite
<1>2. CASE Cardinality(IdsOf(name)) = 1
  <2>1. PICK a : IdsOf(name) = {a}
    BY <1>1, <1>2, FS_Singleton
  <2>2. id = CHOOSE x \in IdsOf(name) : TRUE
    BY <1>2 DEF ExactId
  <2>3. id = a
    BY <2>1, <2>2
  <2>4. a \in known /\ NameOf[a] = name
    BY <2>1 DEF IdsOf
  <2>5. MergedId(a) = a
    BY <2>1, <2>4, SoleIdStands
  <2>6. QED
    BY <2>1, <2>3, <2>5
<1>3. CASE Cardinality(IdsOf(name)) = 2
  <2>1. PICK a \in IdsOf(name), b \in IdsOf(name) : a # b /\ IdsOf(name) = {a, b}
    BY <1>1, <1>3, CountOfTwo
  <2>2. id = ResolvePair({a, b})
    BY <1>3, <2>1 DEF ExactId
  <2>3. /\ Share(a, b) /\ id \in {a, b} /\ MergedId(id) = id
        /\ \A x \in {a, b} \ {id} : Outranks(id, x)
    <3> HIDE DEF id
    <3>1. ResolvePair({a, b}) # NoId
      BY <2>2 DEF id
    <3>2. /\ Share(a, b) /\ ResolvePair({a, b}) \in {a, b}
          /\ MergedId(ResolvePair({a, b})) = ResolvePair({a, b})
          /\ \A x \in {a, b} \ {ResolvePair({a, b})} : Outranks(ResolvePair({a, b}), x)
      BY <2>1, <3>1, ResolvedIsCanonical
    <3>3. QED
      BY <2>2, <3>2
  <2>4. Share(b, a)
    BY <2>3 DEF Share
  <2>5. QED
    BY <2>1, <2>3, <2>4
<1>4. CASE Cardinality(IdsOf(name)) # 1 /\ Cardinality(IdsOf(name)) # 2
  BY <1>4 DEF ExactId
<1>5. QED
  BY <1>2, <1>3, <1>4

\* An alias is of a name no id has as its own, and stands for the only id whose
\* name has that key.
LEMMA AliasIs ==
  ASSUME AthletesInv, NEW key, AliasId(key) # NoId
  PROVE  /\ IdsOf(key) = {}
         /\ {a \in known : KeyOf[NameOf[a]] = key} = {AliasId(key)}
         /\ MergedId(AliasId(key)) = AliasId(key)
<1> DEFINE ids == UNION {IdsOf(n) : n \in {m \in Names : KeyOf[m] = key}}
           of == {a \in known : KeyOf[NameOf[a]] = key}
<1>1. known \subseteq Athletes
  BY DEF AthletesInv
<1>2. ids = of
  BY <1>1, KeysAssumption DEF IdsOf, Names
<1>3. IsFiniteSet(of)
  BY <1>1, AthletesAssumption, FS_Subset
<1>4. Cardinality(ids) = 1 /\ IdsOf(key) = {} /\ AliasId(key) = CHOOSE a \in ids : TRUE
  BY DEF AliasId
<1>5. PICK a : of = {a}
  BY <1>2, <1>3, <1>4, FS_Singleton
<1>6. AliasId(key) = a
  BY <1>2, <1>4, <1>5
<1>7. a \in known /\ IdsOf(NameOf[a]) = {a}
  BY <1>5 DEF IdsOf
<1>8. MergedId(a) = a
  BY <1>1, <1>7, SoleIdStands
<1>9. QED
  BY <1>4, <1>5, <1>6, <1>8

\* A key is reduced no further (no name has two suffixes), and a name two ids
\* bear is its own key: one that is not, of two strangers, would be answered with
\* whoever bears the reduced spelling exactly.
KeysAreReduced == \A n \in Names : KeyOf[n] \in Names => KeyOf[KeyOf[n]] = KeyOf[n]
SharedNamesAreKeys ==
  \A a, b \in Athletes : a # b /\ NameOf[a] = NameOf[b] => KeyOf[NameOf[a]] = NameOf[a]

(* Two implementations of one rule, over different columns of the same       *)
(* files: where the load merges two ids into one and the pull answers the    *)
(* name at all, it answers with the id that survives; and no name is         *)
(* answered with one of two people.                                          *)
THEOREM AthletesNamesMeanTheMerged ==
  ASSUME KeysAreReduced, SharedNamesAreKeys
  PROVE  AthletesSpec => []NamesMeanTheMerged
<1>1. AthletesInv => NamesMeanTheMerged
  <2> SUFFICES ASSUME AthletesInv, NEW name \in Names, ResolveAthleteId(name) # NoId
               PROVE  /\ MergedId(ResolveAthleteId(name)) = ResolveAthleteId(name)
                      /\ \A a \in Reached(name) :
                            a = ResolveAthleteId(name) \/ Share(a, ResolveAthleteId(name))
    BY DEF NamesMeanTheMerged
  <2> DEFINE key == KeyOf[name]
             id == ResolveAthleteId(name)
             bearers == {a \in known : KeyOf[NameOf[a]] = key}
  <2>1. known \subseteq Athletes
    BY DEF AthletesInv
  <2>2. /\ IdsOf(name) # {} => Reached(name) = IdsOf(name)
        /\ IdsOf(name) = {} /\ IdsOf(key) # {} => Reached(name) = IdsOf(key)
        /\ IdsOf(name) = {} /\ IdsOf(key) = {} => Reached(name) = bearers
    <3>1. CASE IdsOf(name) # {}
      BY <3>1 DEF Reached
    <3>2. CASE IdsOf(name) = {} /\ IdsOf(key) # {}
      BY <3>2 DEF Reached
    <3>3. CASE IdsOf(name) = {} /\ IdsOf(key) = {}
      BY <3>3 DEF Reached
    <3>4. QED
      BY <3>1, <3>2, <3>3
  <2>3. CASE ExactId(name) # NoId
    <3>1. id = ExactId(name)
      BY <2>3 DEF ResolveAthleteId, Lookup
    <3>2. QED
      BY <2>1, <2>2, <2>3, <3>1, ExactIs
  <2>4. CASE ExactId(name) = NoId /\ AliasId(name) # NoId
    <3>1. id = AliasId(name)
      BY <2>4 DEF ResolveAthleteId, Lookup
    <3>2. /\ IdsOf(name) = {} /\ MergedId(id) = id
          /\ {a \in known : KeyOf[NameOf[a]] = name} = {id}
      BY <2>4, <3>1, AliasIs
    <3>3. id \in known /\ KeyOf[NameOf[id]] = name
      BY <3>2
    <3>4. NameOf[id] \in Names
      BY <2>1, <3>3, KeysAssumption DEF Names
    <3>5. key = name
      BY <3>3, <3>4 DEF KeysAreReduced
    <3>6. Reached(name) = {id}
      BY <2>2, <3>2, <3>5
    <3>7. QED
      BY <3>2, <3>6
  <2>5. CASE ExactId(name) = NoId /\ AliasId(name) = NoId
    <3>1. id = Lookup(key) /\ Lookup(key) # NoId /\ Lookup(name) = NoId
      BY <2>5 DEF ResolveAthleteId, Lookup
    <3>2. IdsOf(name) = {}
      <4>1. SUFFICES ASSUME IdsOf(name) # {} PROVE FALSE
        OBVIOUS
      <4>2. PICK a \in IdsOf(name) : TRUE
        BY <4>1
      <4>3. CASE IdsOf(name) = {a}
        <5>1. ExactId(name) = a
          <6>1. Cardinality(IdsOf(name)) = 1
            BY <4>3, FS_Singleton
          <6>2. ExactId(name) = CHOOSE x \in IdsOf(name) : TRUE
            BY <6>1 DEF ExactId
          <6>3. QED
            BY <4>3, <6>2
        <5>2. a \in Athletes
          BY <2>1 DEF IdsOf
        <5>3. QED
          BY <2>5, <5>1, <5>2, AthletesAssumption
      <4>4. CASE IdsOf(name) # {a}
        <5>1. PICK b \in IdsOf(name) : b # a
          BY <4>2, <4>4
        <5>2. a \in Athletes /\ b \in Athletes /\ NameOf[a] = name /\ NameOf[b] = name
          BY <2>1 DEF IdsOf
        <5>3. key = name
          BY <5>1, <5>2 DEF SharedNamesAreKeys
        <5>4. QED
          BY <3>1, <5>3
      <4>5. QED
        BY <4>3, <4>4
    <3>3. CASE ExactId(key) # NoId
      <4>1. id = ExactId(key)
        BY <3>1, <3>3 DEF Lookup
      <4>2. /\ IdsOf(key) # {} /\ MergedId(id) = id
            /\ \A a \in IdsOf(key) : a = id \/ Share(a, id)
        BY <2>1, <3>3, <4>1, ExactIs
      <4>3. QED
        BY <2>2, <3>2, <4>2
    <3>4. CASE ExactId(key) = NoId
      <4>1. id = AliasId(key) /\ AliasId(key) # NoId
        BY <3>1, <3>4 DEF Lookup
      <4>2. IdsOf(key) = {} /\ MergedId(id) = id /\ bearers = {id}
        BY <4>1, AliasIs
      <4>3. QED
        BY <2>2, <3>2, <4>2
    <3>5. QED
      BY <3>3, <3>4
  <2>6. QED
    BY <2>3, <2>4, <2>5
<1>2. QED
  BY <1>1, AthletesInvHolds, PTL

\* What the pull answers with comes before every namesake it knows.
LEMMA AnswerOutranks ==
  ASSUME AthletesInv, NEW name, ResolveAthleteId(name) # NoId
  PROVE  /\ ResolveAthleteId(name) \in known
         /\ \A b \in known \ {ResolveAthleteId(name)} :
               NameOf[b] = NameOf[ResolveAthleteId(name)] => Outranks(ResolveAthleteId(name), b)
<1>1. known \subseteq Athletes
  BY DEF AthletesInv
<1>2. ASSUME NEW spelt, Lookup(spelt) # NoId
      PROVE  /\ Lookup(spelt) \in known
             /\ \A b \in known \ {Lookup(spelt)} :
                   NameOf[b] = NameOf[Lookup(spelt)] => Outranks(Lookup(spelt), b)
  <2>1. CASE ExactId(spelt) # NoId
    <3>1. Lookup(spelt) = ExactId(spelt)
      BY <2>1 DEF Lookup
    <3>2. QED
      BY <1>1, <2>1, <3>1, ExactIs DEF IdsOf
  <2>2. CASE ExactId(spelt) = NoId
    <3>1. Lookup(spelt) = AliasId(spelt)
      BY <2>2 DEF Lookup
    <3>2. {a \in known : KeyOf[NameOf[a]] = spelt} = {Lookup(spelt)}
      BY <1>2, <3>1, AliasIs
    <3>3. QED
      BY <3>2
  <2>3. QED
    BY <2>1, <2>2
<1>3. ResolveAthleteId(name) \in {Lookup(name), Lookup(KeyOf[name])}
  BY DEF ResolveAthleteId
<1>4. QED
  BY <1>2, <1>3

\* What was answered once still comes before every namesake not filed since.
Foremost(a, at) ==
  /\ a \in known /\ at <= next
  /\ \A b \in known \ {a} : NameOf[b] = NameOf[a] /\ ~FiledSince(b, at) => Outranks(a, b)
GivenForemost(name) ==
  given[name] # NoAnswer =>
      \E a \in Athletes, at \in Nat : given[name] = [id |-> a, at |-> at] /\ Foremost(a, at)
GivenOutranks == \A name \in Names : GivenForemost(name)

\* A box score stored adds to what an id is ranked by, of those it names alone.
LEMMA StoringKeepsRank ==
  ASSUME AthletesInv, AthletesInv', StoreBoxScore, NEW a \in Athletes, NEW b \in known, Outranks(a, b),
         boxScores'[next][b] = NoRow
  PROVE  Outranks(a, b)'
<1>1. /\ next \in Slots /\ next \in Nat
      /\ \A s \in Slots : s # next => boxScores'[s] = boxScores[s]
      /\ \A x \in Athletes : boxScores[next][x] = NoRow
      /\ b \in Athletes
  BY DEF StoreBoxScore, AthletesInv
<1>2. RowsOf(a) \subseteq RowsOf(a)' /\ WithMinutes(a) \subseteq WithMinutes(a)'
  BY <1>1 DEF RowsOf, WithMinutes, HasMinutes
<1>3. RowsOf(b)' = RowsOf(b) /\ WithMinutes(b)' = WithMinutes(b)
  BY <1>1 DEF RowsOf, WithMinutes, HasMinutes
<1>4. FilingsOf(b)' = FilingsOf(b) /\ MinutesOf(b)' = MinutesOf(b)
  BY <1>3 DEF FilingsOf, MinutesOf
<1>5. /\ FilingsOf(a)' \in Nat /\ MinutesOf(a)' \in Nat
      /\ FilingsOf(a)' >= FilingsOf(a) /\ MinutesOf(a)' >= MinutesOf(a)
  <2>1. IsFiniteSet(RowsOf(a)') /\ IsFiniteSet(WithMinutes(a)')
    <3>1. RowsOf(a)' \subseteq Slots /\ WithMinutes(a)' \subseteq Slots
      BY DEF RowsOf, WithMinutes
    <3>2. QED
      BY <3>1, SlotsAssumption, FS_Subset
  <2>2. /\ Cardinality(RowsOf(a)) <= Cardinality(RowsOf(a)')
        /\ Cardinality(WithMinutes(a)) <= Cardinality(WithMinutes(a)')
    BY <1>2, <2>1, FS_Subset
  <2>3. /\ FilingsOf(a)' = Cardinality(RowsOf(a)') /\ FilingsOf(a) = Cardinality(RowsOf(a))
        /\ MinutesOf(a)' = Cardinality(WithMinutes(a)') /\ MinutesOf(a) = Cardinality(WithMinutes(a))
    BY DEF FilingsOf, MinutesOf
  <2>4. /\ Cardinality(RowsOf(a)) \in Nat /\ Cardinality(RowsOf(a)') \in Nat
        /\ Cardinality(WithMinutes(a)) \in Nat /\ Cardinality(WithMinutes(a)') \in Nat
    BY <1>2, <2>1, FS_Subset, FS_CardinalityType
  <2>5. QED
    BY <2>2, <2>3, <2>4
<1>6. /\ FilingsOf(a) \in Nat /\ MinutesOf(a) \in Nat
      /\ FilingsOf(b) \in Nat /\ MinutesOf(b) \in Nat
  BY CountsAre
<1>7. Outranks(a, b)' <=>
         \/ MinutesOf(a)' > MinutesOf(b)'
         \/ MinutesOf(a)' = MinutesOf(b)' /\ FilingsOf(a)' > FilingsOf(b)'
         \/ MinutesOf(a)' = MinutesOf(b)' /\ FilingsOf(a)' = FilingsOf(b)' /\ a < b
  BY DEF Outranks
<1>8. \/ MinutesOf(a) > MinutesOf(b)
      \/ MinutesOf(a) = MinutesOf(b) /\ FilingsOf(a) > FilingsOf(b)
      \/ MinutesOf(a) = MinutesOf(b) /\ FilingsOf(a) = FilingsOf(b) /\ a < b
  BY DEF Outranks
<1>9. QED
  BY <1>4, <1>5, <1>6, <1>7, <1>8

(* The same rule at two times: what NetPoints' rows were once written under  *)
(* is the id a load merges its box scores into, whatever has been stored     *)
(* since, unless the id that takes its place was itself filed since.         *)
THEOREM AthletesGivenIdsSurvive == AthletesSpec => []GivenIdsSurvive
<1>1. AthletesInit => GivenOutranks
  BY DEF AthletesInit, GivenOutranks, GivenForemost
<1>2. AthletesInv /\ AthletesInv' /\ GivenOutranks /\ [AthletesNext]_athletesVars => GivenOutranks'
  <2> SUFFICES ASSUME AthletesInv, AthletesInv', GivenOutranks, [AthletesNext]_athletesVars,
                      NEW name \in Names
               PROVE  GivenForemost(name)'
    BY DEF GivenOutranks
  <2>1. CASE StoreBoxScore
    <3>1. /\ given' = given /\ next \in Slots /\ next \in Nat /\ next' = next + 1
          /\ known \subseteq known' /\ known \subseteq Athletes /\ known' \subseteq Athletes
          /\ \A b \in known' \ known : boxScores'[next][b] # NoRow
          /\ \A s \in Slots : s # next => boxScores'[s] = boxScores[s]
      BY <2>1 DEF StoreBoxScore, AthletesInv
    <3>2. ASSUME NEW a \in Athletes, NEW at \in Nat, Foremost(a, at) PROVE Foremost(a, at)'
      <4>1. a \in known /\ at <= next
        BY <3>2 DEF Foremost
      <4>2. ASSUME NEW b \in known' \ {a}, NameOf[b] = NameOf[a], ~FiledSince(b, at)'
            PROVE  Outranks(a, b)'
        <5>1. boxScores'[next][b] = NoRow
          BY <3>1, <4>1, <4>2 DEF FiledSince, RowsOf
        <5>2. b \in known
          BY <3>1, <5>1
        <5>3. ~FiledSince(b, at)
          <6>1. boxScores[next][b] = NoRow
            BY <3>1, <5>2 DEF AthletesInv
          <6>2. RowsOf(b) \subseteq RowsOf(b)'
            BY <3>1, <6>1 DEF RowsOf
          <6>3. QED
            BY <4>2, <6>2 DEF FiledSince
        <5>4. Outranks(a, b)
          BY <3>2, <4>2, <5>2, <5>3 DEF Foremost
        <5>5. QED
          BY <2>1, <5>1, <5>2, <5>4, StoringKeepsRank
      <4>3. a \in known' /\ at <= next'
        BY <3>1, <4>1
      <4>4. QED
        BY <4>2, <4>3 DEF Foremost
    <3>3. QED
      BY <3>1, <3>2 DEF GivenOutranks, GivenForemost
  <2>2. CASE known' = known /\ boxScores' = boxScores /\ next' = next
    <3>1. ASSUME NEW a \in Athletes, NEW at \in Nat, Foremost(a, at) PROVE Foremost(a, at)'
      <4>1. \A b \in known : Outranks(a, b)' <=> Outranks(a, b)
        BY <2>2 DEF Outranks, MinutesOf, FilingsOf, WithMinutes, RowsOf
      <4>2. \A b \in known : FiledSince(b, at)' <=> FiledSince(b, at)
        BY <2>2 DEF FiledSince, RowsOf
      <4>3. QED
        BY <2>2, <3>1, <4>1, <4>2 DEF Foremost
    <3>2. CASE given'[name] = given[name]
      BY <3>1, <3>2 DEF GivenOutranks, GivenForemost
    <3>3. ASSUME NEW asked \in Names, GiveId(asked), given'[name] # given[name]
          PROVE  GivenForemost(name)'
      <4> DEFINE a == ResolveAthleteId(asked)
      <4>1. a # NoId /\ next \in Nat /\ given'[name] = [id |-> a, at |-> next]
        BY <3>3 DEF GiveId, AthletesInv
      <4>2. /\ a \in known /\ a \in Athletes
            /\ \A b \in known \ {a} : NameOf[b] = NameOf[a] => Outranks(a, b)
        BY <4>1, AnswerOutranks DEF AthletesInv
      <4> HIDE DEF a
      <4>3. Foremost(a, next)
        BY <4>1, <4>2 DEF Foremost
      <4>4. PICK x \in Athletes, at \in Nat : x = a /\ at = next
        BY <4>1, <4>2
      <4>5. Foremost(x, at)'
        BY <3>1, <4>3, <4>4
      <4>6. QED
        BY <4>1, <4>4, <4>5 DEF GivenForemost
    <3>4. given'[name] = given[name] \/ \E asked \in Names : GiveId(asked)
      BY <2>2 DEF AthletesNext, AthletesOver, StoreBoxScore, athletesVars, AthletesInv
    <3>5. QED
      BY <3>2, <3>3, <3>4
  <2>3. StoreBoxScore \/ (known' = known /\ boxScores' = boxScores /\ next' = next)
    BY DEF AthletesNext, AthletesOver, GiveId, athletesVars
  <2>4. QED
    BY <2>1, <2>2, <2>3
<1>3. AthletesInv /\ GivenOutranks => GivenIdsSurvive
  <2> SUFFICES ASSUME AthletesInv, GivenOutranks, NEW name \in Names, given[name] # NoAnswer,
                      MergedId(given[name].id) # given[name].id
               PROVE  FiledSince(MergedId(given[name].id), given[name].at)
    BY DEF GivenIdsSurvive
  <2>1. PICK a \in Athletes, at \in Nat : given[name] = [id |-> a, at |-> at] /\ Foremost(a, at)
    BY DEF GivenOutranks, GivenForemost
  <2>2. known \subseteq Athletes /\ a \in known /\ MergedId(a) # a
    BY <2>1 DEF AthletesInv, Foremost
  <2>3. MergedId(a) \in known /\ NameOf[MergedId(a)] = NameOf[a]
    BY <2>2, MergedIsANamesake
  <2>4. a \in Candidates(NameOf[a]) /\ MergedId(a) = Canonical(NameOf[a])
    BY <2>2 DEF MergedId
  <2>5. Outranks(MergedId(a), a)
    BY <2>2, <2>4, CanonicalIs
  <2>6. ~Outranks(a, MergedId(a))
    BY <2>2, <2>3, <2>5, OutranksIsStrict
  <2>7. FiledSince(MergedId(a), at)
    BY <2>1, <2>2, <2>3, <2>6 DEF Foremost
  <2>8. given[name].id = a /\ given[name].at = at
    BY <2>1
  <2>9. QED
    BY <2>7, <2>8
<1>4. QED
  BY <1>1, <1>2, <1>3, AthletesInvHolds, PTL DEF AthletesSpec

-----------------------------------------------------------------------------
(***************************************************************************)
(* The totals of a season: a traded player's are the sum of his stints'.    *)
(***************************************************************************)

\* What a line may hold.
Figures == [games : Int \cup {Null}, points : Int \cup {Null}]

\* What a file, or a table, holds of his stints: each with its games, and with its
\* totals or without; but without some of them only where none has any, or where
\* he did not score.
Stinted(lines) ==
  /\ lines \in [Lines -> Figures]
  /\ \A t \in Teams : lines[t].games = played[t].games /\ lines[t].points \in {played[t].points, Null}
  /\ \/ \A t \in Teams : lines[t].points = Null
     \/ \A t \in Teams : lines[t].points = Null => played[t].points = 0

\* What he played for each team; and what is on disk and in the table, once there
\* is anything.
TotalsInv ==
  /\ Teams \in SUBSET Stints /\ Teams # {}
  /\ played \in [Teams -> [games : 1..MaxGames, points : 0..MaxPoints]]
  /\ file # Null => Stinted(file)
  /\ table # Null => Stinted(table) /\ ~Broken(table)

\* The sum the code makes, over the values of a function.
LEMMA TotalIs == ASSUME NEW values PROVE Total(values) = SumIn(values, DOMAIN values)
BY DEF Total, SumIn

\* A sum of what is never negative is not.
LEMMA SumNotNegative ==
  ASSUME NEW S, IsFiniteSet(S), NEW f, \A x \in S : f[x] \in Int /\ 0 <= f[x]
  PROVE  SumIn(f, S) \in Int /\ 0 <= SumIn(f, S)
<1> DEFINE none == [x \in S |-> 0]
<1>1. \A x \in S : none[x] = 0 /\ none[x] \in Int /\ f[x] \in Int /\ none[x] <= f[x]
  OBVIOUS
<1> HIDE DEF none
<1>2. SumIn(none, S) = 0 /\ SumIn(none, S) <= SumIn(f, S) /\ SumIn(f, S) \in Int
  BY <1>1, SumOfNothing, SumAtMost, SumType
<1>3. QED
  BY <1>2

\* What he played of each stint, by team.
GamesOf == [t \in Teams |-> played[t].games]
PointsOf == [t \in Teams |-> played[t].points]

\* His season is the sum of his stints.
LEMMA WhatHePlayed ==
  ASSUME TotalsInv
  PROVE  /\ IsFiniteSet(Teams) /\ Combined \notin Teams /\ Null \notin Int
         /\ SeasonGames = SumIn(GamesOf, Teams) /\ SeasonPoints = SumIn(PointsOf, Teams)
         /\ SeasonGames \in Int /\ SeasonPoints \in Int
         /\ \A t \in Teams : /\ GamesOf[t] = played[t].games /\ PointsOf[t] = played[t].points
                             /\ GamesOf[t] \in Int /\ 0 < GamesOf[t] /\ PointsOf[t] \in Int /\ 0 <= PointsOf[t]
<1>1. IsFiniteSet(Teams) /\ Combined \notin Teams
  BY StintsAssumption, FS_Subset DEF TotalsInv
<1>2. \A t \in Teams : /\ GamesOf[t] = played[t].games /\ PointsOf[t] = played[t].points
                       /\ GamesOf[t] \in Int /\ 0 < GamesOf[t] /\ PointsOf[t] \in Int /\ 0 <= PointsOf[t]
  BY StintsAssumption DEF TotalsInv, GamesOf, PointsOf
<1>3. DOMAIN GamesOf = Teams /\ DOMAIN PointsOf = Teams
  BY DEF GamesOf, PointsOf
<1>4. SeasonGames = SumIn(GamesOf, Teams) /\ SeasonPoints = SumIn(PointsOf, Teams)
  BY <1>3, TotalIs DEF SeasonGames, SeasonPoints, GamesOf, PointsOf
<1>5. SumIn(GamesOf, Teams) \in Int /\ SumIn(PointsOf, Teams) \in Int
  BY <1>1, <1>2, SumType
<1>6. QED
  BY <1>1, <1>2, <1>4, <1>5, NullAssumption

\* No stint of a traded player is as long as his season.
LEMMA AStintIsShorter ==
  ASSUME TotalsInv, Traded, NEW t \in Teams
  PROVE  played[t].games < SeasonGames
<1> DEFINE others == Teams \ {t}
<1>1. IsFiniteSet(others) /\ others # {}
  <2>1. others = {} => Teams = {t}
    OBVIOUS
  <2>2. Cardinality({t}) = 1
    BY FS_Singleton
  <2>3. others # {}
    <3>1. Cardinality(Teams) # 1
      BY DEF Traded
    <3>2. QED
      BY <2>1, <2>2, <3>1
  <2>4. QED
    BY <2>3, WhatHePlayed, FS_Subset
<1>2. PICK u \in others : TRUE
  BY <1>1
<1>3. \A x \in Teams : GamesOf[x] \in Int /\ 0 <= GamesOf[x] /\ 0 < GamesOf[x]
  BY WhatHePlayed
<1>4. SumIn(GamesOf, others) = GamesOf[u] + SumIn(GamesOf, others \ {u})
  BY <1>1, <1>2, <1>3, SumTakeOut
<1>5. SumIn(GamesOf, others \ {u}) \in Int /\ 0 <= SumIn(GamesOf, others \ {u})
  <2>1. IsFiniteSet(others \ {u}) /\ \A x \in others \ {u} : GamesOf[x] \in Int /\ 0 <= GamesOf[x]
    BY <1>1, <1>3, FS_Subset
  <2> HIDE DEF others
  <2>2. QED
    BY <2>1, SumNotNegative
<1>6. SumIn(GamesOf, Teams) = GamesOf[t] + SumIn(GamesOf, others)
  BY <1>3, WhatHePlayed, SumTakeOut
<1>7. u \in Teams
  BY <1>2
<1> HIDE DEF others
<1>8. QED
  BY <1>3, <1>4, <1>5, <1>6, <1>7, WhatHePlayed

\* The points of his only team are the season's.
LEMMA OnlyTeamIsTheSeason ==
  ASSUME TotalsInv, ~Traded
  PROVE  \E t \in Teams : Teams = {t} /\ SeasonPoints = played[t].points /\ SeasonGames = played[t].games
<1>1. Cardinality(Teams) \in Nat /\ Cardinality(Teams) # 0
  BY WhatHePlayed, FS_CardinalityType, FS_EmptySet DEF TotalsInv
<1>2. Cardinality(Teams) = 1
  BY <1>1 DEF Traded
<1>3. PICK t : Teams = {t}
  BY <1>2, WhatHePlayed, FS_Singleton
<1>4. Teams \ {t} = {} /\ t \in Teams
  BY <1>3
<1>5. SumIn(GamesOf, {}) = 0 /\ SumIn(PointsOf, {}) = 0
  BY FS_EmptySet, SumFirst
<1>6. \A x \in Teams : GamesOf[x] \in Int /\ PointsOf[x] \in Int
  BY WhatHePlayed
<1>7. SumIn(GamesOf, Teams) = GamesOf[t] + SumIn(GamesOf, Teams \ {t}) /\ SumIn(PointsOf, Teams) = PointsOf[t] + SumIn(PointsOf, Teams \ {t})
  BY <1>4, <1>6, WhatHePlayed, SumTakeOut
<1>8. GamesOf[t] = played[t].games /\ PointsOf[t] = played[t].points
  BY <1>4, WhatHePlayed
<1>9. QED
  BY <1>3, <1>4, <1>5, <1>6, <1>7, <1>8, WhatHePlayed

\* What the load sums of the stints is the season's points, or none.
LEMMA SumOfTheStints ==
  ASSUME TotalsInv, NEW lines, Stinted(lines)
  PROVE  SqlSum(lines, "points") \in {SeasonPoints, Null}
<1> DEFINE withTotals == {t \in DOMAIN lines \ {Combined} : lines[t]["points"] # Null}
           values == [t \in withTotals |-> lines[t]["points"]]
<1>1. SqlSum(lines, "points") = IF withTotals = {} THEN Null ELSE Total(values)
  BY DEF SqlSum
<1>2. withTotals = {t \in Teams : lines[t].points # Null}
  BY WhatHePlayed DEF Stinted, Lines
<1>3. withTotals \in SUBSET Teams /\ IsFiniteSet(withTotals)
  BY <1>2, WhatHePlayed, FS_Subset
<1>4. \A t \in withTotals : values[t] = PointsOf[t] /\ PointsOf[t] \in Int
  BY <1>2, WhatHePlayed DEF Stinted
<1>5. CASE withTotals = {}
  BY <1>1, <1>5
<1>6. CASE withTotals # {}
  <2>1. \A t \in Teams \ withTotals : PointsOf[t] = 0
    BY <1>2, <1>6, WhatHePlayed DEF Stinted
  <2>2. Total(values) = SumIn(values, withTotals)
    BY TotalIs
  <2> HIDE DEF withTotals, values
  <2>3. SumIn(values, withTotals) = SumIn(PointsOf, withTotals)
    BY <1>3, <1>4, SumAgrees
  <2>4. SumIn(PointsOf, Teams) = SumIn(PointsOf, withTotals)
    <3>1. IsFiniteSet(Teams) /\ \A t \in Teams : PointsOf[t] \in Int
      BY WhatHePlayed
    <3>2. QED
      BY <1>3, <2>1, <3>1, SumOverPart
  <2>5. QED
    BY <1>1, <1>6, <2>2, <2>3, <2>4, WhatHePlayed
<1>7. QED
  BY <1>5, <1>6

\* Nor is the sum of the games anything but a number, or none.
LEMMA GamesSum ==
  ASSUME TotalsInv, NEW lines, Stinted(lines)
  PROVE  SqlSum(lines, "games") \in Int \cup {Null}
<1> DEFINE withTotals == {t \in DOMAIN lines \ {Combined} : lines[t]["games"] # Null}
           values == [t \in withTotals |-> lines[t]["games"]]
<1>1. SqlSum(lines, "games") = IF withTotals = {} THEN Null ELSE Total(values)
  BY DEF SqlSum
<1>2. withTotals \in SUBSET Teams /\ IsFiniteSet(withTotals)
  <2>1. withTotals \in SUBSET Teams
    BY DEF Stinted, Lines
  <2>2. QED
    BY <2>1, WhatHePlayed, FS_Subset
<1>3. \A t \in withTotals : values[t] \in Int
  BY <1>2, WhatHePlayed DEF Stinted, Figures
<1>4. Total(values) = SumIn(values, withTotals)
  BY TotalIs
<1> HIDE DEF withTotals, values
<1>5. QED
  BY <1>1, <1>2, <1>3, <1>4, SumType

\* What ESPN serves, whichever way, is as Stinted says.
LEMMA ServedIsStinted ==
  ASSUME TotalsInv, NEW lines \in CareerAnswers
  PROVE  Stinted(lines)
<1> DEFINE true == [l \in Lines |-> TrueLine(l)]
           scoreless == {t \in Teams : played[t].points = 0}
<1>1. Teams \subseteq Lines /\ \A t \in Teams : true[t] = played[t] /\ t # Combined
  BY WhatHePlayed DEF Lines, TrueLine
<1>2. \A t \in Teams : played[t] \in [games : 1..MaxGames, points : 0..MaxPoints] /\ played[t].points # Null
  BY StintsAssumption, NullAssumption DEF TotalsInv
<1>a. DOMAIN true = Lines /\ \A l \in Lines : true[l] \in Figures
  BY <1>2, WhatHePlayed DEF TrueLine, Lines, Figures
<1>3. ASSUME NEW gone \in SUBSET Lines, lines = Untotaled(true, gone),
             Teams \subseteq gone \/ \A t \in Teams \cap gone : played[t].points = 0
      PROVE  Stinted(lines)
  <2>1. lines \in [Lines -> Figures]
    <3> HIDE DEF true
    <3>1. QED
      BY <1>a, <1>3 DEF Untotaled, Figures
  <2>2. ASSUME NEW t \in Teams
        PROVE  lines[t].games = played[t].games /\ lines[t].points = IF t \in gone THEN Null ELSE played[t].points
    <3>1. lines[t] = IF t \in gone THEN [played[t] EXCEPT !.points = Null] ELSE played[t]
      <4> HIDE DEF true
      <4>1. QED
        BY <1>1, <1>3 DEF Untotaled
    <3>2. QED
      BY <1>2, <3>1
  <2>3. QED
    BY <1>2, <1>3, <2>1, <2>2 DEF Stinted
<1>4. ASSUME NEW other \in Figures, lines = [true EXCEPT ![Combined] = other] PROVE Stinted(lines)
  <2>1. \A t \in Teams : lines[t] = played[t]
    BY <1>1, <1>4
  <2>a. lines \in [Lines -> Figures]
    <3> HIDE DEF true
    <3>1. QED
      BY <1>a, <1>4
  <2>2. QED
    BY <1>2, <2>1, <2>a DEF Stinted
<1>5. CASE lines = Untotaled(true, Lines)
  BY <1>1, <1>3, <1>5 DEF Stinted
<1>6. CASE \E gone \in SUBSET (scoreless \cup (Lines \ Teams)) : lines = Untotaled(true, gone)
  <2>1. PICK gone \in SUBSET (scoreless \cup (Lines \ Teams)) : lines = Untotaled(true, gone)
    BY <1>6
  <2>2. gone \in SUBSET Lines /\ \A t \in Teams \cap gone : played[t].points = 0
    BY <1>1
  <2> HIDE DEF true
  <2>3. QED
    BY <1>3, <2>1, <2>2 DEF Stinted
<1>7. CASE \E other \in Figures : lines = [true EXCEPT ![Combined] = other]
  BY <1>4, <1>7 DEF Stinted
<1>8. lines = Untotaled(true, Lines)
      \/ (\E gone \in SUBSET (scoreless \cup (Lines \ Teams)) : lines = Untotaled(true, gone))
      \/ \E other \in {played[t] : t \in Teams} \cup {[games |-> Null, points |-> Null]} : lines = [true EXCEPT ![Combined] = other]
  <2> DEFINE others == IF Traded THEN {played[t] : t \in Teams} \cup {[games |-> Null, points |-> Null]} ELSE {}
  <2>1. lines \in {Untotaled(true, Lines)}
                 \cup {Untotaled(true, gone) : gone \in SUBSET (scoreless \cup (Lines \ Teams))}
                 \cup {[true EXCEPT ![Combined] = other] : other \in others}
    BY Zenon DEF CareerAnswers
  <2>2. others \subseteq {played[t] : t \in Teams} \cup {[games |-> Null, points |-> Null]}
    OBVIOUS
  <2> HIDE DEF true, scoreless, others
  <2>3. QED
    BY <2>1, <2>2
<1>9. {played[t] : t \in Teams} \cup {[games |-> Null, points |-> Null]} \subseteq Figures
  BY <1>2 DEF Figures
<1>10. QED
  BY <1>5, <1>6, <1>7, <1>8, <1>9

\* Filled from the second endpoint, it still is.
LEMMA FilledIsStinted ==
  ASSUME TotalsInv, NEW lines, Stinted(lines), NEW answer \in SeasonAnswers
  PROVE  Stinted(RepairSeasonTotals(lines, answer))
<1> DEFINE matches == {l \in DOMAIN lines : lines[l].points = Null /\ lines[l].games = answer.games}
           chosen == CHOOSE l \in matches : TRUE
           filled == [lines EXCEPT ![chosen].points = answer.points]
<1>1. CASE RepairSeasonTotals(lines, answer) = lines
  BY <1>1
<1>2. CASE answer # Null /\ Cardinality(matches) = 1 /\ RepairSeasonTotals(lines, answer) = filled
  <2>1. answer = [games |-> SeasonGames, points |-> SeasonPoints]
    BY <1>2 DEF SeasonAnswers
  <2>2. matches # {}
    <3> HIDE DEF matches
    <3>1. QED
      BY <1>2, FS_EmptySet
  <2>3. chosen \in matches
    BY <2>2
  <2> HIDE DEF chosen
  <2>4. DOMAIN filled = Lines /\ \A l \in Lines : l # chosen => filled[l] = lines[l]
    BY DEF Stinted
  <2>a. filled \in [Lines -> Figures]
    BY <2>1, WhatHePlayed, ZenonT(60) DEF Stinted, Figures
  <2>5. CASE chosen \notin Teams
    <3>1. Teams \subseteq Lines /\ \A t \in Teams : filled[t] = lines[t]
      BY <2>4, <2>5 DEF Lines
    <3> HIDE DEF filled
    <3>2. Stinted(filled)
      BY <2>a, <3>1 DEF Stinted
    <3>3. QED
      BY <1>2, <3>2
  <2>6. CASE chosen \in Teams
    <3>1. lines[chosen].games = SeasonGames /\ lines[chosen].games = played[chosen].games
      BY <2>1, <2>3, <2>6 DEF Stinted
    <3>2. ~Traded
      <4>1. SUFFICES ASSUME Traded PROVE FALSE
        OBVIOUS
      <4>2. played[chosen].games < SeasonGames
        BY <2>6, <4>1, AStintIsShorter
      <4>3. QED
        BY <3>1, <4>2, WhatHePlayed
    <3>3. Teams = {chosen} /\ SeasonPoints = played[chosen].points
      BY <2>6, <3>2, OnlyTeamIsTheSeason
    <3>4. filled[chosen].points = SeasonPoints /\ filled[chosen].games = lines[chosen].games
      BY <2>1, <2>3 DEF Stinted, Figures
    <3> HIDE DEF filled
    <3>5. Stinted(filled)
      <4>1. \A t \in Teams : filled[t].games = played[t].games /\ filled[t].points = played[t].points /\ played[t].points # Null
        BY <3>1, <3>3, <3>4, WhatHePlayed
      <4>2. QED
        BY <2>a, <4>1 DEF Stinted
    <3>6. QED
      BY <1>2, <3>5
  <2>7. QED
    BY <1>2, <2>5, <2>6
<1>3. QED
  BY <1>1, <1>2, Zenon DEF RepairSeasonTotals, FillMissing

\* The whole-season line of a load is what his stints sum to.
LEMMA RebuiltIsWhole ==
  ASSUME TotalsInv, NEW lines, Stinted(lines)
  PROVE  Stinted(Rebuilt(lines)) /\ ~Broken(Rebuilt(lines))
<1>1. CASE ~Broken(lines)
  BY <1>1 DEF Rebuilt
<1>2. CASE Broken(lines)
  <2> DEFINE after == [lines EXCEPT ![Combined] = Summed(lines)]
  <2>1. Rebuilt(lines) = after /\ Combined \in Lines /\ Combined \notin Teams
    BY <1>2, WhatHePlayed DEF Rebuilt, Broken, Stinted
  <2>2. DOMAIN after = Lines /\ after[Combined] = Summed(lines) /\ \A t \in Lines \ {Combined} : after[t] = lines[t]
    BY <2>1 DEF Stinted
  <2>3. \A column \in {"games", "points"} : SqlSum(after, column) = SqlSum(lines, column)
    <3>1. SUFFICES ASSUME NEW column PROVE SqlSum(after, column) = SqlSum(lines, column)
      OBVIOUS
    <3> DEFINE withTotals == {t \in DOMAIN lines \ {Combined} : lines[t][column] # Null}
               withAfter == {t \in DOMAIN after \ {Combined} : after[t][column] # Null}
               values == [t \in withTotals |-> lines[t][column]]
               valuesAfter == [t \in withAfter |-> after[t][column]]
    <3>2. withTotals = withAfter /\ \A t \in withTotals : lines[t][column] = after[t][column]
      <4> HIDE DEF after
      <4>1. QED
        BY <2>2 DEF Stinted
    <3>3. values = valuesAfter
      <4> HIDE DEF after, withTotals, withAfter
      <4>1. QED
        BY <3>2
    <3>4. SqlSum(lines, column) = (IF withTotals = {} THEN Null ELSE Total(values))
          /\ SqlSum(after, column) = (IF withAfter = {} THEN Null ELSE Total(valuesAfter))
      <4> HIDE DEF after
      <4>1. QED
        BY Zenon DEF SqlSum
    <3> HIDE DEF after, withTotals, withAfter, values, valuesAfter
    <3>5. QED
      BY <3>2, <3>3, <3>4
  <2>4. Summed(after) = Summed(lines)
    <3> HIDE DEF after
    <3>1. QED
      BY <2>3 DEF Summed
  <2>5. Summed(lines) \in Figures
    BY <1>2, SumOfTheStints, GamesSum, WhatHePlayed DEF Summed, Figures
  <2>6. after \in [Lines -> Figures]
    BY <2>5 DEF Stinted
  <2>7. \A t \in Teams : after[t] = lines[t]
    BY <2>1, <2>2 DEF Lines
  <2> HIDE DEF after
  <2>8. Stinted(after)
    BY <2>6, <2>7 DEF Stinted
  <2>9. ~Broken(after)
    BY <2>2, <2>4 DEF Broken
  <2>10. QED
    BY <2>1, <2>8, <2>9
<1>3. QED
  BY <1>1, <1>2

\* So what a reader is served of the points is the season's, or nothing.
LEMMA TotalsAnswer == ASSUME TotalsInv PROVE SeasonIsTrueOrNull
<1> SUFFICES ASSUME table # Null PROVE ServedLine(table).points \in {SeasonPoints, Null}
  BY DEF SeasonIsTrueOrNull
<1>1. Stinted(table) /\ ~Broken(table)
  BY DEF TotalsInv
<1>2. DOMAIN table = Lines
  BY <1>1 DEF Stinted
<1>3. CASE Traded
  <2>1. table[Combined] = Summed(table) /\ ServedLine(table) = table[Combined]
    BY <1>1, <1>2, <1>3 DEF Broken, ServedLine, Lines
  <2>2. Summed(table).points = SqlSum(table, "points")
    BY DEF Summed
  <2>3. QED
    BY <1>1, <2>1, <2>2, SumOfTheStints
<1>4. CASE ~Traded
  <2>1. PICK t \in Teams : Teams = {t} /\ SeasonPoints = played[t].points
    BY <1>4, OnlyTeamIsTheSeason
  <2>2. DOMAIN table = {t} /\ t # Combined
    BY <1>2, <1>4, <2>1, WhatHePlayed DEF Lines
  <2>3. ServedLine(table) = table[t]
    BY <2>2 DEF ServedLine
  <2>4. QED
    BY <1>1, <2>1, <2>3 DEF Stinted
<1>5. QED
  BY <1>3, <1>4

\* No fetch, fill, load or repair breaks it.
LEMMA TotalsInvIsKept == TotalsInv /\ [TotalsNext]_totalsVars => TotalsInv'
<1> SUFFICES ASSUME TotalsInv, [TotalsNext]_totalsVars PROVE TotalsInv'
  OBVIOUS
<1>1. UNCHANGED played
  BY DEF TotalsNext, FetchPlayerSeasonStats, LoadSeasonStats, LoadAnother, totalsVars
<1>2. ASSUME NEW lines, Stinted(lines) PROVE Stinted(lines)'
  BY <1>1, <1>2 DEF Stinted, Lines, Traded, Teams
<1>3. Teams' = Teams
  BY <1>1 DEF Teams
<1>4. CASE UNCHANGED totalsVars
  <2>1. file' = file /\ table' = table
    BY <1>4 DEF totalsVars
  <2>2. file # Null => Stinted(file)'
    BY <1>1, <2>1 DEF TotalsInv, Stinted, Lines, Traded, Teams
  <2>3. table # Null => Stinted(table)' /\ ~Broken(table)'
    BY <1>1, <2>1 DEF TotalsInv, Stinted, Lines, Traded, Teams, Broken
  <2>4. QED
    BY <1>1, <1>3, <2>1, <2>2, <2>3 DEF TotalsInv
<1>5. CASE FetchPlayerSeasonStats
  <2>1. PICK served \in CareerAnswers, answer \in SeasonAnswers : file' = RepairSeasonTotals(served, answer)
    BY <1>5 DEF FetchPlayerSeasonStats
  <2>2. Stinted(RepairSeasonTotals(served, answer))
    BY ServedIsStinted, FilledIsStinted
  <2>3. QED
    BY <1>1, <1>3, <1>5, <2>1, <2>2 DEF TotalsInv, FetchPlayerSeasonStats, Stinted, Lines, Traded, Teams, Broken
<1>6. CASE LoadSeasonStats
  <2>1. Stinted(Rebuilt(file)) /\ ~Broken(Rebuilt(file)) /\ table' = Rebuilt(file) /\ file' = file /\ Stinted(file)
    BY <1>6, RebuiltIsWhole DEF LoadSeasonStats, TotalsInv
  <2>2. QED
    BY <1>1, <1>3, <2>1 DEF TotalsInv, Stinted, Lines, Traded, Teams, Broken
<1>7. CASE LoadAnother
  <2>1. Stinted(Rebuilt(table)) /\ ~Broken(Rebuilt(table)) /\ table' = Rebuilt(table) /\ file' = file
    BY <1>7, RebuiltIsWhole DEF LoadAnother, TotalsInv
  <2>2. QED
    BY <1>1, <1>3, <2>1 DEF TotalsInv, Stinted, Lines, Traded, Teams, Broken
<1>8. QED
  BY <1>4, <1>5, <1>6, <1>7 DEF TotalsNext

\* Whatever a player did for however many teams, the points served of his season
\* are those he scored in it or none: neither the second endpoint's fill nor
\* season_totals_repair, each unaware of the other, serves a part of them as the
\* whole.
THEOREM SeasonsAreTrue == TotalsSpec => []SeasonIsTrueOrNull
<1>1. TotalsInit => TotalsInv
  BY StintsAssumption DEF TotalsInit, TotalsInv, Teams
<1>2. TotalsInv => SeasonIsTrueOrNull
  BY TotalsAnswer
<1>3. QED
  BY <1>1, <1>2, TotalsInvIsKept, PTL DEF TotalsSpec
==============================================================================
