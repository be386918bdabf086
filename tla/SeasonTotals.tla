---------------------------- MODULE SeasonTotals ----------------------------
(* A player's season line, repaired twice. ESPN serves one line per team he  *)
(* played for and, of a traded player, one for the season as a whole, and    *)
(* leaves counting totals out of any of them. The pull fills what it can     *)
(* from a second endpoint before the file is written                         *)
(* (Pipeline._repair_season_totals, parse.fill_missing_season_totals); the   *)
(* load then rebuilds every whole-season line that differs from the sum of   *)
(* its stints (fetch/repairs/season_totals_repair.py). Readers are served    *)
(* the whole-season line (warehouse.py, player_season_stats_deduped).        *)
(*                                                                           *)
(* "points" stands for the whole totals half of a line, as it does in        *)
(* seasons_missing_totals.                                                   *)
EXTENDS Integers, FiniteSets, FiniteSetsExt

CONSTANTS
    Stints,     \* the teams a traded player played for
    MaxGames,   \* games of a stint, at most
    MaxPoints,  \* points of a stint, at most
    Combined,   \* the line with no team
    Null

ASSUME StintsAssumption ==
    IsFiniteSet(Stints) /\ Combined \notin Stints /\ MaxGames \in Nat /\ MaxPoints \in Nat
ASSUME NullAssumption == Null \notin Int

VARIABLES
    played,  \* what he did for each team
    file,    \* the lines of player_season_stats on disk, or Null
    table    \* the lines in the warehouse, or Null

totalsVars == <<played, file, table>>

Teams == DOMAIN played
Traded == Cardinality(Teams) > 1
Lines == Teams \cup (IF Traded THEN {Combined} ELSE {})

Total(values) == MapThenSumSet(LAMBDA t : values[t], DOMAIN values)
SeasonGames == Total([t \in Teams |-> played[t].games])
SeasonPoints == Total([t \in Teams |-> played[t].points])
TrueLine(l) == IF l = Combined THEN [games |-> SeasonGames, points |-> SeasonPoints]
               ELSE played[l]

-----------------------------------------------------------------------------
(* What ESPN serves (DATA.md, parse.py and season_totals_repair.py): games   *)
(* of every line, and totals of all or, averages only, of none; without      *)
(* those of some scoreless stints and of the whole season; with a copy of    *)
(* one stint, or nothing at all, for the whole season.                       *)

Untotaled(lines, gone) ==
    [l \in Lines |-> IF l \in gone THEN [lines[l] EXCEPT !.points = Null] ELSE lines[l]]

CareerAnswers ==
    LET true == [l \in Lines |-> TrueLine(l)]
        scoreless == {t \in Teams : played[t].points = 0}
    IN  {Untotaled(true, Lines)}
        \cup {Untotaled(true, gone) : gone \in SUBSET (scoreless \cup (Lines \ Teams))}
        \cup {[true EXCEPT ![Combined] = other] :
                 other \in IF Traded
                           THEN {played[t] : t \in Teams} \cup {[games |-> Null, points |-> Null]}
                           ELSE {}}

\* The second endpoint knows a season, never a team; or answers 404.
SeasonAnswers == {Null, [games |-> SeasonGames, points |-> SeasonPoints]}

-----------------------------------------------------------------------------
(* At fetch time.                                                            *)

\* seasons_missing_totals: a line with games and without totals.
MissingTotals(lines) ==
    {l \in DOMAIN lines : lines[l].points = Null /\ lines[l].games # Null}

\* A plausible slip: the one line without totals takes the season's, whatever
\* games it counts.
FillTheOneMissing(lines, totals) ==
    LET missing == MissingTotals(lines)
    IN  IF Cardinality(missing) # 1 THEN lines
        ELSE [lines EXCEPT ![CHOOSE l \in missing : TRUE].points = totals.points]

\* fill_missing_season_totals: the one line without totals that counts as many
\* games as the season takes them; two that do are a refusal.
FillMissing(lines, totals) ==
    LET matches == {l \in DOMAIN lines : lines[l].points = Null /\ lines[l].games = totals.games}
    IN  IF Cardinality(matches) # 1 THEN lines
        ELSE [lines EXCEPT ![CHOOSE l \in matches : TRUE].points = totals.points]

RepairSeasonTotals(lines, answer) ==
    IF MissingTotals(lines) = {} \/ answer = Null THEN lines ELSE FillMissing(lines, answer)

\* The file is written once for a career; --force and a running season fetch
\* it again.
FetchPlayerSeasonStats ==
    \E served \in CareerAnswers, answer \in SeasonAnswers :
        /\ file' = RepairSeasonTotals(served, answer)
        /\ UNCHANGED <<played, table>>

-----------------------------------------------------------------------------
(* At load time.                                                             *)

\* SQL's SUM over the stints: of those that have a value, and NULL when none.
SqlSum(lines, column) ==
    LET known == {t \in DOMAIN lines \ {Combined} : lines[t][column] # Null}
    IN  IF known = {} THEN Null ELSE Total([t \in known |-> lines[t][column]])

Summed(lines) == [games |-> SqlSum(lines, "games"), points |-> SqlSum(lines, "points")]

\* _BROKEN's two comparisons are IS DISTINCT FROM, for which NULL is a value.
Broken(lines) == Combined \in DOMAIN lines /\ lines[Combined] # Summed(lines)

Rebuilt(lines) ==
    IF Broken(lines) THEN [lines EXCEPT ![Combined] = Summed(lines)] ELSE lines

\* A load of everything, or of player_season_stats.
LoadSeasonStats ==
    /\ file # Null
    /\ table' = Rebuilt(file)
    /\ UNCHANGED <<played, file>>

\* A load of any other table repairs this one where it stands.
LoadAnother ==
    /\ table # Null
    /\ table' = Rebuilt(table)
    /\ UNCHANGED <<played, file>>

-----------------------------------------------------------------------------
TotalsInit ==
    /\ \E teams \in SUBSET Stints :
          /\ teams # {}
          /\ played \in [teams -> [games : 1..MaxGames, points : 0..MaxPoints]]
    /\ file = Null
    /\ table = Null

TotalsNext == FetchPlayerSeasonStats \/ LoadSeasonStats \/ LoadAnother

TotalsSpec == TotalsInit /\ [][TotalsNext]_totalsVars

\* The line readers are given: the whole season's, or the only stint's.
ServedLine(lines) == lines[IF Combined \in DOMAIN lines THEN Combined ELSE CHOOSE t \in DOMAIN lines : TRUE]

-----------------------------------------------------------------------------
(* Two repairs, each unaware of the other, and a figure served short by      *)
(* either would be served as if it were whole: the points a reader is given  *)
(* for a season are those the player scored in it, or none.                  *)
SeasonIsTrueOrNull ==
    table # Null => ServedLine(table).points \in {SeasonPoints, Null}

(* What the pull filled is there to be read: a whole-season line that has    *)
(* its totals in the file is not loaded without them. (parse.py,             *)
(* fill_missing_season_totals: it "fills his combined row and leaves his     *)
(* 21-, 4- and 37-game stints alone".)                                       *)
FilledTotalsAreLoaded ==
    [][LoadSeasonStats => (ServedLine(file).points # Null => ServedLine(table').points # Null)]_totalsVars
=============================================================================
