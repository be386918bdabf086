----------------------------- MODULE PeriodLines -----------------------------
(* A player's figure in a quarter or a half, which no box score holds: it is *)
(* summed from the shots and the plays (nba/period_line.py), and each load   *)
(* records how far the whole game's line falls from his box score            *)
(* (fetch/repairs/plays_complete.py).  A period read counts every covered    *)
(* game, says by how much its figure may be off, and is refused where too    *)
(* many games miss (query/player_games.py, query/compose/periods.py).  The   *)
(* games ESPN serves with an empty box score are rebuilt from the same plays *)
(* (fetch/repairs/reconstructed_box.py), and nothing checks those.           *)
(*                                                                           *)
(* One stat of one player: "points", summed from the shots, or "assists",    *)
(* from the plays.                                                           *)
EXTENDS Integers, FiniteSets, FiniteSetsExt

CONSTANTS
  PlayedGames,   \* the games of the span he was listed in
  Periods,       \* of every one of them
  Overtime,      \* the period after the last of regulation
  MaxInAPeriod,  \* of the stat, at most: a bound
  MissingOutOf   \* PERIOD_MISSING_ABOVE is one in this many: 10

ASSUME PeriodsAssumption ==
  IsFiniteSet(PlayedGames) /\ IsFiniteSet(Periods) /\ Overtime \in Periods /\ MaxInAPeriod \in Nat

VARIABLES
  stat,       \* what is asked: "points" or "assists"
  did,        \* [game -> [period -> what he truly did]]
  held,       \* [game -> [period -> what its stored plays make of it]]
  boxLine,    \* [game -> "full", "empty": all zeros and no minutes, "dnp"]
  unvalued,   \* games of 2002, whose shots do not say what they were worth
  stored,     \* games on disk with their plays (--include-pbp)
  loaded,     \* [table -> games of it in the warehouse]; {}: no such table
  checked,    \* the warehouse has the plays_complete table
  gaps        \* its rows: [game -> box score less plays]

periodVars == << stat, did, held, boxLine, unvalued, stored, loaded, checked, gaps >>

PeriodTables == {"player_box_stats", "shot_chart", "plays"}

SumOver(f, S) == MapThenSumSet(LAMBDA p : f[p], S)

-----------------------------------------------------------------------------
(* The load.                                                                 *)

\* period_line_sql: over the loaded shots or plays, in these periods.  A player
\* with no row there is read as 0.
LineTable == IF stat = "points" THEN "shot_chart" ELSE "plays"
PeriodLine(g, periods, tables) == IF g \in tables[LineTable] THEN SumOver(held[g], periods) ELSE 0

\* Only games the shot table covers are read, and only played ones: by the
\* minutes, which an empty box score lacks.
Covered(g, tables) == g \in tables["shot_chart"] /\ g \in tables["player_box_stats"]
Recorded(g) == boxLine[g] = "full"

\* player_box_stats_reconstructed: a game with no minutes at all, rebuilt from
\* its plays for whoever appears in one.
Reconstructed(g, tables) == boxLine[g] = "empty" /\ g \in tables["plays"] /\ SumOver(held[g], Periods) > 0

\* plays_complete_sql, built whenever the tables it reads are there.
GapsOverRegulation(tables) ==
  [g \in {x \in PlayedGames : Covered(x, tables) /\ Recorded(x)} |->
     SumOver(did[g], Periods) - PeriodLine(g, Periods \ {Overtime}, tables)]
PlaysComplete(tables) ==
  [g \in {x \in PlayedGames : Covered(x, tables) /\ Recorded(x)} |->
     SumOver(did[g], Periods) - PeriodLine(g, Periods, tables)]

\* warehouse.build of some of the tables, and the repairs after it.
LoadTables(tables) ==
  LET now == [t \in PeriodTables |->
                IF t \notin tables THEN loaded[t]
                ELSE IF t = "player_box_stats" THEN PlayedGames ELSE stored]
  IN  /\ loaded' = now
      /\ IF \A t \in PeriodTables : now[t] # {}
         THEN checked' = TRUE /\ gaps' = PlaysComplete(now)
         ELSE UNCHANGED << checked, gaps >>
      /\ UNCHANGED << stat, did, held, boxLine, unvalued, stored >>

\* A game first stored without its plays, fetched again with --force.
FetchPlays(g) ==
  /\ g \notin stored
  /\ stored' = stored \cup {g}
  /\ UNCHANGED << stat, did, held, boxLine, unvalued, loaded, checked, gaps >>

-----------------------------------------------------------------------------
(* A period read.                                                            *)

\* box_source: the rebuilt lines count wherever the view is there.
PeriodRows(tables) == {g \in PlayedGames : Covered(g, tables) /\ (Recorded(g) \/ Reconstructed(g, tables))}

\* period_unseparable and period_counted: points of 2002 are left out; a game
\* plays_complete has no row of is counted, unchecked.
Unseparable(g) == stat = "points" /\ g \in unvalued
Counted(rows) ==
  LET kept == {g \in rows : ~Unseparable(g)}
  IN  [kept |-> kept, rebuilt |-> kept \ DOMAIN gaps]

Missing(counted) == {g \in counted.kept \ counted.rebuilt : gaps[g] # 0}
TooShort(counted) ==
  Cardinality(Missing(counted)) * MissingOutOf > Cardinality(counted.kept \ counted.rebuilt)

\* _period_log_rows: refused where the warehouse has no plays_complete, where
\* every game is of 2002, and where too many miss; else every game is counted,
\* and the bound is the sum of the gaps' sizes (_period_bound_notes).
Refused == [kind |-> "refused"]
ReadPeriods(periods) ==
  LET rows == PeriodRows(loaded)
      counted == Counted(rows)
      size(g) == IF gaps[g] < 0 THEN - gaps[g] ELSE gaps[g]
  IN  IF \/ ~checked /\ rows # {}
         \/ rows # {} /\ counted.kept = {}
         \/ TooShort(counted)
      THEN Refused
      ELSE [ kind    |-> "answered",
             kept    |-> counted.kept,
             rebuilt |-> counted.rebuilt,
             figure  |-> [g \in counted.kept |-> PeriodLine(g, periods, loaded)],
             bound   |-> SumOver([g \in Missing(counted) |-> size(g)], Missing(counted)) ]

-----------------------------------------------------------------------------
PeriodsInit ==
  /\ stat \in {"points", "assists"}
  /\ did \in [PlayedGames -> [Periods -> 0..MaxInAPeriod]]
  /\ held \in [PlayedGames -> [Periods -> 0..MaxInAPeriod]]
  /\ unvalued \in SUBSET PlayedGames
  /\ boxLine \in [PlayedGames -> {"full", "empty", "dnp"}]
  /\ \A g \in PlayedGames : boxLine[g] = "dnp" => SumOver(did[g], Periods) + SumOver(held[g], Periods) = 0
  /\ stored \in SUBSET PlayedGames
  /\ loaded = [t \in PeriodTables |-> {}]
  /\ checked = FALSE /\ gaps = << >>

PeriodsNext ==
  \/ \E tables \in SUBSET PeriodTables : LoadTables(tables)
  \/ \E g \in PlayedGames : FetchPlays(g)

PeriodsSpec == PeriodsInit /\ [][PeriodsNext]_periodVars

-----------------------------------------------------------------------------
\* How far a game's figure of these periods is from what he did in them.
Off(g, periods) == PeriodLine(g, periods, loaded) - SumOver(did[g], periods)

\* The one check there is, a whole game against its box score, sees the sum of
\* the faults: what these periods lack may be made up for by what the others
\* have too many of.
MadeUpFor(g, periods) ==
  LET others == Periods \ periods
  IN  (Off(g, periods) < 0 /\ Off(g, others) > 0) \/ (Off(g, periods) > 0 /\ Off(g, others) < 0)

\* Off, over the games with a box score that an answer counts.
Checked(answer) == {g \in answer.kept : Recorded(g)}
OffBy(answer, periods) ==
  SumOver([g \in Checked(answer) |-> answer.figure[g] - SumOver(did[g], periods)], Checked(answer))
Within(answer, periods) ==
  - answer.bound <= OffBy(answer, periods) /\ OffBy(answer, periods) <= answer.bound

\* What the check can vouch for, whatever the stored plays hold, and whatever
\* was pulled without them, loaded in part or left out.  Over the games with a
\* box score, the figure an answer gives of any quarters is within the bound it
\* says, exact where it says none, unless a game's plays make up in the other
\* quarters for what they miss in these: so always, of the whole game.  And
\* only a rebuilt game goes unchecked.
PeriodFiguresAreBounded ==
  \A periods \in SUBSET Periods \ {{}} :
    LET answer == ReadPeriods(periods)
    IN  answer.kind = "answered" =>
          /\ answer.rebuilt \cap Checked(answer) = {}
          /\ (\A g \in Checked(answer) : ~MadeUpFor(g, periods)) => Within(answer, periods)
=============================================================================
