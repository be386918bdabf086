------------------------------- MODULE Streaks -------------------------------
(* The longest runs of consecutive games a condition held along, of a named  *)
(* player (compose/core.py, _compile_run; compose/runs.py, read_streak) and  *)
(* of a team (compose/team.py, compile_team_run).  conditions.py reads both  *)
(* in SQL, as gaps and islands: number the rows of a partition, number those *)
(* of one outcome among them, and group on the difference.  A player's rows  *)
(* are the games he played and, with no outcome, the games of his team with  *)
(* no box score within a spell he was playing for it, which end a run rather *)
(* than be carried across.                                                   *)
(*                                                                           *)
(* One player over two seasons, traded at most once.  A game of his is a hit *)
(* or a miss of the condition, one he sat out, or one with no box score; and *)
(* within what the question narrows to ("vs Boston") or outside it.  The     *)
(* same games, a hit a win, are a team's.                                    *)
EXTENDS Integers, Sequences, FiniteSets, FiniteSetsExt

CONSTANTS
  LastGame,       \* games in all; day and index of a game are one
  SeasonsGames,   \* the games of the first of the two seasons
  NamedRuns       \* DEFAULT_NAMED_RUNS: how many runs are told

ASSUME StreaksAssumption == {LastGame, SeasonsGames, NamedRuns} \subseteq Nat

VARIABLES
  games,     \* his teams' games, in _GAME_ORDER
  traded     \* the last game before his trade; LastGame, if there is none

streakVars == << games, traded >>

SeasonOf(day) == IF day <= SeasonsGames THEN 1 ELSE 2
TeamOf(day) == IF day <= traded THEN "old" ELSE "new"

GameKinds == [came : {"hit", "miss", "unseen"}, within : BOOLEAN] \cup [came : {"out"}, within : {TRUE}]

StreaksInit == games = << >> /\ traded \in 0..LastGame

PlayGame ==
  /\ Len(games) < LastGame
  /\ \E game \in GameKinds : games' = Append(games, game)
  /\ UNCHANGED traded

SeasonsEnd == Len(games) = LastGame /\ UNCHANGED streakVars

-----------------------------------------------------------------------------
(* _player_streak_rows.                                                      *)

DaysOf(came) == {d \in DOMAIN games : games[d].came \in came}

\* games_subquery: the narrowed games he played.
NarrowedPlayed == {d \in DaysOf({"hit", "miss"}) : games[d].within}

\* _spans: his first and last of them for a team in a season.
SpellOf(day) == {d \in NarrowedPlayed : TeamOf(d) = TeamOf(day) /\ SeasonOf(d) = SeasonOf(day)}
InSpell(day) == \E d, e \in SpellOf(day) : d <= day /\ day <= e

\* _box_missing joined to the spells: whatever the question narrows to.
UnseenDays == {d \in DaysOf({"unseen"}) : InSpell(d)}

RowsOn(days) == [d \in days |-> [season |-> SeasonOf(d), hit |-> games[d].came]]

PlayedRowsOnly == RowsOn(NarrowedPlayed)
PlayerStreakRows == RowsOn(NarrowedPlayed \cup UnseenDays)

\* compile_team_run: every game within the narrowing, won or lost.
TeamStreakRows == RowsOn({d \in DaysOf({"hit", "miss"}) : games[d].within})

-----------------------------------------------------------------------------
(* _longest_runs_sql.                                                        *)

\* rn, within a partition (all of a player's rows; a team's of one season), and
\* the same among the rows of one outcome.
Numbered(alike, d) == Cardinality({e \in DOMAIN alike : e <= d /\ alike[e] = alike[d]})
Island(rows, partition, d) ==
  Numbered(partition, d) - Numbered([e \in DOMAIN rows |-> << partition[e], rows[e].hit >>], d)

RunsOf(rows, partition) ==
  LET hits == {d \in DOMAIN rows : rows[d].hit = "hit"}
      key(d) == << partition[d], Island(rows, partition, d) >>
      runs == {{e \in hits : key(e) = key(d)} : d \in hits}
  IN  { [ days |-> run,
          open |-> \A e \in DOMAIN rows : (\E d \in run : partition[e] = partition[d]) => e <= Max(run) ]
        : run \in runs }

\* ORDER BY length DESC, first_day LIMIT $limit
Told(runs, limit) ==
  LET before(r, s) == \/ Cardinality(r.days) > Cardinality(s.days)
                      \/ Cardinality(r.days) = Cardinality(s.days) /\ Min(r.days) < Min(s.days)
  IN  {r \in runs : Cardinality({s \in runs : before(s, r)}) < limit}

\* _settled_open: a run that reached the last row goes on only in the season of
\* today, the second.
Settled(runs) == {[r EXCEPT !.open = r.open /\ SeasonOf(Max(r.days)) = 2] : r \in runs}

ReadStreak ==
  Settled(Told(RunsOf(PlayerStreakRows, [d \in DOMAIN PlayerStreakRows |-> "him"]), NamedRuns))
ReadTeamStreak ==
  Settled(Told(RunsOf(TeamStreakRows, [d \in DOMAIN TeamStreakRows |-> TeamStreakRows[d].season]), NamedRuns))

StreaksNext == PlayGame \/ SeasonsEnd
StreaksSpec == StreaksInit /\ [][StreaksNext]_streakVars

-----------------------------------------------------------------------------
\* The runs there are, without the islands: narrowed games, each a hit, between
\* which nothing ends a run and beside which something does, or nothing is left.
Between(S, first, last) == {d \in S : first < d /\ d < last}
TrueRuns(played, ends) ==
  LET hits == {d \in played : games[d].came = "hit"}
      unbroken(first, last) == Between((played \ hits) \cup ends, first, last) = {}
      starts == {d \in hits : ~\E e \in hits : e < d /\ unbroken(e, d)}
      run(first) == {d \in hits : d >= first /\ unbroken(first, d)}
  IN  { [ days |-> run(first),
          open |-> /\ \A d \in played \cup ends : d <= Max(run(first))
                   /\ SeasonOf(Max(run(first))) = 2 ]
        : first \in starts }

\* The streaks told are the longest there are, each maximal, no game seen to
\* miss and none unseen in a spell of his within it, and "still going" only
\* where nothing seen came after it in the season of today; a team's stays
\* within its season.
StreaksAreTrue ==
  /\ ReadStreak = Told(TrueRuns(NarrowedPlayed, UnseenDays), NamedRuns)
  /\ ReadTeamStreak =
       Told(UNION {TrueRuns({d \in NarrowedPlayed : SeasonOf(d) = s}, {}) : s \in {1, 2}}, NamedRuns)
=============================================================================
