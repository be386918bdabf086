------------------------------ MODULE Presence ------------------------------
(* A team's games with and without a player (compose/presence.py,            *)
(* read_with_without, over conditions.py).  No table says who was on which   *)
(* team: it is read off a player's own box-score rows, those he sat out      *)
(* included, as stints, and a game is told with or without him only within   *)
(* one.  An injured player mostly has no row at all, so a stint must reach   *)
(* over the games he has none in, and stop where he left.                    *)
(*                                                                           *)
(* `mate` is the player the games are divided by.  The other name of the     *)
(* question is nobody's, the subject's whose games they are, a second        *)
(* teammate's, or that of one who played beside (`role`).  The opponent and  *)
(* the team a question may name narrow both sides alike and are left out.    *)
EXTENDS Integers, Sequences, FiniteSets, FiniteSetsExt

CONSTANTS
  DayYears,    \* the season of each day there are games on
  GameDaysOf,  \* the days each team plays on
  DayKinds,    \* per day, the rows its box scores may hold
  NoBoxRow

\* A day is of one season or a later one than the day before.  A team-game of a
\* day is seen if its box score has a row with minutes.
ASSUME CalendarAssumption ==
  /\ DayYears \in Seq(Nat \ {0}) /\ DOMAIN DayKinds = DOMAIN DayYears
  /\ \A d, e \in DOMAIN DayYears : d <= e => DayYears[d] <= DayYears[e]
ASSUME PresenceAssumption ==
  \A d \in DOMAIN DayKinds : \A kind \in DayKinds[d] :
    /\ kind.seen \subseteq {t \in DOMAIN GameDaysOf : d \in GameDaysOf[t]}
    /\ \A p \in {"mate", "other"} : kind.rows[p] # NoBoxRow =>
         /\ kind.rows[p].team \in DOMAIN GameDaysOf /\ d \in GameDaysOf[kind.rows[p].team]
         /\ kind.rows[p].did \in {"sat", "bench", "started"}
         /\ kind.rows[p].did # "sat" => kind.rows[p].team \in kind.seen

VARIABLES
  pastDays,   \* the days there have been: whose rows, and which teams' games were seen
  role         \* the other name's: "none", "subject", "mate" or "beside"

presenceVars == << pastDays, role >>

PresenceInit == pastDays = << >> /\ role \in {"none", "subject", "mate", "beside"}

PlayDay ==
  /\ Len(pastDays) < Len(DayKinds)
  /\ \E kind \in DayKinds[Len(pastDays) + 1] :
       /\ role = "none" => kind.rows["other"] = NoBoxRow
       /\ pastDays' = Append(pastDays, kind)
  /\ UNCHANGED role

PresenceOver == Len(pastDays) = Len(DayKinds) /\ UNCHANGED presenceVars

-----------------------------------------------------------------------------
(* stints *)

RowOn(p, d) == pastDays[d].rows[p]
RowDays(p) == {d \in DOMAIN pastDays : RowOn(p, d) # NoBoxRow}
GamesBy(team) == GameDaysOf[team] \cap DOMAIN pastDays

\* A row begins a stint where the one before it is for another team, or of a
\* season that is not this one or the last.
StintDays(p) ==
  LET rows == RowDays(p) IN
  {d \in rows :
     LET before == {e \in rows : e < d} IN
       \/ before = {}
       \/ RowOn(p, Max(before)).team # RowOn(p, d).team
       \/ DayYears[d] - DayYears[Max(before)] > 1}

\* A slip the docstring names: ending a stint at his last row.
StintToLastRow(p, first, later) ==
  [ team |-> RowOn(p, first).team, first |-> first,
    last |-> Max({d \in RowDays(p) : first <= d /\ later \cap first..d = {}}) ]

\* It ends with the last game his team plays in the season of his last row, or
\* the day before his next stint.
StintOf(p, first, later) ==
  LET lastRow == Max({d \in RowDays(p) : first <= d /\ later \cap first..d = {}})
      closing == Max({d \in GamesBy(RowOn(p, first).team) : DayYears[d] = DayYears[lastRow]})
  IN  [ team |-> RowOn(p, first).team, first |-> first,
        last |-> Min({closing} \cup {d - 1 : d \in later}) ]

PlayerStints(p) ==
  LET starts == StintDays(p) IN
  {StintOf(p, first, {d \in starts : first < d}) : first \in starts}

Overlaps(ours, theirs) ==
  { [ team |-> pair[1].team, first |-> Max({pair[1].first, pair[2].first}),
      last |-> Min({pair[1].last, pair[2].last}) ] :
    pair \in {pair \in ours \X theirs : /\ pair[1].team = pair[2].team
                                        /\ pair[1].first <= pair[2].last
                                        /\ pair[2].first <= pair[1].last} }

-----------------------------------------------------------------------------
(* read_with_without: `scope` a season, or 0 for a career; `without` whether *)
(* the question asks the games without; `predicate` what the teammates did   *)

Mates == IF role = "mate" THEN {"mate", "other"} ELSE {"mate"}

\* _with_without_windows: over one season with a subject, his own stints
Windows(scope) ==
  LET matesWindows == IF role = "mate" THEN Overlaps(PlayerStints("mate"), PlayerStints("other"))
                      ELSE PlayerStints("mate")
      own == PlayerStints("other")
      together == Overlaps(own, matesWindows)
  IN  IF role # "subject" THEN matesWindows
      ELSE IF scope # 0 /\ together # {} THEN own
      ELSE together

\* _with_without_held, _with_without_beside_clause: a row of the team's game
\* that counts as having been in it so
Held(p, team, d, predicate) ==
  /\ RowOn(p, d) # NoBoxRow /\ RowOn(p, d).team = team
  /\ RowOn(p, d).did \in IF predicate = "played" THEN {"bench", "started"} ELSE {predicate}

\* presence_games_sql's rows within a window: presence_games
InsideGames(windows, scope) ==
  {g \in UNION {{w.team} \X (w.first..w.last) : w \in windows} :
     /\ g[2] \in GamesBy(g[1])
     /\ scope = 0 \/ DayYears[g[2]] = scope
     /\ role = "beside" => Held("other", g[1], g[2], "played")}

SeenGame(g) == g[1] \in pastDays[g[2]].seen

\* _with_without_played
CountsAsPlayed(g, without, predicate) ==
  LET held == Cardinality({m \in Mates : Held(m, g[1], g[2], predicate)}) IN
  IF without THEN held > 0 ELSE held = Cardinality(Mates)

ReadWithWithout(scope, without, predicate) ==
  LET windows == Windows(scope)
      inside == InsideGames(windows, scope)
      counted == {g \in inside : SeenGame(g)}
  IN  IF \E m \in Mates : PlayerStints(m) = {} THEN [refused |-> "teammate_never_seen"]
      ELSE IF windows = {} THEN [refused |-> "never_together"]
      ELSE IF counted = {} THEN [refused |-> "together_outside_span"]
      ELSE [ played |-> {g \in counted : CountsAsPlayed(g, without, predicate)},
             out |-> {g \in counted : ~CountsAsPlayed(g, without, predicate)},
             unknown |-> Cardinality(inside \ counted) ]

PresenceNext == PlayDay \/ PresenceOver
PresenceSpec == PresenceInit /\ [][PresenceNext]_presenceVars

-----------------------------------------------------------------------------
\* Who was on a team on a day, with no stints: he has a row for it, no row for
\* another since, and it is the season of that row, or one he goes on in without
\* missing a season.
OnTeam(p, team, d) ==
  \E r \in RowDays(p) :
    LET stays(until) == \A e \in r..until : RowOn(p, e) = NoBoxRow \/ RowOn(p, e).team = team IN
    /\ r <= d /\ stays(d)
    /\ \/ DayYears[d] = DayYears[r] /\ \E e \in GamesBy(team) : d <= e /\ DayYears[e] = DayYears[r]
       \/ \E s \in RowDays(p) :
            /\ d <= s /\ stays(s)
            /\ \A y \in DayYears[r]..DayYears[s] - 1 :
                 \E e \in RowDays(p) \cap r..s : DayYears[e] = y + 1

\* Whose team the games of an answer are: the mates', the subject's over a season
\* they shared a team in at all, or both's.
Shared(team, d) == \A p \in Mates \cup {"other"} : OnTeam(p, team, d)
Theirs(team, d, scope) ==
  IF role = "subject" THEN
    /\ OnTeam("other", team, d)
    /\ IF scope = 0 THEN Shared(team, d)
       ELSE \E t \in DOMAIN GameDaysOf, e \in DOMAIN pastDays : Shared(t, e)
  ELSE \A m \in Mates : OnTeam(m, team, d)

\* A with-and-without answer tells the games of their time on the team, each
\* once and on the right side: asked "without", the games none of the named
\* teammates was in, asked "with", those all were; a game with no box score is
\* on neither side, and the answer says how many those are.
SplitIsTrue ==
  \A scope \in {0} \cup {DayYears[d] : d \in DOMAIN pastDays} :
    LET theirs == {g \in (DOMAIN GameDaysOf) \X (DOMAIN pastDays) :
                     /\ g[2] \in GamesBy(g[1]) /\ (scope = 0 \/ DayYears[g[2]] = scope)
                     /\ Theirs(g[1], g[2], scope)
                     /\ role = "beside" => Held("other", g[1], g[2], "played")}
        seen == {g \in theirs : SeenGame(g)}
    IN  \A without \in BOOLEAN, predicate \in {"played", "started"} :
          LET answer == ReadWithWithout(scope, without, predicate)
              did(g, m) == Held(m, g[1], g[2], predicate)
          IN  IF "refused" \in DOMAIN answer THEN seen = {}
              ELSE /\ answer.played \cup answer.out = seen
                   /\ without => answer.out = {g \in seen : \A m \in Mates : ~did(g, m)}
                   /\ ~without => answer.played = {g \in seen : \A m \in Mates : did(g, m)}
                   /\ answer.unknown = Cardinality(theirs \ seen)
=============================================================================
