------------------------------ MODULE Absences ------------------------------
(* A player's games without a teammate (query/player_relation.py, over       *)
(* player_games.py): the list the words "without X" narrow his games to.     *)
(* Which games those are turns on whether X was ever his teammate, on        *)
(* whether the question is of one season or a career, and, "vs lakers        *)
(* without lebron", on which side X was.  The with-and-without split         *)
(* (Presence) answers the same question from the team's games, by the same   *)
(* stints.                                                                   *)
(*                                                                           *)
(* "other" is the player whose games they are, "mate" the one they are       *)
(* without.  Two teams that play on one day play each other: a day stands    *)
(* for one game of a date.                                                   *)
EXTENDS Presence

ASSUME OpponentsAssumption ==
  \A a, b, c \in DOMAIN GameDaysOf :
    GameDaysOf[a] \cap GameDaysOf[b] \cap GameDaysOf[c] # {} => a = b \/ b = c \/ a = c

Played(p, d) == RowOn(p, d) # NoBoxRow /\ RowOn(p, d).did # "sat"
InSpan(d, scope) == scope = 0 \/ DayYears[d] = scope

\* The relation before it is narrowed: the games he played.
BaseGames(scope) == {d \in DOMAIN pastDays : Played("other", d) /\ InSpan(d, scope)}
HisTeam(d) == RowOn("other", d).team
Facing(d) == {t \in DOMAIN GameDaysOf : d \in GameDaysOf[t]} \ {HisTeam(d)}
SideTeams(side, d) == IF side = "own" THEN {HisTeam(d)} ELSE Facing(d)

\* Those sat out count: a row is a season's roster.
TeammatesAmong(scope) ==
  \E d \in RowDays("other"), e \in RowDays("mate") :
    /\ InSpan(d, scope) /\ DayYears[d] = DayYears[e]
    /\ RowOn("other", d).team = RowOn("mate", e).team

OnTeamInSpan(team, scope) == \E e \in RowDays("mate") : RowOn("mate", e).team = team /\ InSpan(e, scope)

\* _tenure_clause: the games for, or against, the team the mate was on then
InTenure(d, scope, side) ==
  \E w \in PlayerStints("mate") :
    /\ scope # 0 => DayYears[w.first] <= scope /\ scope <= DayYears[w.last]
    /\ w.team \in SideTeams(side, d) /\ d \in w.first..w.last

\* The reading "Nets record without KD" warns of: the years before he came.
AbsenceUnbounded(scope, opponent) == [side |-> "own", bounded |-> FALSE]

\* _absence_condition, _absence_tenure: `opponent` is a set, empty if none is named
AbsenceCondition(scope, opponent) ==
  IF ~TeammatesAmong(scope) /\ \E team \in opponent : OnTeamInSpan(team, scope)
  THEN [side |-> "opponent", bounded |-> scope = 0]
  ELSE [side |-> "own", bounded |-> scope = 0 \/ ~TeammatesAmong(0)]

\* condition_clause
AbsenceHolds(condition, d, scope) ==
  IF condition.bounded THEN InTenure(d, scope, condition.side) /\ ~Played("mate", d)
  ELSE ~(Played("mate", d) /\ RowOn("mate", d).team \in SideTeams(condition.side, d))

\* scoped_games, and no_narrowed_games where none is left: whether they were
\* teammates is asked of the games before any narrowing.
ReadWithout(scope, opponent) ==
  LET base == BaseGames(scope)
      condition == AbsenceCondition(scope, opponent)
      games == {d \in base : (opponent = {} \/ opponent \cap Facing(d) # {}) /\ AbsenceHolds(condition, d, scope)}
      strangers == /\ condition = [side |-> "own", bounded |-> TRUE]
                   /\ \A d \in base : ~InTenure(d, scope, "own")
  IN  IF games # {} THEN [games |-> games, side |-> condition.side]
      ELSE [refused |-> IF base = {} THEN "no_games_in_span" ELSE IF strangers THEN "not_teammates_then" ELSE "none_matched"]

-----------------------------------------------------------------------------
\* "Without X" is one reading.  Over a career his games without X are the ones
\* X missed of their time on one team; over a season they hold those, and any
\* other X was not in for his team, as the with-and-without split tells them.
\* Where the two were not teammates and X was with the named opponent, they are
\* the games X missed over there.  That they were not teammates is said only
\* where no game of his came in X's time.
WithoutIsOneReading ==
  role = "subject" =>
    \A scope \in {0} \cup {DayYears[d] : d \in DOMAIN pastDays},
       opponent \in {{}} \cup {{t} : t \in DOMAIN GameDaysOf} :
      LET answer == ReadWithout(scope, opponent)
          split == ReadWithWithout(scope, TRUE, "played")
          told == IF "games" \in DOMAIN answer THEN answer.games ELSE {}
          versus == {d \in BaseGames(scope) : opponent = {} \/ opponent \cap Facing(d) # {}}
          playedFor(d) == Played("mate", d) /\ RowOn("mate", d).team = HisTeam(d)
          missed == {d \in versus : OnTeam("mate", HisTeam(d), d) /\ ~playedFor(d)}
          across == AbsenceCondition(scope, opponent).side = "opponent"
      IN  /\ across => \A d \in told : ~Played("mate", d) /\ (scope = 0 => \E t \in opponent : OnTeam("mate", t, d))
          /\ ~across => told \subseteq {d \in versus : ~playedFor(d)} /\ missed \subseteq told
          /\ ~across /\ scope = 0 => told = missed
          /\ ~across /\ "out" \in DOMAIN split => told = {d \in versus : << HisTeam(d), d >> \in split.out}
          /\ answer = [refused |-> "not_teammates_then"] => \A d \in BaseGames(scope) : ~OnTeam("mate", HisTeam(d), d)
=============================================================================
