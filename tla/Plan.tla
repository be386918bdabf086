--------------------------------- MODULE Plan ---------------------------------
(* From a question's point to an answer (query/compose: plan.py, __init__.py, *)
(* core.py, team.py).  A point narrows the games by cells (a round, a venue,  *)
(* a rate...).  Which cells an answer's words state is kept in one table per  *)
(* shape; the planner, the shape's reader and the two compilers each consult  *)
(* it, or a list of their own, before they answer.                            *)
(* What a reader finds in the warehouse is left open: it may answer, refuse   *)
(* (a name, a season out of reach) or step aside for the compiler.            *)
CONSTANT CellSets   \* what the points may set at once

VARIABLES
  asked,   \* the point: relation, shape, cells; named team; the bare category
  step,    \* who is asked next
  shape,   \* the shape the query is read and said as
  told     \* who answered, and what of the question the answer says

planVars == << asked, step, shape, told >>

---------------------------------------------------------------------------
(* The cells. *)

Span    == {"career", "range", "both"}
Window  == {"window", "ranked_by"}
Cuts    == {"opponent", "tenure", "venue", "date", "situation", "game_n", "season_n", "round"}
OwnLine == {"line", "period_line"}
Rate    == {"rate"}
Cell    == Span \union Window \union Cuts \union OwnLine \union Rate
             \union {"period", "season_line", "opponent_line", "companion", "split"}

ASSUME CellsAssumption == CellSets \subseteq SUBSET Cell

\* Not a cell: the starter/bench split named with neither half.
Halves == "both_halves"

PlayerRelation == {"split", "companion", "period"} \union OwnLine \union Cuts \union Span \union Window
TeamCuts       == Cuts \ {"tenure", "season_n"}
TeamRelation   == {"window", "period"} \union TeamCuts \union Span

---------------------------------------------------------------------------
(* One row per shape: what its words do not state, what the planner refuses   *)
(* outright, what it lets through beyond the relation's cells, who declines   *)
(* the rest, and which cells need a named player, or a named team or player.  *)

Unstated(cells) ==
  [ unstated |-> cells, refused |-> {}, taken |-> {}, declined |-> "aside",
    sides |-> FALSE, player |-> {}, subject |-> {} ]

Row == Unstated({})

Relation(s) == s[1]

Allowing(row, cells) == [row EXCEPT !.taken = cells]
Declining(row, who)  == [row EXCEPT !.declined = who]
Sided(row)           == [row EXCEPT !.sides = TRUE]

Whole == {"date", "window", "period", "both"}
Third == {"opponent", "window", "season_n", "period", "period_line"}

\* A team's runs are narrowed by as much as a player's.
RunsRow ==
  [ unstated |-> Whole, refused |-> Whole \ {"both"}, taken |-> {}, declined |-> "aside", sides |-> FALSE,
    player |-> {"companion", "split", "season_n", "line", "game_n"}, subject |-> {"opponent", "venue"} ]

CountedRow == Unstated({"range"} \union (Cuts \ {"season_n"})
                       \union (PlayerRelation \ (Span \union Cuts \union {"line"})))
PeriodRow == Sided(Unstated({"period_line", "round"}))
LineRow == Unstated(PlayerRelation \ {"career"})
SeasonRow(cells) == Declining(Allowing(Unstated(cells), Rate), "read")

GamesRows ==
  { << << "player_games", "rows", "date" >>, Sided(Unstated({"period"})) >>,
    << << "player_games", "scalar", "line" >>, Sided(Unstated({"period"})) >>,
    << << "player_games", "split", "splits" >>, Unstated(Whole) >>,
    << << "player_games", "split", "line" >>, Unstated(Whole) >>,
    << << "player_games", "runs", "line" >>, RunsRow >>,
    << << "player_games", "comparison", "met" >>,
       [Unstated(Third \union {"both"}) EXCEPT !.refused = Third] >>,
    << << "player_games", "rows", "measure" >>, LineRow >>,
    << << "player_games", "scalar", "count" >>, CountedRow >>,
    << << "player_games", "ranking", "count" >>, CountedRow >>,
    << << "player_games", "rows", "count" >>, CountedRow >>,
    << << "player_games", "ranking", "player" >>, Row >>,
    << << "player_periods", "rows", "date" >>, PeriodRow >>,
    << << "player_periods", "split", "period" >>, PeriodRow >>,
    << << "player_periods", "ranking", "player" >>,
       Declining(Unstated(PlayerRelation \ {"opponent", "venue", "period"}), "plan") >> }

SeasonRows ==
  { << << "player_seasons", "scalar", "line" >>, Sided(Unstated({"period"})) >>,
    << << "player_seasons", "ranking", "player" >>,
       Allowing(LineRow, Rate \union {"season_line"}) >>,
    << << "player_seasons", "ranking", "seasons" >>,
       Declining(Allowing(LineRow, {"season_line"}), "plan") >>,
    << << "player_seasons", "scalar", "count" >>,
       Allowing(LineRow, Rate \union {"season_line"}) >>,
    << << "player_seasons", "split", "season" >>, LineRow >>,
    << << "player_seasons", "comparison", "subject" >>,
       Declining(Unstated(PlayerRelation), "plan") >>,
    << << "netpoints", "scalar", "ratings" >>,
       Declining(Unstated(PlayerRelation \ {"window"}), "plan") >>,
    << << "netpoints", "chart", "fingerprint" >>,
       Declining(Unstated(PlayerRelation \ {"window", "date"}), "plan") >>,
    << << "shots", "chart", "shots" >>,
       Sided(Declining(Unstated({"period", "both"}), "plan")) >>,
    << << "shots", "scalar", "distance" >>,
       Sided(Declining(Unstated({"period", "both"}), "plan")) >> }

TeamRows ==
  { << << "team_games", "rows", "date" >>,
       Allowing(Unstated({"period"}), {"companion", "line", "season_n", "opponent_line"}) >>,
    << << "team_games", "split", "splits" >>,
       Allowing(Unstated(Whole), {"companion", "line", "season_n", "split"}) >>,
    << << "team_games", "split", "line" >>,
       Allowing(Unstated(Whole), {"companion", "line", "season_n", "opponent_line"}) >>,
    << << "team_games", "runs", "won" >>, RunsRow >>,
    << << "team_games", "split", "presence" >>,
       Declining(Allowing(Unstated(TeamRelation \ {"opponent", "career"}), {"companion"}), "plan") >>,
    << << "team_games", "comparison", "opponent" >>,
       Declining(Unstated({"game_n", "round", "situation", "period"}), "plan") >>,
    << << "team_periods", "scalar", "total" >>, Declining(Row, "plan") >>,
    << << "team_games", "scalar", "record" >>,
       Declining(Allowing(Unstated({"date", "window", "period"}), {"split"}), "plan") >>,
    << << "team_games", "rows", "measure" >>,
       Declining(Unstated({"window", "period", "both", "date"}), "plan") >>,
    << << "team_seasons", "scalar", "line" >>, SeasonRow(TeamRelation \union Rate) >>,
    << << "team_seasons", "split", "season" >>,
       SeasonRow((TeamRelation \union Rate) \ {"career", "range"}) >>,
    << << "team_seasons", "ranking", "team" >>,
       SeasonRow((TeamRelation \union Rate) \ {"venue", "range"}) >>,
    << << "team_snapshots", "scalar", "projection" >>, SeasonRow(TeamRelation \union Rate) >> }

AllRows == GamesRows \union SeasonRows \union TeamRows
Shapes(rows) == {r[1] : r \in rows}
Rows == [s \in Shapes(AllRows) |-> (CHOOSE r \in AllRows : r[1] = s)[2]]

\* A team's own sum, which no reader reads: it has no row.
TeamSum == << "team_games", "scalar", "none" >>

IsTeams(s)  == s \in Shapes(TeamRows) \union {TeamSum}
IsSeasons(s) == Relation(s) \in {"team_seasons", "team_snapshots"}
RowOf(s)    == IF s \in DOMAIN Rows THEN Rows[s] ELSE Row
Taken(s)    == IF s \in DOMAIN Rows THEN Rows[s].taken ELSE Rate

CellsStated(s) ==
  ((IF IsTeams(s) THEN TeamRelation ELSE PlayerRelation) \union RowOf(s).taken) \ RowOf(s).unstated

(* What the point sets and the shape's words do not state.  A shape that      *)
(* reads one half of the starter/bench split does not state both.             *)
CellsUnhonored(s) ==
  IF s \notin DOMAIN Rows THEN {}
  ELSE (asked.cells \ CellsStated(s))
         \union (IF RowOf(s).sides /\ asked.halves /\ "split" \in CellsStated(s) THEN {Halves} ELSE {})

---------------------------------------------------------------------------
(* The planner. *)

\* cells_declined: refused before any query is made.
CellsDeclined(s) ==
  LET row == RowOf(s)
  IN  \/ asked.relation # "player" /\ asked.cells \intersect row.player # {}
      \/ asked.relation # "player" /\ ~asked.team /\ asked.cells \intersect row.subject # {}
      \/ asked.cells \intersect row.refused # {}
      \/ row.declined = "plan" /\ CellsUnhonored(s) # {}

\* As if the league were held to a named player's list.
HonoredAlike(extra) ==
  IF asked.relation = "team" THEN TeamRelation \union extra ELSE PlayerRelation \union extra

\* The league's games are read by fewer cells than a named player's.
Honored(extra) ==
  CASE asked.relation = "team"     -> TeamRelation \union extra
    [] asked.relation = "everyone" -> (PlayerRelation \union extra)
                                        \ {"both", "date", "game_n", "companion", "split", "tenure", "window"}
    [] OTHER                       -> PlayerRelation \union extra

CheckRelationScoping(extra) == asked.cells \subseteq Honored(extra)

---------------------------------------------------------------------------
(* What the compilers narrow by. *)

(* The team compiler's sum over games, over both season types at once, or     *)
(* the season line where nothing in _team_narrowed's list is set.             *)
TeamNarrowed == asked.cells \intersect {"opponent", "venue", "date", "range", "game_n", "situation", "period", "window"} # {}

TeamMixed == "both" \in asked.cells /\ asked.cells \intersect {"date", "career", "game_n"} = {}

TeamSumReads(fromGames) ==
  IF ~(TeamNarrowed \/ fromGames) THEN {"both"}                    \* its playoff total is said beside it
  ELSE IF ~TeamMixed THEN TeamRelation \ {"both"}
  ELSE IF asked.cells \intersect {"range", "situation"} = {} THEN {"both", "opponent", "venue", "window"}
  ELSE TeamRelation

\* A named team's runs are narrowed as its games are; the league's by the span.
TeamRunReads ==
  IF asked.team THEN TeamRelation \ {"both"} ELSE {"career", "range"}

---------------------------------------------------------------------------
Question ==
  { q \in [ relation : {"player", "everyone", "team", "team_seasons", "team_snapshots", "netpoints", "shots"},
            shape : DOMAIN Rows \union {TeamSum},
            cells : CellSets,
            team : BOOLEAN, halves : BOOLEAN ] :
      /\ CASE IsSeasons(q.shape) -> q.relation \in {"team", Relation(q.shape)}
           [] IsTeams(q.shape) /\ ~IsSeasons(q.shape) -> q.relation = "team"
           [] Relation(q.shape) \in {"netpoints", "shots"} -> q.relation = Relation(q.shape)
           [] OTHER              -> q.relation \in {"player", "everyone"}
      /\ ~q.team => q.shape[2] \in {"runs", "ranking"} \/ q.relation = "everyone"
      /\ q.relation = "player" => q.team
      /\ q.halves => "split" \in q.cells }

Nobody == [by |-> "nobody", says |-> {}]

PlanInit ==
  /\ asked \in Question
  /\ step = "plan"
  /\ shape = asked.shape
  /\ told = Nobody

Answer(who, says) == told' = [by |-> who, says |-> says] /\ step' = "done" /\ UNCHANGED << asked, shape >>
Ask(who, s)       == step' = who /\ shape' = s /\ UNCHANGED << asked, told >>
Decline           == Answer("nobody", {})

(* _plan and plan: the point's relation decides who is asked.  A season line  *)
(* its reader does not read (Reads, the reader's own test, left open) is      *)
(* planned again over the games, under the games' shape.                      *)
TeamSeasonPoint(s) == s \in { << "team_seasons", "scalar", "line" >>, << "team_seasons", "split", "season" >>,
                              << "team_seasons", "ranking", "team" >>, << "team_snapshots", "scalar", "projection" >> }

GameLevel ==
  \/ /\ shape = << "player_seasons", "split", "season" >>
     /\ Ask("reader", << "player_games", "split", "season" >>)
  \/ /\ shape = << "player_seasons", "ranking", "player" >>
     /\ asked.relation = "everyone" /\ "rate" \notin asked.cells
     /\ Ask("reader", << "player_games", "ranking", "player" >>)
  \/ Decline

PlanTeam ==
  /\ asked.relation = "team"
  /\ \/ CheckRelationScoping(Taken(shape)) /\ Ask(IF IsSeasons(shape) THEN "season_first" ELSE "reader", shape)
     \/ /\ ~CheckRelationScoping(Taken(shape))
        /\ IF TeamSeasonPoint(shape) /\ CellsUnhonored(shape) = {} THEN Ask("reader", shape) ELSE Decline

PlanPlayer ==
  /\ asked.relation \in {"player", "everyone"}
  /\ \/ ~CheckRelationScoping(Taken(shape)) /\ Decline
     \/ /\ CheckRelationScoping(Taken(shape))
        /\ \/ Relation(shape) # "player_seasons" /\ Ask("reader", shape)
           \/ Relation(shape) = "player_seasons" /\ CellsUnhonored(shape) = {} /\ Ask("reader", shape)
           \/ Relation(shape) = "player_seasons" /\ GameLevel

PlanPoint ==
  /\ step = "plan"
  /\ \/ CellsDeclined(shape) /\ Decline
     \/ /\ ~CellsDeclined(shape)
        /\ \/ asked.relation \notin {"team", "player", "everyone"} /\ Ask("reader", shape)
           \/ PlanTeam
           \/ PlanPlayer

---------------------------------------------------------------------------
(* The readers (_ROUTES).  "Only" readers are their point's only answer.      *)
Only == { << "player_periods", "ranking", "player" >>, << "player_games", "ranking", "player" >>,
          << "team_games", "comparison", "opponent" >>, << "team_periods", "scalar", "total" >>,
          << "team_games", "scalar", "record" >>, << "team_games", "rows", "measure" >> }
        \union {s \in DOMAIN Rows : IsSeasons(s) \/ Relation(s) \in {"netpoints", "shots"}}

Routed(s) == s \in DOMAIN Rows

ReaderReads(s) ==
  IF s = << "team_games", "runs", "won" >>
  THEN TeamRunReads                               \* read_team_streak runs the compiler's statement
  ELSE CellsStated(s) \union (IF RowOf(s).sides THEN {} ELSE {Halves})

Read ==
  /\ step = "reader"
  /\ \/ /\ Routed(shape) /\ CellsUnhonored(shape) = {}
        /\ Answer("reader", ReaderReads(shape))
     \/ shape \notin Only /\ Ask("compiler", shape)   \* no route, not its words, or aside
     \/ Routed(shape) /\ Decline                       \* refused, or declined as the only one

\* A team's own season, before the team compiler's sum.
ReadSeasonFirst ==
  /\ step = "season_first"
  /\ \/ CellsUnhonored(shape) = {} /\ Answer("season_reader", ReaderReads(shape))
     \/ Ask("compiler", shape)
     \/ CellsUnhonored(shape) = {} /\ Decline          \* its refusal is said

RunTeam ==
  /\ step = "compiler" /\ IsTeams(shape)
  /\ \/ shape[2] = "runs" /\ Answer("team_compiler", TeamRunReads)
     \/ /\ IsSeasons(shape) \/ shape = TeamSum
        /\ \E fromGames \in BOOLEAN :                   \* points allowed, an opponent's figure
              /\ ~((TeamNarrowed \/ fromGames) /\ TeamMixed /\ "period" \in asked.cells)
              /\ Answer("team_compiler", TeamSumReads(fromGames))
     \/ Decline

\* What the statement narrows by: a player's games, or the league's.
CompilerReads ==
  {Halves} \union
  (IF asked.relation = "everyone"
   THEN {"career", "range", "ranked_by", "opponent", "venue", "situation", "season_n", "round", "period"} \union OwnLine
   ELSE PlayerRelation)

Run ==
  /\ step = "compiler" /\ ~IsTeams(shape)
  /\ \/ /\ Relation(shape) # "player_seasons"     \* the season line is never compiled
        /\ CheckRelationScoping({})               \* nothing taken
        /\ asked.halves => shape = << "player_games", "split", "splits" >>
        /\ Answer("compiler", CompilerReads)
     \/ Decline

\* The question is answered, or left to the next thing tried.
PlanOver == step = "done" /\ UNCHANGED planVars

PlanNext == PlanPoint \/ Read \/ ReadSeasonFirst \/ RunTeam \/ Run \/ PlanOver

PlanSpec == PlanInit /\ [][PlanNext]_planVars

---------------------------------------------------------------------------
Asked   == asked.cells \union (IF asked.halves THEN {Halves} ELSE {})
Dropped == IF told.by = "nobody" THEN {} ELSE Asked \ told.says

(* compose/core.py:515-518: a cell that does not narrow is "refused, never    *)
(* dropped": whoever answers says every cell the question sets.               *)
NothingIsDropped == Dropped = {}

(* What the two allow lists and the rows do hold to: no shape's reader and    *)
(* not the player compiler, whatever was planned again, let through as taken  *)
(* or stepped aside from, leaves a cell unsaid; only the team compiler's own  *)
(* statements do, and of these cells alone (a named opponent, day, venue,     *)
(* stretch or quarter always narrows them).                                   *)
OnlyTheTeamCompilerDrops ==
  /\ Dropped \subseteq {"career", "both", "round", "situation", "rate"}
  /\ Dropped # {} => IsTeams(shape) /\ (told.by = "team_compiler" \/ shape[2] = "runs")
=============================================================================
