------------------------------ MODULE RealGames ------------------------------
(* The rows of games that are games, and the sides they were played on.      *)
(* Every load, of all the tables or of some, ends in game_repair.repair,     *)
(* which puts back the teams ESPN serves on the wrong sides, and in          *)
(* real_games.build_table, which leaves out what is no game, keeps one row   *)
(* of a game listed twice, and places each game in the postseason's bracket. *)
(* They read whatever the warehouse holds by then: tables of this load and   *)
(* of earlier ones, a pull having written games and box scores in between.   *)
EXTENDS Integers, FiniteSets, FiniteSetsExt

CONSTANTS
    GameRows,   \* what ESPN may list: records of an event (its id), the day, the
                \* pair of teams, the time (a tip, or a date only), whether it
                \* has a winner, and the game it is a row of (NoGame: of none)
    Games,      \* the games of one postseason, each with its pair and round
    RoundOf,    \* the round a pair of teams met in
    KnownTeams, \* teams: the current franchises
    NoGame,
    Unboxed,    \* games ESPN has no box score of, at most, in a season that has
    Late        \* rows not on disk at first, at most: a bound

ASSUME RowsAssumption ==
    \A row \in GameRows : /\ row.event \in Nat /\ row.day \in Nat
                      /\ Cardinality(row.pair) = 2
                      /\ row.time \in {"tip", "date"} /\ row.won \in BOOLEAN
                      /\ row.game \in Games \cup {NoGame}

\* ESPN gives a row an id of its own; two teams meet once a day; a game was
\* won, by one of two teams there are; and what is no game wants one of them,
\* or a tip.
ASSUME ListingAssumption ==
    \A row, other \in GameRows :
        /\ row.event = other.event => row = other
        /\ row.game # NoGame /\ other.game # NoGame =>
              (row.game = other.game <=> row.day = other.day /\ row.pair = other.pair)
        /\ row.game # NoGame => row.won /\ row.pair \subseteq KnownTeams
        /\ row.game = NoGame => ~row.won \/ ~(row.pair \subseteq KnownTeams) \/ row.time = "date"

\* The bracket: a team has met one opponent in each round up to its last, and
\* played a round out before the next began.
ASSUME BracketAssumption ==
    /\ IsFiniteSet(DOMAIN RoundOf)
    /\ \A pair \in DOMAIN RoundOf :
          /\ \E a, b \in KnownTeams : a # b /\ pair = {a, b}
          /\ RoundOf[pair] \in Nat \ {0}
          /\ \A team \in pair : \A k \in 1..RoundOf[pair] :
                \E other \in DOMAIN RoundOf : team \in other /\ RoundOf[other] = k
    /\ \A pair, other \in DOMAIN RoundOf :
          pair \cap other # {} /\ RoundOf[pair] = RoundOf[other] => pair = other
    /\ \A row \in GameRows : row.game # NoGame => row.pair \in DOMAIN RoundOf
    /\ \A row, other \in GameRows :
          /\ row.game # NoGame /\ other.game # NoGame /\ row.pair \cap other.pair # {}
          /\ RoundOf[row.pair] < RoundOf[other.pair]
          => row.day < other.day

VARIABLES
    listing,    \* the rows ESPN lists
    scored,     \* the events it has a box score of
    listed,     \* rows of games on disk
    boxed,      \* events with player_box_stats on disk
    swapped,    \* whether ESPN still serves the hand-listed game the wrong way round
    inGames,    \* rows of games in the warehouse, or NoGame before a load of it
    inBoxes,    \* events of player_box_stats there, or NoGame
    gamesSide,  \* who is at home in the hand-listed game: in games ...
    boxSide,    \* ... and in team_box_stats
    real        \* real_games, or NoGame

espnVars == <<listing, scored, swapped>>
diskVars == <<listed, boxed>>
gamesVars == <<espnVars, diskVars, inGames, inBoxes, gamesSide, boxSide, real>>

-----------------------------------------------------------------------------
(* real_games_sql over rows and the events with a box score, where any are   *)
(* loaded.                                                                   *)

\* A game, by ESPN's own row: a winner, and two teams there are.
Listed(rows) == {row \in rows : row.won /\ row.pair \subseteq KnownTeams}

\* A date without a tip, no box score, and a season with box scores.
Phantom(row, boxes) == row.time = "date" /\ row.event \notin boxes /\ boxes # {}

Before(x, y, boxes) ==
    LET rank(row) == <<IF row.event \in boxes THEN 0 ELSE 1, row.event>>
    IN  \/ rank(x)[1] < rank(y)[1]
        \/ rank(x)[1] = rank(y)[1] /\ rank(x)[2] < rank(y)[2]

\* A plausible slip: the lowest event id first.
KeptById(rows, boxes) ==
    LET candidates == {row \in Listed(rows) : ~Phantom(row, boxes)}
    IN  {row \in candidates :
            \A other \in candidates :
                other.day = row.day /\ other.pair = row.pair => row.event <= other.event}

\* One row of two teams' games of a day: the one with a box score, then by id
\* (stamps of a day are left out, and ordered as the ids are).
Kept(rows, boxes) ==
    LET candidates == {row \in Listed(rows) : ~Phantom(row, boxes)}
    IN  {row \in candidates :
            \A other \in candidates \ {row} :
                other.day = row.day /\ other.pair = row.pair => Before(row, other, boxes)}

\* The series of a postseason, as pairs of teams, and when each opened.
Series(kept) == {row.pair : row \in kept}
Opened(kept, pair) == Min({row.day : row \in {k \in kept : k.pair = pair}})

\* row_number() over a team's series, by when they opened.
Place(kept, pair, team) ==
    Cardinality({other \in Series(kept) : team \in other /\ Opened(kept, other) <= Opened(kept, pair)})

\* A plausible slip: the earlier of the two places, without asking that they agree.
PlayoffRoundOfEither(kept, pair) == Min({Place(kept, pair, team) : team \in pair})

\* The place a series has among each side's series, or 0 (NULL) where the two
\* sides do not agree on it.
PlayoffRound(kept, pair) ==
    LET places == {Place(kept, pair, team) : team \in pair}
    IN  IF Cardinality(places) = 1 THEN CHOOSE p \in places : TRUE ELSE 0

\* series_game, where ESPN gives no number: the place by date in the series.
SeriesGame(kept, row) ==
    Cardinality({other \in kept : other.pair = row.pair /\ other.day <= row.day})

RealGamesOf(rows, boxes) ==
    LET kept == Kept(rows, boxes)
    IN  {[row |-> row, round |-> PlayoffRound(kept, row.pair), number |-> SeriesGame(kept, row)]
            : row \in kept}

\* build_table: without games there is nothing to build; without
\* player_box_stats no row is known to be without its box score.
BuildRealGames(rows, boxes) ==
    IF rows = NoGame THEN NoGame
    ELSE RealGamesOf(rows, IF boxes = NoGame THEN {} ELSE boxes)

-----------------------------------------------------------------------------
(* game_repair.repair: the teams of a hand-listed game change sides where    *)
(* the row still holds them as ESPN serves them ("served"; "real" as         *)
(* played).                                                                  *)

\* A plausible slip: swapped because the event is on the list.
SwapSides(side) == CASE side = "served" -> "real" [] side = "real" -> "served" [] OTHER -> side

RepairSides(side) == IF side = "served" THEN "real" ELSE side

-----------------------------------------------------------------------------
(* Loads: each table named is replaced by what is on disk, and the repairs   *)
(* run over all of them.                                                     *)

OnDisk == IF swapped THEN "served" ELSE "real"

Load(tables) ==
    /\ inGames' = IF "games" \in tables THEN listed ELSE inGames
    /\ inBoxes' = IF "player_box_stats" \in tables THEN boxed ELSE inBoxes
    /\ gamesSide' = RepairSides(IF "games" \in tables THEN OnDisk ELSE gamesSide)
    /\ boxSide' = RepairSides(IF "team_box_stats" \in tables THEN OnDisk ELSE boxSide)
    /\ real' = BuildRealGames(inGames', inBoxes')
    /\ UNCHANGED <<espnVars, diskVars>>

LoadAll == Load({"games", "player_box_stats", "team_box_stats"})
LoadOne == \E t \in {"games", "player_box_stats", "team_box_stats"} : Load({t})

\* ESPN serves the hand-listed game right, and it is fetched again.
EspnCorrects ==
    /\ swapped
    /\ swapped' = FALSE
    /\ UNCHANGED <<listing, scored, diskVars, inGames, inBoxes, gamesSide, boxSide, real>>

\* fetch_game writes the row of games, then the players' lines where ESPN has
\* them; a load may read what is on disk before, between and after.
WriteGame(row) ==
    /\ row \in listing \ listed
    /\ listed' = listed \cup {row}
    /\ UNCHANGED <<espnVars, boxed, inGames, inBoxes, gamesSide, boxSide, real>>

WriteBox(row) ==
    /\ row \in listed /\ row.event \in scored \ boxed
    /\ boxed' = boxed \cup {row.event}
    /\ UNCHANGED <<espnVars, listed, inGames, inBoxes, gamesSide, boxSide, real>>

PullGames == \E row \in GameRows : WriteGame(row) \/ WriteBox(row)

-----------------------------------------------------------------------------
(* What ESPN lists (DATA.md): of a season without box scores the games       *)
(* alone; of one with them, rows that are no game among them, and box        *)
(* scores under one id of a game listed twice. A game with a date only has   *)
(* its box score.                                                            *)

GameRowsOf(game, rows) == {row \in rows : row.game = game}
GamesIn(rows) == {row.game : row \in rows} \ {NoGame}

GamesInit ==
    /\ listing \in SUBSET GameRows
    /\ \/ /\ scored = {}
          /\ \A row \in listing : row.game # NoGame \/ ~row.won
       \/ /\ scored \in SUBSET {row.event : row \in listing}
          /\ scored # {}
          /\ \A row \in listing :
                /\ row.game = NoGame => row.event \notin scored
                /\ row.game # NoGame /\ row.time = "date" => row.event \in scored
          /\ \A g \in GamesIn(listing) : Cardinality({row \in GameRowsOf(g, listing) : row.event \in scored}) <= 1
          /\ Cardinality({g \in GamesIn(listing) : \A row \in GameRowsOf(g, listing) : row.event \notin scored}) <= Unboxed
    /\ listed \in SUBSET listing /\ Cardinality(listing \ listed) <= Late
    /\ boxed = {row.event : row \in listed} \cap scored
    /\ swapped \in BOOLEAN
    /\ inGames = NoGame /\ inBoxes = NoGame /\ real = NoGame
    /\ gamesSide = "none" /\ boxSide = "none"

GamesNext == PullGames \/ LoadAll \/ LoadOne \/ EspnCorrects

GamesSpec == GamesInit /\ [][GamesNext]_gamesVars

-----------------------------------------------------------------------------
BothLoaded == inGames # NoGame /\ inBoxes # NoGame

\* A row that is no game is known by other games' box scores: some are loaded,
\* or the season has none.
Judged == inBoxes # {} \/ scored = {}

(* Four rules leave rows out, in an order that matters, and judge the games  *)
(* of one load by the box scores of another, older or newer: a game that is  *)
(* loaded is there once and no more, under the id its box score has, and     *)
(* nothing is there that is no game. Only a game with a date and no tip may  *)
(* be missing, and only until the box score that tells it from a phantom is  *)
(* loaded too: once all is, real_games is the games ESPN lists.              *)
EachGameOnce ==
    BothLoaded /\ Judged =>
        /\ \A r \in real : r.row.game # NoGame
        /\ \A r, q \in real : r.row.game = q.row.game => r = q
        /\ \A row \in inGames : row.game # NoGame =>
              \/ \E r \in real : /\ r.row.game = row.game
                                 /\ row.event \in inBoxes => r.row.event \in inBoxes
              \/ row.time = "date" /\ row.event \notin inBoxes
        /\ inGames = listing /\ inBoxes = scored => {r.row.game : r \in real} = GamesIn(listing)

(* The bracket is read off the order in which each team's series opened;     *)
(* ESPN lost games of whole rounds, and a load may be short of others: with  *)
(* no more than one series missing, a series is given the round it was       *)
(* played in, or none.                                                       *)
RoundIsTrueOrUnsaid ==
    BothLoaded /\ Judged /\ Cardinality({pair \in DOMAIN RoundOf : \A r \in real : r.row.pair # pair}) <= 1 =>
        \A r \in real : r.round \in {0, RoundOf[r.row.pair]}

(* The repair runs on every load, over tables this load replaced and tables  *)
(* an earlier one repaired, before ESPN corrects the game and after: games   *)
(* and team_box_stats, wherever loaded, never have the teams the wrong way   *)
(* round, nor differ.                                                        *)
SidesAreReal == gamesSide \in {"none", "real"} /\ boxSide \in {"none", "real"}
=============================================================================
