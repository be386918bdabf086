-------------------------------- MODULE Pull --------------------------------
(***************************************************************************)
(* `association data pull`: association.fetch.pipeline.Pipeline.run over    *)
(* the Parquet tree.  A pull walks seasons and season types; per scope it   *)
(* reads the schedules, fetches every game with a pool of workers, then     *)
(* re-reads the league's aggregates and marks the scope complete.  The      *)
(* only durable state is the tree: a file's existence is the checkpoint of  *)
(* the work that wrote it.  A pull may be killed, or raise, at every step;  *)
(* what it kept in memory is then lost.  ESPN moves on by itself.           *)
(*                                                                         *)
(* The content of a file that changes during a season is abstracted to the  *)
(* set of games that were final when ESPN answered.                         *)
(***************************************************************************)
EXTENDS Naturals, FiniteSets, Sequences

CONSTANTS
  Season,        \* seasons, by ESPN's number: the year one ends in
  SeasonType,    \* season types a pull may ask for, a subset of 1..3
  Event,         \* ESPN event ids
  Team,
  Athlete,
  Worker,        \* the pool's threads (--workers)
  None,          \* no file
  Idle,          \* a worker in no game
  ScopeOf,       \* [Event -> Season \X SeasonType]
  TeamsOf,       \* [Event -> SUBSET Team]: the two schedules that list it
  AthletesOf,    \* [Event -> SUBSET Athlete]: who its box score names
  RowsOf,        \* [Event -> SUBSET tables]: the tables its summary has rows for
  DayOf,         \* [Event -> Nat]: the day it is played
  Unscheduled,   \* postseason games no team schedule lists, only the scoreboard
  ScanDays,      \* POSTSEASON_SCAN_DAYS
  SeasonTables,  \* one-file-per-season tables read before the games
  MaxLost,       \* requests of one discovery pass that may be answered with nothing
  LastSeason,    \* the bound on the calendar
  Flags          \* the [force, pbp] choices of an operator

Postseason == 3
Scope == Season \X SeasonType

\* fetch_game's writes, in its order; the last three need --include-pbp
GameTables == << "games", "player_box_stats", "team_box_stats",
                 "plays", "shot_chart", "win_probability" >>
GameTable == {GameTables[i] : i \in 1..6}
BoxTables == {GameTables[i] : i \in 1..3}
Fingerprint == "net_points_player_fingerprint"

ASSUME SeasonAssumption == Season \subseteq Nat /\ SeasonType \subseteq 1..3
ASSUME EventAssumption ==
  /\ IsFiniteSet(Event)
  /\ ScopeOf \in [Event -> Scope]
  /\ TeamsOf \in [Event -> SUBSET Team]
  /\ \A e \in Event : \E t, u \in TeamsOf[e] : t # u
  /\ AthletesOf \in [Event -> SUBSET Athlete]
  /\ RowsOf \in [Event -> SUBSET GameTable]
  /\ \A e \in Event : "games" \in RowsOf[e]
  /\ DayOf \in [Event -> Nat]
  /\ Unscheduled \subseteq Event
ASSUME SettingAssumption ==
  /\ IsFiniteSet(Team) /\ IsFiniteSet(Worker)
  /\ ScanDays \in Nat /\ MaxLost \in Nat /\ LastSeason \in Nat
  /\ Flags \subseteq [force : BOOLEAN, pbp : BOOLEAN]
  /\ \A S \in SUBSET Event : S # None
  /\ \A e \in Event, i \in 1..7, B \in SUBSET Athlete : [event |-> e, step |-> i, bios |-> B] # Idle

VARIABLES
  espn,         \* [Event -> {"unlisted", "pre", "final", "void"}]
  current,      \* current_season(), by the calendar
  \* the Parquet tree
  teamsFile,    \* teams/teams.parquet
  tree,         \* per-game files: a set of <<table, event>>
  resolved,     \* _resolved/*.marker
  complete,     \* _complete/*.marker
  players,      \* players/*.parquet
  teamStats,    \* [Scope \X Team -> file]
  careers,      \* [Athlete \X SeasonType -> file]: one file per whole career
  seasonFiles,  \* [table \X Season -> file]
  \* the running pull
  pc,
  flags, types, \* what the operator asked for: --force, --include-pbp, --season-types
  seasonsLeft, season, typesLeft, type,
  ids,          \* event_ids of the scope
  todo,         \* items of the current _map no worker has taken
  job,          \* [Worker -> Idle or the fetch_game it is in]
  done,         \* season_complete
  failed,       \* a worker raised
  written,      \* self.written
  \* history
  cut,          \* games a kill, or a write that raised, left half written
  missed,       \* an aggregate request of this scope was answered with nothing
  known,        \* [Scope -> the games listed when some pull read the schedules and scoreboard]
  promised      \* [Scope -> the games its completion marker vouches for]

disk == << teamsFile, tree, resolved, complete, players, teamStats, careers,
           seasonFiles >>
plan == << flags, types, seasonsLeft, season, typesLeft, type >>
history == << cut, missed, known, promised >>
vars == << espn, current, disk, pc, plan, ids, todo, job, done, failed, written, history >>

-----------------------------------------------------------------------------
scope == << season, type >>
In(s) == {e \in Event : ScopeOf[e] = s}
Stored == {e \in Event : << "games", e >> \in tree}
Final == {e \in Event : espn[e] = "final"}
Listed(s) == {e \in In(s) : espn[e] # "unlisted"}
Scheduled(s) == Listed(s) \ Unscheduled
Checkpointed(s) == In(s) \cap (Stored \cup resolved)
AllIdle == \A w \in Worker : job[w] = Idle
PhaseOver == todo = {} /\ AllIdle /\ ~failed
\* _map: when an item raised, a pool runs on until the main thread sees it; a
\* serial loop stops at once
MapGoesOn == ~failed \/ Cardinality(Worker) > 1
LastStep == IF flags.pbp THEN 6 ELSE 3

\* every way at most MaxLost of the requests in S can be answered with nothing
Losses(S) == {L \in SUBSET S : Cardinality(L) <= MaxLost}

\* mutant of Kept: a scope still in progress is frozen after its first pull
KeptForever(file, refresh) == file # None /\ ~flags.force

\* a file that is kept: there, not forced, and nothing says to refresh it
Kept(file, refresh) == file # None /\ ~flags.force /\ ~refresh

TypeOK ==
  /\ espn \in [Event -> {"unlisted", "pre", "final", "void"}]
  /\ current \in Nat
  /\ teamsFile \in BOOLEAN
  /\ tree \subseteq GameTable \X Event
  /\ resolved \subseteq Event
  /\ complete \subseteq Scope
  /\ players \subseteq Athlete
  /\ teamStats \in [Scope \X Team -> {None} \cup SUBSET Event]
  /\ careers \in [Athlete \X SeasonType -> {None} \cup SUBSET Event]
  /\ seasonFiles \in [(SeasonTables \cup {Fingerprint}) \X Season -> {None} \cup SUBSET Event]
  /\ pc \in {"idle", "teams", "season", "tables", "type", "games", "extra",
             "teamStats", "careers", "done"}
  /\ flags \in [force : BOOLEAN, pbp : BOOLEAN]
  /\ seasonsLeft \subseteq Season /\ types \subseteq SeasonType /\ typesLeft \subseteq types
  /\ season \in Season \cup {0} /\ type \in SeasonType \cup {0}
  /\ ids \subseteq Event
  /\ todo \subseteq Event \cup Team \cup Athlete \cup SeasonTables
  /\ job \in [Worker -> {Idle} \cup [event : Event, step : 1..7, bios : SUBSET Athlete]]
  /\ done \in BOOLEAN /\ failed \in BOOLEAN
  /\ cut \subseteq Event /\ missed \in BOOLEAN
  /\ known \in [Scope -> SUBSET Event]
  /\ promised \in [Scope -> SUBSET Event]

-----------------------------------------------------------------------------

NoFlags == [force |-> FALSE, pbp |-> FALSE]

Init ==
  /\ espn = [e \in Event |-> "unlisted"]
  /\ current \in Season
  /\ teamsFile = FALSE /\ tree = {} /\ resolved = {} /\ complete = {} /\ players = {}
  /\ teamStats = [k \in Scope \X Team |-> None]
  /\ careers = [k \in Athlete \X SeasonType |-> None]
  /\ seasonFiles = [k \in (SeasonTables \cup {Fingerprint}) \X Season |-> None]
  /\ pc = "idle" /\ flags = NoFlags
  /\ types = {} /\ seasonsLeft = {} /\ season = 0 /\ typesLeft = {} /\ type = 0
  /\ ids = {} /\ todo = {} /\ job = [w \in Worker |-> Idle]
  /\ done = FALSE /\ failed = FALSE
  /\ written = {}
  /\ missed = FALSE /\ cut = {}
  /\ known = [s \in Scope |-> {}] /\ promised = [s \in Scope |-> {}]

\* the process is gone, and with it whatever it had in memory
ProcessEnds ==
  /\ pc' = "idle" /\ flags' = NoFlags
  /\ types' = {} /\ seasonsLeft' = {} /\ season' = 0 /\ typesLeft' = {} /\ type' = 0
  /\ ids' = {} /\ todo' = {} /\ job' = [w \in Worker |-> Idle]
  /\ done' = FALSE /\ failed' = FALSE
  /\ written' = {}
  /\ missed' = FALSE

-----------------------------------------------------------------------------
(* ESPN *)

\* A game is put on the schedule; it ends played, or it is settled unplayed
\* (postponed, cancelled, forfeited: state "post" and not completed).  What
\* is settled stays settled: fetch_game relies on it.
EspnMoves(e, to) ==
  /\ \/ espn[e] = "unlisted" /\ to = "pre"
     \/ espn[e] = "pre" /\ to \in {"final", "void"}
  /\ espn' = [espn EXCEPT ![e] = to]
  /\ UNCHANGED << current, disk, pc, plan, ids, todo, job, done, failed, written, history >>

\* the first of October
Rollover ==
  /\ current < LastSeason
  /\ current' = current + 1
  /\ UNCHANGED << espn, disk, pc, plan, ids, todo, job, done, failed, written, history >>

-----------------------------------------------------------------------------
(* The pull: run, fetch_teams, the season tables *)

Start(f, S, T) ==
  /\ pc = "idle"
  /\ pc' = "teams" /\ flags' = f /\ seasonsLeft' = S /\ types' = T
  /\ UNCHANGED << espn, current, disk, season, typesLeft, type, ids, todo, job, done, failed,
                  written, history >>

\* fetch_teams and team_ids: with no team list at all the pull gives up
FetchTeams(answered) ==
  /\ pc = "teams"
  /\ LET fetched == answered /\ (~teamsFile \/ flags.force) IN
     /\ teamsFile' = (teamsFile \/ fetched)
     /\ written' = IF fetched THEN written \cup {"teams"} ELSE written
     /\ pc' = IF teamsFile' THEN "season" ELSE "done"
  /\ UNCHANGED << espn, current, tree, resolved, complete, players, teamStats, careers,
                  seasonFiles, plan, ids, todo, job, done, failed, history >>

\* mutant of NextSeason: seasons taken for the year they begin in
NextSeasonByFirstYear(s) ==
  /\ pc = "season" /\ s \in seasonsLeft
  /\ seasonsLeft' = seasonsLeft \ {s} /\ season' = s + 1
  /\ typesLeft' = types /\ todo' = SeasonTables /\ pc' = "tables"
  /\ UNCHANGED << espn, current, disk, flags, types, type, ids, job, done, failed,
                  written, history >>

\* the next season asked for, or the end of the loop
NextSeason(s) ==
  /\ pc = "season" /\ s \in seasonsLeft
  /\ seasonsLeft' = seasonsLeft \ {s} /\ season' = s
  /\ typesLeft' = types /\ todo' = SeasonTables /\ pc' = "tables"
  /\ UNCHANGED << espn, current, disk, flags, types, type, ids, job, done, failed,
                  written, history >>

\* mutant of ReadSeasonTable: a season is over one year too late
ReadSeasonTableAgain(table, answered) ==
  LET kept == Kept(seasonFiles[<< table, season >>], season >= current - 1)
      fetched == answered /\ ~kept
  IN
  /\ seasonFiles' = IF fetched THEN [seasonFiles EXCEPT ![<< table, season >>] = Final]
                    ELSE seasonFiles
  /\ written' = IF fetched THEN written \cup {table} ELSE written

\* fetch_standings, fetch_team_alignment, fetch_power_index and, once the
\* season's games are in, fetch_net_points_fingerprint: a past season's file
\* is kept, the current one's is read again; an empty answer writes nothing
ReadSeasonTable(table, answered) ==
  LET kept == Kept(seasonFiles[<< table, season >>], season >= current)
      fetched == answered /\ ~kept
  IN
  /\ seasonFiles' = IF fetched THEN [seasonFiles EXCEPT ![<< table, season >>] = Final]
                    ELSE seasonFiles
  /\ written' = IF fetched THEN written \cup {table} ELSE written

FetchSeasonTable(table, answered) ==
  /\ pc = "tables" /\ table \in todo
  /\ ReadSeasonTable(table, answered)
  /\ todo' = todo \ {table}
  /\ UNCHANGED << espn, current, teamsFile, tree, resolved, complete, players, teamStats,
                  careers, pc, plan, ids, job, done, failed, history >>

TablesOver ==
  /\ pc = "tables" /\ PhaseOver
  /\ pc' = "type"
  /\ UNCHANGED << espn, current, disk, plan, ids, todo, job, done, failed, written, history >>

-----------------------------------------------------------------------------
(* _run_season_type: discovery *)

\* a marked scope is skipped by one stat() call
SkipScope(t) ==
  /\ pc = "type" /\ t \in typesLeft
  /\ << season, t >> \in complete /\ ~flags.force
  /\ typesLeft' = typesLeft \ {t}
  /\ UNCHANGED << espn, current, disk, pc, flags, types, seasonsLeft, season, type, ids, todo,
                  job, done, failed, written, history >>

\* event_ids_for: the union of every team's schedule; a game is on two of them
EventIdsFor(t, lost) ==
  /\ pc = "type" /\ t \in typesLeft
  /\ << season, t >> \notin complete \/ flags.force
  /\ lost \in Losses(Team)
  /\ typesLeft' = typesLeft \ {t} /\ type' = t
  /\ ids' = {e \in Scheduled(<< season, t >>) : TeamsOf[e] \ lost # {}}
  /\ known' = [known EXCEPT ![<< season, t >>] = @ \cup Scheduled(<< season, t >>)]
  /\ todo' = ids' /\ pc' = "games"
  /\ UNCHANGED << espn, current, disk, flags, types, seasonsLeft, season, job, done, failed,
                  written, cut, missed, promised >>

\* _scoreboard_event_ids: a postseason is scanned past its last stored game
LastStoredDay == CHOOSE d \in {DayOf[e] : e \in Stored \cap In(scope)} :
                   \A e \in Stored \cap In(scope) : DayOf[e] <= d

ScannedDays == IF Stored \cap In(scope) = {} THEN {}
               ELSE LastStoredDay + 1 .. LastStoredDay + ScanDays

ScoreboardEventIds(lost) ==
  /\ pc = "games" /\ PhaseOver /\ type = Postseason
  /\ lost \in Losses({DayOf[e] : e \in Listed(scope)} \cap ScannedDays)
  /\ LET found == {e \in Listed(scope) \ ids : DayOf[e] \in ScannedDays \ lost} IN
     /\ todo' = found /\ ids' = ids \cup found
     /\ known' = [known EXCEPT ![scope] = @ \cup found]
  /\ pc' = "extra"
  /\ UNCHANGED << espn, current, disk, plan, job, done, failed, written, cut, missed, promised >>

-----------------------------------------------------------------------------
(* fetch_game, in a worker *)

Taking(w, e) ==
  /\ pc \in {"games", "extra"} /\ job[w] = Idle /\ e \in todo /\ MapGoesOn
  /\ todo' = todo \ {e}

Skip(e) == e \in Stored \cup resolved /\ ~flags.force

SkipGame(w, e) ==
  /\ Taking(w, e) /\ Skip(e)
  /\ UNCHANGED << espn, current, disk, pc, plan, ids, job, done, failed, written, history >>

\* a final game: what it yields is written table by table by the steps below
FetchFinal(w, e) ==
  /\ Taking(w, e) /\ ~Skip(e) /\ espn[e] = "final"
  /\ job' = [job EXCEPT ![w] = [event |-> e, step |-> 1, bios |-> AthletesOf[e]]]
  /\ UNCHANGED << espn, current, disk, pc, plan, ids, done, failed, written, history >>

\* mutant of FetchVoid: any game not completed is taken for settled
FetchUnplayed(w, e) ==
  /\ Taking(w, e) /\ ~Skip(e) /\ espn[e] # "final"
  /\ resolved' = resolved \cup {e}
  /\ UNCHANGED << espn, current, teamsFile, tree, complete, players, teamStats, careers,
                  seasonFiles, pc, plan, ids, job, done, failed, written, history >>

\* settled without being played: only the marker is written
FetchVoid(w, e) ==
  /\ Taking(w, e) /\ ~Skip(e) /\ espn[e] = "void"
  /\ resolved' = resolved \cup {e}
  /\ UNCHANGED << espn, current, teamsFile, tree, complete, players, teamStats, careers,
                  seasonFiles, pc, plan, ids, job, done, failed, written, history >>

\* not over yet, or the answer was missing or malformed: no checkpoint
FetchNothing(w, e) ==
  /\ Taking(w, e) /\ ~Skip(e)
  /\ UNCHANGED << espn, current, disk, pc, plan, ids, job, done, failed, written, history >>

\* the client gave up on it and raised, or writing the marker did
FetchRaises(w, e) ==
  /\ Taking(w, e) /\ ~Skip(e)
  /\ failed' = TRUE
  /\ UNCHANGED << espn, current, disk, pc, plan, ids, job, done, written, history >>

\* an empty list writes no file
WriteTable(w) ==
  /\ job[w] # Idle /\ job[w].step <= LastStep
  /\ LET e == job[w].event
         table == GameTables[job[w].step]
         last == job[w].step = LastStep
     IN
     /\ tree' = IF table \in RowsOf[e] THEN tree \cup {<< table, e >>} ELSE tree
     /\ written' = IF table \in RowsOf[e] THEN written \cup {table} ELSE written
     /\ job' = [job EXCEPT ![w] = IF last /\ job[w].bios = {} THEN Idle
                                  ELSE [job[w] EXCEPT !.step = @ + 1]]
  /\ UNCHANGED << espn, current, teamsFile, resolved, complete, players, teamStats, careers,
                  seasonFiles, pc, plan, ids, todo, done, failed, history >>

\* _cache_player_bio
CacheBio(w, a) ==
  /\ job[w] # Idle /\ job[w].step > LastStep /\ a \in job[w].bios
  /\ players' = players \cup {a}
  /\ written' = IF a \in players THEN written ELSE written \cup {"players"}
  /\ job' = [job EXCEPT ![w] = IF job[w].bios = {a} THEN Idle
                               ELSE [job[w] EXCEPT !.bios = @ \ {a}]]
  /\ UNCHANGED << espn, current, teamsFile, tree, resolved, complete, teamStats, careers,
                  seasonFiles, pc, plan, ids, todo, done, failed, history >>

\* what fetch_game has yet to write of its game: a table with rows, a new player
ToWrite(w) ==
  IF job[w].step <= LastStep THEN GameTables[job[w].step] \in RowsOf[job[w].event]
  ELSE ~(job[w].bios \subseteq players)

\* write_rows raises (the disk is full): the file is as it was, and the game is
\* left at the table its worker had come to
WriteRaises(w) ==
  /\ job[w] # Idle /\ ToWrite(w)
  /\ failed' = TRUE
  /\ job' = [job EXCEPT ![w] = Idle]
  /\ cut' = IF job[w].step \in 2..LastStep THEN cut \cup {job[w].event} ELSE cut
  /\ UNCHANGED << espn, current, disk, pc, plan, ids, todo, done, written, missed, known, promised >>

-----------------------------------------------------------------------------
(* _run_season_type: aggregates, completion; the end of run *)

\* _resolved_event_count: directory listings, whatever the names in them
ResolvedEventCount == Cardinality(Stored \cap In(scope)) + Cardinality(resolved \cap In(scope))

\* mutant of CloseGames: a scope with any game is complete
CloseGamesUncounted ==
  /\ PhaseOver
  /\ pc = IF type = Postseason THEN "extra" ELSE "games"
  /\ done' = (ids # {})
  /\ missed' = FALSE
  /\ todo' = Team /\ pc' = "teamStats"
  /\ UNCHANGED << espn, current, disk, plan, ids, job, failed, written, cut, known, promised >>

\* mutant of CloseGames: the scoreboard's games are not waited for
CloseGamesUnscanned ==
  /\ PhaseOver /\ pc = "games"
  /\ done' = (ids # {} /\ ResolvedEventCount >= Cardinality(ids))
  /\ missed' = FALSE
  /\ todo' = Team /\ pc' = "teamStats"
  /\ UNCHANGED << espn, current, disk, plan, ids, job, failed, written, cut, known, promised >>

CloseGames ==
  /\ PhaseOver
  /\ pc = IF type = Postseason THEN "extra" ELSE "games"
  /\ done' = (ids # {} /\ ResolvedEventCount >= Cardinality(ids))
  /\ missed' = FALSE
  /\ todo' = Team /\ pc' = "teamStats"
  /\ UNCHANGED << espn, current, disk, plan, ids, job, failed, written, cut, known, promised >>

\* mutant of FetchTeamStats: a write that does not go through _write_rows
FetchTeamStatsUnrecorded(t, answered) ==
  LET kept == type = 1 \/ Kept(teamStats[<< scope, t >>], ~done) IN
  /\ pc = "teamStats" /\ t \in todo /\ MapGoesOn
  /\ todo' = todo \ {t}
  /\ teamStats' = IF answered /\ ~kept
                  THEN [teamStats EXCEPT ![<< scope, t >>] =
                          {e \in Final \cap In(scope) : t \in TeamsOf[e]}]
                  ELSE teamStats
  /\ written' = written
  /\ missed' = (missed \/ (~answered /\ ~kept))
  /\ UNCHANGED << espn, current, teamsFile, tree, resolved, complete, players, careers,
                  seasonFiles, pc, plan, ids, job, done, failed, cut, known, promised >>

\* fetch_team_season_stats: ESPN has none for a preseason; an empty answer
\* writes nothing
FetchTeamStats(t, answered) ==
  LET kept == type = 1 \/ Kept(teamStats[<< scope, t >>], ~done) IN
  /\ pc = "teamStats" /\ t \in todo /\ MapGoesOn
  /\ todo' = todo \ {t}
  /\ teamStats' = IF answered /\ ~kept
                  THEN [teamStats EXCEPT ![<< scope, t >>] =
                          {e \in Final \cap In(scope) : t \in TeamsOf[e]}]
                  ELSE teamStats
  /\ written' = IF answered /\ ~kept THEN written \cup {"team_season_stats"} ELSE written
  /\ missed' = (missed \/ (~answered /\ ~kept))
  /\ UNCHANGED << espn, current, teamsFile, tree, resolved, complete, players, careers,
                  seasonFiles, pc, plan, ids, job, done, failed, cut, known, promised >>

\* athlete_ids_for: whoever the stored box scores of the scope name
AthleteIdsFor(s) ==
  {a \in Athlete : \E e \in In(s) : << "player_box_stats", e >> \in tree /\ a \in AthletesOf[e]}

TeamStatsOver ==
  /\ pc = "teamStats" /\ PhaseOver
  /\ todo' = AthleteIdsFor(scope) /\ pc' = "careers"
  /\ UNCHANGED << espn, current, disk, plan, ids, job, done, failed, written, history >>

\* fetch_player_season_stats: a file holds a whole career of one season type
FetchCareer(a, answered) ==
  LET kept == Kept(careers[<< a, type >>], ~done) IN
  /\ pc = "careers" /\ a \in todo /\ MapGoesOn
  /\ todo' = todo \ {a}
  /\ careers' = IF answered /\ ~kept
                THEN [careers EXCEPT ![<< a, type >>] =
                        {e \in Final : a \in AthletesOf[e] /\ ScopeOf[e][2] = type}]
                ELSE careers
  /\ written' = IF answered /\ ~kept THEN written \cup {"player_season_stats"} ELSE written
  /\ missed' = (missed \/ (~answered /\ ~kept))
  /\ UNCHANGED << espn, current, teamsFile, tree, resolved, complete, players, teamStats,
                  seasonFiles, pc, plan, ids, job, done, failed, cut, known, promised >>

\* the request raised, or the write of what it answered
StatsRaise(x) ==
  /\ pc \in {"teamStats", "careers"} /\ x \in todo /\ MapGoesOn
  /\ todo' = todo \ {x} /\ failed' = TRUE
  /\ UNCHANGED << espn, current, disk, pc, plan, ids, job, done, written, history >>

\* mark_complete, only when every game counted was there
CloseScope ==
  /\ pc = "careers" /\ PhaseOver
  /\ pc' = "type"
  /\ complete' = IF done THEN complete \cup {scope} ELSE complete
  /\ promised' = IF done THEN [promised EXCEPT ![scope] = known[scope]] ELSE promised
  /\ UNCHANGED << espn, current, teamsFile, tree, resolved, players, teamStats, careers,
                  seasonFiles, plan, ids, todo, job, done, failed, written,
                  cut, missed, known >>

CloseSeason(answered) ==
  /\ pc = "type" /\ typesLeft = {}
  /\ ReadSeasonTable(Fingerprint, answered)
  /\ pc' = "season"
  /\ UNCHANGED << espn, current, teamsFile, tree, resolved, complete, players, teamStats,
                  careers, plan, ids, todo, job, done, failed, history >>

\* write_glossary: the run's entries are merged into the stored ones, and the
\* file is written only if that changed it (what it holds is abstracted)
WriteGlossary(changed) ==
  /\ pc = "season" /\ seasonsLeft = {}
  /\ written' = IF changed THEN written \cup {"stat_glossary"} ELSE written
  /\ pc' = "done"
  /\ UNCHANGED << espn, current, disk, plan, ids, todo, job, done, failed, history >>

-----------------------------------------------------------------------------
(* The end of the process *)

\* run returned: `data pull --fetch-only`
Exit ==
  /\ pc = "done"
  /\ ProcessEnds
  /\ UNCHANGED << espn, current, disk, cut, known, promised >>

\* mutant of Abort: the pool's running items are not waited for
AbortAtOnce ==
  /\ failed
  /\ ProcessEnds
  /\ UNCHANGED << espn, current, disk, cut, known, promised >>

\* the first failure aborts the pull, after the pool is torn down
Abort ==
  /\ failed /\ AllIdle
  /\ ProcessEnds
  /\ UNCHANGED << espn, current, disk, cut, known, promised >>

\* killed, or the main thread raised (then no worker was in a game)
Kill ==
  /\ pc # "idle"
  /\ cut' = cut \cup {job[w].event : w \in {v \in Worker :
                        job[v] # Idle /\ job[v].step \in 2..LastStep}}
  /\ ProcessEnds
  /\ UNCHANGED << espn, current, disk, known, promised >>

-----------------------------------------------------------------------------
Espn == Rollover \/ \E e \in Event : \E to \in {"pre", "final", "void"} : EspnMoves(e, to)

Launch == \E f \in Flags : \E S \in SUBSET Season, T \in SUBSET SeasonType :
            S # {} /\ T # {} /\ Start(f, S, T)

FetchGame(w) ==
  \/ \E e \in Event : \/ SkipGame(w, e) \/ FetchFinal(w, e) \/ FetchVoid(w, e)
                      \/ FetchNothing(w, e) \/ FetchRaises(w, e)
  \/ WriteTable(w) \/ WriteRaises(w)
  \/ \E a \in Athlete : CacheBio(w, a)

Working ==
  \/ \E b \in BOOLEAN : FetchTeams(b) \/ CloseSeason(b) \/ WriteGlossary(b)
  \/ \E s \in Season : NextSeason(s)
  \/ \E table \in SeasonTables, b \in BOOLEAN : FetchSeasonTable(table, b)
  \/ TablesOver
  \/ \E t \in SeasonType : SkipScope(t) \/ \E lost \in Losses(Team) : EventIdsFor(t, lost)
  \/ \E lost \in Losses({DayOf[e] : e \in Event}) : ScoreboardEventIds(lost)
  \/ \E w \in Worker : FetchGame(w)
  \/ CloseGames
  \/ \E t \in Team, b \in BOOLEAN : FetchTeamStats(t, b)
  \/ TeamStatsOver
  \/ \E a \in Athlete, b \in BOOLEAN : FetchCareer(a, b)
  \/ \E x \in Team \cup Athlete : StatsRaise(x)
  \/ CloseScope
  \/ Abort

Next == Espn \/ Launch \/ Working \/ Exit \/ Kill

\* a running pull gets on: requests are answered, or the client gives up
Spec == Init /\ [][Next]_vars /\ WF_vars(Working \/ Exit)

-----------------------------------------------------------------------------
(* What a pull promises *)

\* A checkpoint says what ESPN says: a stored game was played, a resolved one
\* never will be, so no game is counted twice by _resolved_event_count.
CheckpointsAreSettled ==
  /\ \A e \in Stored : espn[e] = "final"
  /\ \A e \in resolved : espn[e] = "void"

\* A completion marker vouches for every game on the schedules when the pull
\* that decided it, or an earlier one, read them, although the code only compares
\* two numbers (season_complete) and a schedule may have come back empty.
MarkedScopeIsResolved == \A s \in complete : promised[s] \subseteq Checkpointed(s)

\* fetch_game writes the games row first, and that row is its checkpoint: a
\* game without its box scores is being fetched, or was cut short between its
\* own writes, by a kill or by a write that raised.  The failure of another
\* game, a retry, --force or a second worker never leaves one.
Torn(e) == e \in Stored /\ \E t \in BoxTables \cap RowsOf[e] : << t, e >> \notin tree
InFlight(e) == \E w \in Worker : job[w] # Idle /\ job[w].event = e
TornIsCutShort == \A e \in Event : Torn(e) => e \in cut \/ InFlight(e)

\* What storage.py (lines 11-14) and the documentation say a marker means, and
\* what "interrupting a pull is safe" needs: everything in the scope was fetched.
MarkedScopeIsFetched == \A s \in complete : \A e \in promised[s] : ~Torn(e)

\* What _run_season_type's comment (lines 964-971) says the refresh is for: it
\* goes on until the season type truly is done, so a marked scope's team totals
\* cover the games it is marked for.
MarkedTotalsAreFinal ==
  \A s \in complete : \A t \in Team : teamStats[<< s, t >>] # None =>
    \A e \in promised[s] \cap Stored : t \in TeamsOf[e] => e \in teamStats[<< s, t >>]

\* An open scope's aggregates are read after its games, so they are never
\* behind the box scores beside them (_run_season_type: force_refresh).
OpenScopeIsFresh ==
  pc = "careers" /\ PhaseOver /\ ~done /\ ~missed =>
    /\ \A a \in AthleteIdsFor(scope) : \A e \in Stored \cap In(scope) :
         a \in AthletesOf[e] => e \in careers[<< a, type >>]
    /\ \A t \in Team : \A e \in Stored \cap In(scope) :
         t \in TeamsOf[e] /\ type # 1 => e \in teamStats[<< scope, t >>]

\* Without --force nothing an earlier pull settled is read again: a past
\* season's file and a completed scope's team totals stay what they are.
DecidedStays ==
  [][ ~flags.force =>
      /\ \A k \in DOMAIN seasonFiles :
           seasonFiles[k] # None /\ k[2] < current => seasonFiles'[k] = seasonFiles[k]
      /\ \A k \in DOMAIN teamStats : k[1] \in complete => teamStats'[k] = teamStats[k] ]_vars

\* A pull ends: no worker, phase or failure leaves it waiting.
PullEnds == pc # "idle" ~> pc = "idle"
=============================================================================
