---------------------------- MODULE CommandProofs ----------------------------
(***************************************************************************)
(* The aggregates of a pull, and what `data pull` makes of the warehouse,   *)
(* for any seasons, games, teams, athletes and number of workers: an open   *)
(* scope's totals are not behind its box scores, what was decided stays     *)
(* decided, and the rebuild forgets no table the pull wrote.                *)
(***************************************************************************)
EXTENDS FetchCommand, PullProofs

InScope == {"games", "extra", "teamStats", "careers"}

\* Each team read so far holds every stored game of the scope it played in, and
\* each athlete read so far every one that names him.
TeamsRead(T) ==
  \A t \in T : \A e \in Stored \cap In(scope) :
    t \in TeamsOf[e] /\ type # 1 => e \in teamStats[<< scope, t >>]
AthletesRead(A) ==
  \A a \in A : \A e \in Stored \cap In(scope) : a \in AthletesOf[e] => e \in careers[<< a, type >>]

\* While nothing failed or came back empty, what is no longer to do was read.
FreshInv ==
  ~done /\ ~missed /\ ~failed =>
    /\ pc = "teamStats" => TeamsRead(Team \ todo)
    /\ pc = "careers" => TeamsRead(Team) /\ AthletesRead(AthleteIdsFor(scope) \ todo)

\* A scope with its marker is not entered, without --force.
OpenInv == pc \in InScope /\ ~flags.force => scope \notin complete

AggregateInv == PullInv /\ SettledInv /\ FreshInv /\ OpenInv

-----------------------------------------------------------------------------
\* What is in no scope keeps both.
LEMMA ScopeLeft ==
  ASSUME pc' \notin InScope
  PROVE  FreshInv' /\ OpenInv'
BY DEF FreshInv, OpenInv, InScope

\* A step that leaves the files, the scope and the list of what is to do alone.
LEMMA AggregatesStay ==
  ASSUME FreshInv, UNCHANGED << tree, teamStats, careers, season, type, pc, todo, done, missed, failed >>
  PROVE  FreshInv'
BY DEF FreshInv, TeamsRead, AthletesRead, AthleteIdsFor, Stored, In, scope

\* A step that leaves the flags and the scope alone, and enters no scope.
LEMMA OpenStays ==
  ASSUME OpenInv, UNCHANGED << flags, season, type, complete >>, pc' \in InScope => pc \in InScope
  PROVE  OpenInv'
BY DEF OpenInv, scope

\* No pull runs at first.
LEMMA FreshInit == Init => FreshInv /\ OpenInv
BY DEF Init, FreshInv, OpenInv, InScope

\* A worker is in a game, or takes one, only while games are fetched.
LEMMA GameSteps ==
  ASSUME PullInv, NEW w \in Worker, FetchGame(w)
  PROVE  /\ pc \in {"games", "extra"}
         /\ UNCHANGED << flags, season, type, complete, pc, teamStats, seasonFiles >>
<1>1. job[w] # Idle => pc \in {"games", "extra"}
  BY DEF PullInv, PhaseInv, AllIdle
<1>2. ASSUME NEW e \in Event, SkipGame(w, e) \/ FetchFinal(w, e) \/ FetchVoid(w, e)
                              \/ FetchNothing(w, e) \/ FetchRaises(w, e)
      PROVE  pc \in {"games", "extra"}
             /\ UNCHANGED << flags, season, type, complete, pc, teamStats, seasonFiles >>
  BY <1>2 DEF SkipGame, FetchFinal, FetchVoid, FetchNothing, FetchRaises, Taking, disk, plan
<1>3. CASE WriteTable(w)
  BY <1>1, <1>3 DEF WriteTable, plan
<1>4. ASSUME NEW a \in Athlete, CacheBio(w, a)
      PROVE  pc \in {"games", "extra"}
             /\ UNCHANGED << flags, season, type, complete, pc, teamStats, seasonFiles >>
  BY <1>1, <1>4 DEF CacheBio, plan
<1>5. CASE WriteRaises(w)
  BY <1>1, <1>5 DEF WriteRaises, disk, plan
<1>6. QED
  BY <1>2, <1>3, <1>4, <1>5 DEF FetchGame

\* An open scope's totals are read again, every one, after the last game of the
\* scope is on disk and before any other is; ESPN counts every final game.
LEMMA FreshStep == AggregateInv /\ [Next]_vars => FreshInv' /\ OpenInv'
<1> SUFFICES ASSUME AggregateInv, [Next]_vars PROVE FreshInv' /\ OpenInv'
  OBVIOUS
<1> USE DEF AggregateInv
<1>t. /\ teamStats \in [Scope \X Team -> {None} \cup SUBSET Event]
      /\ careers \in [Athlete \X SeasonType -> {None} \cup SUBSET Event]
      /\ tree \subseteq GameTable \X Event
  BY DEF PullInv, TypeOK
<1>s. Stored \subseteq Final
  BY DEF SettledInv, CheckpointsAreSettled, Stored, Final
<1>1. CASE Rollover \/ \E e \in Event : \E to \in {"pre", "final", "void"} : EspnMoves(e, to)
  BY <1>1, AggregatesStay, OpenStays DEF Rollover, EspnMoves, disk, plan, history
<1>2. ASSUME NEW f, NEW S, NEW T, Start(f, S, T) PROVE FreshInv' /\ OpenInv'
  BY <1>2, ScopeLeft DEF Start, InScope
<1>3. ASSUME NEW b, FetchTeams(b) \/ CloseSeason(b) \/ WriteGlossary(b) PROVE FreshInv' /\ OpenInv'
  BY <1>3, ScopeLeft DEF FetchTeams, CloseSeason, WriteGlossary, InScope
<1>4. ASSUME NEW s, NextSeason(s) PROVE FreshInv' /\ OpenInv'
  BY <1>4, ScopeLeft DEF NextSeason, InScope
<1>5. ASSUME NEW x, NEW b, FetchSeasonTable(x, b) PROVE FreshInv' /\ OpenInv'
  BY <1>5, ScopeLeft DEF FetchSeasonTable, InScope
<1>6. CASE TablesOver
  BY <1>6, ScopeLeft DEF TablesOver, InScope
<1>7. ASSUME NEW t, SkipScope(t) PROVE FreshInv' /\ OpenInv'
  BY <1>7, ScopeLeft DEF SkipScope, InScope
<1>8. ASSUME NEW t, NEW lost, EventIdsFor(t, lost) PROVE FreshInv' /\ OpenInv'
  <2>1. pc' = "games" /\ season' = season /\ type' = t /\ complete' = complete /\ flags' = flags
        /\ (<< season, t >> \notin complete \/ flags.force)
    BY <1>8 DEF EventIdsFor, disk
  <2>2. QED
    BY <2>1 DEF FreshInv, OpenInv, scope
<1>9. ASSUME NEW lost, ScoreboardEventIds(lost) PROVE FreshInv' /\ OpenInv'
  <2>1. pc = "games" /\ pc' = "extra" /\ UNCHANGED << flags, season, type, complete >>
    BY <1>9 DEF ScoreboardEventIds, disk, plan
  <2>2. QED
    BY <2>1, OpenStays DEF FreshInv, InScope
<1>10. ASSUME NEW w \in Worker, FetchGame(w) PROVE FreshInv' /\ OpenInv'
  BY <1>10, GameSteps, OpenStays DEF FreshInv
<1>11. CASE CloseGames
  <2>1. pc \in InScope /\ pc' = "teamStats" /\ todo' = Team /\ UNCHANGED << flags, season, type, complete >>
    BY <1>11 DEF CloseGames, disk, plan, InScope
  <2>2. QED
    BY <2>1, OpenStays DEF FreshInv, TeamsRead
<1>12. ASSUME NEW t \in Team, NEW b, FetchTeamStats(t, b) PROVE FreshInv' /\ OpenInv'
  <2>1. /\ pc = "teamStats" /\ todo' = todo \ {t}
        /\ UNCHANGED << flags, season, type, complete, tree, pc, done, failed >>
        /\ ~missed' => ~missed
    BY <1>12 DEF FetchTeamStats, plan
  <2>2. CASE done \/ missed' \/ failed
    BY <2>1, <2>2, OpenStays DEF FreshInv
  <2>3. CASE ~done /\ ~missed' /\ ~failed /\ type = 1
    BY <2>1, <2>3, OpenStays DEF FreshInv, TeamsRead
  <2>4. CASE ~done /\ ~missed' /\ ~failed /\ type # 1
    <3>1. teamStats' = [teamStats EXCEPT ![<< scope, t >>] = {e \in Final \cap In(scope) : t \in TeamsOf[e]}]
      BY <1>12, <2>1, <2>4 DEF FetchTeamStats, Kept
    <3>2. scope \in Scope
      BY <2>1 DEF PullInv, PhaseInv, scope, Scope
    <3>3. TeamsRead(Team \ todo)
      BY <2>1, <2>4 DEF FreshInv
    <3>4. TeamsRead({u \in Team : u = t \/ u \notin todo})'
      BY <1>s, <1>t, <2>1, <3>1, <3>2, <3>3 DEF TeamsRead, Stored, In, scope
    <3>5. QED
      BY <2>1, <3>4, OpenStays DEF FreshInv, TeamsRead
  <2>5. QED
    BY <2>2, <2>3, <2>4
<1>13. CASE TeamStatsOver
  <2>1. /\ pc = "teamStats" /\ pc' = "careers" /\ todo = {} /\ todo' = AthleteIdsFor(scope)
        /\ UNCHANGED << flags, season, type, complete, tree, teamStats, careers, done, failed, missed >>
    BY <1>13 DEF TeamStatsOver, PhaseOver, disk, plan, history
  <2>2. AthleteIdsFor(scope)' = AthleteIdsFor(scope)
    BY <2>1 DEF AthleteIdsFor, In, scope
  <2>3. ~done /\ ~missed /\ ~failed => TeamsRead(Team)' /\ AthletesRead({})'
    BY <2>1 DEF FreshInv, TeamsRead, AthletesRead, Stored, In, scope
  <2>4. QED
    BY <2>1, <2>2, <2>3, OpenStays DEF FreshInv, AthletesRead, InScope
<1>14. ASSUME NEW a \in Athlete, NEW b, FetchCareer(a, b) PROVE FreshInv' /\ OpenInv'
  <2>1. /\ pc = "careers" /\ todo' = todo \ {a}
        /\ UNCHANGED << flags, season, type, complete, tree, teamStats, pc, done, failed >>
        /\ ~missed' => ~missed
    BY <1>14 DEF FetchCareer, plan
  <2>2. CASE done \/ missed' \/ failed
    BY <2>1, <2>2, OpenStays DEF FreshInv
  <2>3. CASE ~done /\ ~missed' /\ ~failed
    <3>1. careers' = [careers EXCEPT ![<< a, type >>] =
                        {e \in Final : a \in AthletesOf[e] /\ ScopeOf[e][2] = type}]
      BY <1>14, <2>1, <2>3 DEF FetchCareer, Kept
    <3>2. type \in SeasonType /\ \A e \in In(scope) : ScopeOf[e][2] = type
      BY <2>1 DEF PullInv, PhaseInv, In, scope
    <3>3. TeamsRead(Team) /\ AthletesRead(AthleteIdsFor(scope) \ todo)
      BY <2>1, <2>3 DEF FreshInv
    <3>4. AthletesRead({c \in AthleteIdsFor(scope) : c = a \/ c \notin todo})'
      BY <1>s, <1>t, <2>1, <3>1, <3>2, <3>3 DEF AthletesRead, AthleteIdsFor, Stored, In, scope
    <3>5. TeamsRead(Team)'
      BY <2>1, <3>3 DEF TeamsRead, Stored, In, scope
    <3>6. QED
      BY <2>1, <3>4, <3>5, OpenStays DEF FreshInv, AthletesRead
  <2>4. QED
    BY <2>2, <2>3
<1>15. ASSUME NEW x, StatsRaise(x) PROVE FreshInv' /\ OpenInv'
  BY <1>15, OpenStays DEF StatsRaise, FreshInv, disk, plan
<1>16. CASE CloseScope
  BY <1>16, ScopeLeft DEF CloseScope, InScope
<1>17. CASE Exit \/ Abort \/ Kill
  BY <1>17, ScopeLeft DEF Exit, Abort, Kill, ProcessEnds, InScope
<1>18. CASE UNCHANGED vars
  BY <1>18, AggregatesStay, OpenStays DEF vars, disk, plan, history
<1> HIDE DEF AggregateInv
<1>19. CASE Working
  BY <1>3, <1>4, <1>5, <1>6, <1>7, <1>8, <1>9, <1>10, <1>11, <1>12, <1>13, <1>14, <1>15, <1>16,
     <1>17, <1>19 DEF Working
<1>20. QED
  BY <1>1, <1>2, <1>17, <1>18, <1>19 DEF Next, Espn, Launch

\* All of it holds in every state of a pull.
LEMMA AggregatesHold == Spec => []AggregateInv
<1>1. Init => AggregateInv
  BY PullInvInit, SettledInit, FreshInit DEF AggregateInv
<1>2. AggregateInv /\ [Next]_vars => AggregateInv'
  BY PullInvStep, SettledStep, FreshStep DEF AggregateInv
<1>3. QED
  BY <1>1, <1>2, PTL DEF Spec

\* An open scope's team totals and careers, read after its last game was
\* stored, cover every box score beside them: _run_season_type's force_refresh.
THEOREM PullOpenScopeIsFresh == Spec => []OpenScopeIsFresh
<1>1. AggregateInv => OpenScopeIsFresh
  BY DEF AggregateInv, FreshInv, OpenScopeIsFresh, PhaseOver, TeamsRead, AthletesRead
<1>2. QED
  BY <1>1, AggregatesHold, PTL

-----------------------------------------------------------------------------
(***************************************************************************)
(* Only three steps write an aggregate.                                     *)
(***************************************************************************)
LEMMA OthersLeaveTotals ==
  ASSUME PullInv, [Next]_vars
  PROVE  \/ UNCHANGED << seasonFiles, teamStats >>
         \/ \E x, b : FetchSeasonTable(x, b) \/ FetchTeamStats(x, b)
         \/ \E b : CloseSeason(b)
<1>1. ASSUME NEW w \in Worker, FetchGame(w) PROVE UNCHANGED << seasonFiles, teamStats >>
  BY <1>1, GameSteps
<1>2. Rollover \/ TablesOver \/ TeamStatsOver \/ CloseGames \/ CloseScope \/ Exit \/ Abort \/ Kill
        => UNCHANGED << seasonFiles, teamStats >>
  BY DEF Rollover, TablesOver, TeamStatsOver, CloseGames, CloseScope, Exit, Abort, Kill, disk
<1>3. \A b : FetchTeams(b) \/ WriteGlossary(b) => UNCHANGED << seasonFiles, teamStats >>
  BY DEF FetchTeams, WriteGlossary, disk
<1>4. \A x, y : NextSeason(x) \/ SkipScope(x) \/ EventIdsFor(x, y) \/ ScoreboardEventIds(x)
                \/ FetchCareer(x, y) \/ StatsRaise(x) \/ EspnMoves(x, y)
                  => UNCHANGED << seasonFiles, teamStats >>
  BY DEF NextSeason, SkipScope, EventIdsFor, ScoreboardEventIds, FetchCareer, StatsRaise, EspnMoves, disk
<1>5. \A f, S, T : Start(f, S, T) => UNCHANGED << seasonFiles, teamStats >>
  BY DEF Start, disk
<1>6. UNCHANGED vars => UNCHANGED << seasonFiles, teamStats >>
  BY DEF vars, disk
<1>7. Espn \/ Launch => UNCHANGED << seasonFiles, teamStats >>
  BY <1>2, <1>4, <1>5, Zenon DEF Espn, Launch
<1>8. CASE Working
  BY <1>1, <1>2, <1>3, <1>4, <1>8, Zenon DEF Working
<1>9. QED
  BY <1>2, <1>6, <1>7, <1>8 DEF Next

\* A season's file that is kept is not touched, and the season read is the
\* running one's.
LEMMA SeasonFileKept ==
  ASSUME PullInv, ~flags.force, NEW x, NEW b, ReadSeasonTable(x, b), NEW k \in DOMAIN seasonFiles,
         seasonFiles[k] # None, k[2] < current
  PROVE  seasonFiles'[k] = seasonFiles[k]
<1>1. current \in Nat /\ season \in Nat
  BY SeasonAssumption DEF PullInv, TypeOK, SeasonAssumption
<1>2. CASE k = << x, season >>
  <2>1. ~(season >= current)
    BY <1>1, <1>2
  <2>2. Kept(seasonFiles[<< x, season >>], season >= current)
    BY <1>2, <2>1 DEF Kept
  <2>3. QED
    BY <2>2 DEF ReadSeasonTable
<1>3. CASE k # << x, season >>
  BY <1>3 DEF ReadSeasonTable
<1>4. QED
  BY <1>2, <1>3

\* Without --force no pull reads a past season's file or a marked scope's team
\* totals again (Kept, and the stat() of the completion marker).
THEOREM PullDecidedStays == Spec => DecidedStays
<1> DEFINE Files == \A k \in DOMAIN seasonFiles :
                      seasonFiles[k] # None /\ k[2] < current => seasonFiles'[k] = seasonFiles[k]
           Totals == \A k \in DOMAIN teamStats : k[1] \in complete => teamStats'[k] = teamStats[k]
<1>1. ASSUME AggregateInv, [Next]_vars, ~flags.force PROVE Files /\ Totals
  <2>1. PullInv
    BY <1>1 DEF AggregateInv
  <2>2. ASSUME NEW x, NEW b, FetchSeasonTable(x, b) PROVE Files /\ Totals
    BY <1>1, <2>1, <2>2, SeasonFileKept DEF FetchSeasonTable
  <2>3. ASSUME NEW b, CloseSeason(b) PROVE Files /\ Totals
    BY <1>1, <2>1, <2>3, SeasonFileKept DEF CloseSeason
  <2>4. ASSUME NEW t, NEW b, FetchTeamStats(t, b) PROVE Files /\ Totals
    <3>1. scope \notin complete
      BY <1>1, <2>4 DEF AggregateInv, OpenInv, InScope, FetchTeamStats
    <3>2. \A k \in DOMAIN teamStats : k[1] \in complete => k # << scope, t >>
      BY <3>1
    <3>3. QED
      BY <2>4, <3>2 DEF FetchTeamStats
  <2>5. QED
    BY <1>1, <2>1, <2>2, <2>3, <2>4, OthersLeaveTotals
<1>2. AggregateInv /\ [Next]_vars => [~flags.force => Files /\ Totals]_vars
  BY <1>1
<1>3. QED
  BY <1>2, AggregatesHold, PTL DEF Spec, DecidedStays

-----------------------------------------------------------------------------
(***************************************************************************)
(* The command.                                                             *)
(***************************************************************************)

\* To the tree and the pull, a command is a pull: a rebuild is its exit, and a
\* load by itself nothing at all.
LEMMA CommandIsAPull ==
  /\ CInit => Init
  /\ [CNext]_cvars => [Next]_vars
<1>1. RebuildChanged => Exit
  BY DEF RebuildChanged, Exit
<1>2. Load(Tables) \/ (\E t \in Tables : Load({t})) => UNCHANGED vars
  BY DEF Load
<1>3. Pulling => Working
  BY DEF Pulling
<1>4. EndsEarly => Exit \/ Abort \/ Kill
  BY DEF EndsEarly
<1>5. Abort => Working
  BY DEF Working
<1>6. Outside => Espn \/ Launch
  BY DEF Outside
<1>7. UNCHANGED cvars => UNCHANGED vars
  BY DEF cvars
<1>8. CNext => Next \/ UNCHANGED vars
  BY <1>1, <1>2, <1>3, <1>4, <1>5, <1>6 DEF CNext, Next
<1>9. QED
  BY <1>7, <1>8 DEF CInit

\* What a pull writes of a table's files, it says.
LEMMA WritesAreSaid ==
  ASSUME PullInv, Working, ~Abort
  PROVE  written \subseteq written' /\ \A t \in Tables : Slice(t)' # Slice(t) => t \in written'
<1> DEFINE Said == written \subseteq written' /\ \A t \in Tables : Slice(t)' # Slice(t) => t \in written'
<1>1. ASSUME UNCHANGED disk, written' = written PROVE Said
  BY <1>1 DEF Slice, disk
<1>2. ASSUME NEW b, FetchTeams(b) PROVE Said
  BY <1>2 DEF FetchTeams, Slice
<1>3. ASSUME NEW x \in SeasonTables \cup {Fingerprint}, NEW b, ReadSeasonTable(x, b),
             UNCHANGED << teamsFile, tree, players, teamStats, careers >>
      PROVE  Said
  <2>1. written \subseteq written' /\ (seasonFiles' # seasonFiles => x \in written')
    BY <1>3 DEF ReadSeasonTable
  <2>2. \A t \in (SeasonTables \cup {Fingerprint}) \ {x} : \A s \in Season :
          seasonFiles'[<< t, s >>] = seasonFiles[<< t, s >>]
    BY <1>3 DEF ReadSeasonTable, PullInv, TypeOK
  <2>3. ASSUME NEW t \in Tables, \A s \in Season : seasonFiles'[<< t, s >>] = seasonFiles[<< t, s >>]
        PROVE  Slice(t)' = Slice(t)
    <3>1. [s \in Season |-> seasonFiles'[<< t, s >>]] = [s \in Season |-> seasonFiles[<< t, s >>]]
      BY <2>3
    <3>2. QED
      BY <1>3, <3>1 DEF Slice
  <2>4. ASSUME NEW t \in {"teams", "players", "team_season_stats", "player_season_stats"} \cup GameTable
        PROVE  Slice(t)' = Slice(t)
    BY <1>3, <2>4 DEF Slice
  <2>5. QED
    BY <2>1, <2>2, <2>3, <2>4 DEF Tables
<1>4. ASSUME NEW w \in Worker, WriteTable(w) PROVE Said
  <2> DEFINE e == job[w].event
             table == GameTables[job[w].step]
  <2>1. /\ UNCHANGED << teamsFile, players, teamStats, careers, seasonFiles >>
        /\ tree' = IF table \in RowsOf[e] THEN tree \cup {<< table, e >>} ELSE tree
        /\ written' = IF table \in RowsOf[e] THEN written \cup {table} ELSE written
    BY <1>4 DEF WriteTable
  <2> HIDE DEF e, table
  <2>2. \A t \in GameTable : {f \in Event : << t, f >> \in tree'} # {f \in Event : << t, f >> \in tree}
                               => t \in written'
    BY <2>1
  <2>3. QED
    BY <2>1, <2>2 DEF Slice
<1>5. ASSUME NEW w \in Worker, NEW a \in Athlete, CacheBio(w, a) PROVE Said
  BY <1>5 DEF CacheBio, Slice
<1>6. ASSUME NEW w \in Worker, NEW e \in Event, FetchVoid(w, e) PROVE Said
  <2>1. UNCHANGED << teamsFile, tree, players, teamStats, careers, seasonFiles, written >>
    BY <1>6 DEF FetchVoid
  <2>2. QED
    BY <2>1 DEF Slice
<1>7. ASSUME NEW t, NEW b, FetchTeamStats(t, b) PROVE Said
  BY <1>7 DEF FetchTeamStats, Slice
<1>8. ASSUME NEW a, NEW b, FetchCareer(a, b) PROVE Said
  BY <1>8 DEF FetchCareer, Slice
<1>9. ASSUME CloseScope PROVE Said
  <2>1. UNCHANGED << teamsFile, tree, players, teamStats, careers, seasonFiles, written >>
    BY <1>9 DEF CloseScope
  <2>2. QED
    BY <2>1 DEF Slice
<1>10. ASSUME NEW b, CloseSeason(b) PROVE Said
  BY <1>3, <1>10 DEF CloseSeason
<1>11. ASSUME NEW x \in SeasonTables, NEW b, FetchSeasonTable(x, b) PROVE Said
  BY <1>3, <1>11 DEF FetchSeasonTable
<1>12. ASSUME NEW b, WriteGlossary(b) PROVE Said
  <2>1. UNCHANGED << teamsFile, tree, players, teamStats, careers, seasonFiles >> /\ written \subseteq written'
    BY <1>12 DEF WriteGlossary, disk
  <2>2. QED
    BY <2>1 DEF Slice
<1>13. ASSUME NEW w \in Worker, FetchGame(w) PROVE Said
  <2>1. \A e : SkipGame(w, e) \/ FetchFinal(w, e) \/ FetchNothing(w, e) \/ FetchRaises(w, e)
                 \/ WriteRaises(w)
                 => UNCHANGED disk /\ written' = written
    BY DEF SkipGame, FetchFinal, FetchNothing, FetchRaises, WriteRaises
  <2>2. QED
    BY <1>1, <1>4, <1>5, <1>6, <1>13, <2>1 DEF FetchGame
<1>14. TablesOver \/ TeamStatsOver \/ CloseGames => UNCHANGED disk /\ written' = written
  BY DEF TablesOver, TeamStatsOver, CloseGames
<1>15. \A x, y : NextSeason(x) \/ SkipScope(x) \/ EventIdsFor(x, y) \/ ScoreboardEventIds(x) \/ StatsRaise(x)
                   => UNCHANGED disk /\ written' = written
  BY DEF NextSeason, SkipScope, EventIdsFor, ScoreboardEventIds, StatsRaise
<1> HIDE DEF Said
<1>16. TablesOver \/ TeamStatsOver \/ CloseGames => Said
  BY <1>1, <1>14
<1>17. \A x : NextSeason(x) \/ SkipScope(x) \/ ScoreboardEventIds(x) \/ StatsRaise(x) => Said
  BY <1>1, <1>15
<1>18. \A x, y : EventIdsFor(x, y) => Said
  BY <1>1, <1>15
<1>19. Said
  BY <1>2, <1>7, <1>8, <1>9, <1>10, <1>11, <1>12, <1>13, <1>16, <1>17, <1>18 DEF Working
<1>20. QED
  BY <1>19 DEF Said

\* A warehouse that has lost nothing: what it is behind by, the pull remembers.
CommandInv == PullInv /\ stale \subseteq Tables /\ NothingForgotten

\* It holds before the first command.
LEMMA CommandInit == CInit => CommandInv
BY PullInvInit DEF CInit, CommandInv, NothingForgotten

\* Every step of a command keeps it.
LEMMA CommandStep == CommandInv /\ [CNext]_cvars => CommandInv'
<1> SUFFICES ASSUME CommandInv, [CNext]_cvars PROVE CommandInv'
  OBVIOUS
<1> USE DEF CommandInv, NothingForgotten
<1>1. PullInv'
  BY CommandIsAPull, PullInvStep
<1>2. ASSUME Ages PROVE stale' \subseteq Tables
  BY <1>2 DEF Ages
<1>3. CASE Pulling
  BY <1>1, <1>2, <1>3, WritesAreSaid DEF Pulling, Ages
<1>4. CASE EndsEarly
  <2>1. written' = {} /\ UNCHANGED << teamsFile, tree, players, teamStats, careers, seasonFiles >>
    BY <1>4 DEF EndsEarly, Exit, Abort, Kill, ProcessEnds, disk
  <2>2. \A t \in Tables : Slice(t)' = Slice(t)
    BY <2>1 DEF Slice
  <2>3. Ages /\ early' = (early \/ (built /\ written # {})) /\ partial' = partial
    BY <1>4 DEF EndsEarly, Ages
  <2>4. stale' = IF built THEN stale ELSE {}
    BY <2>2, <2>3 DEF Ages
  <2>5. QED
    BY <1>1, <2>1, <2>3, <2>4
<1>5. CASE RebuildChanged
  <2>1. Loads(IF built THEN written ELSE Tables) /\ written' = {}
    BY <1>5 DEF RebuildChanged, ProcessEnds
  <2>2. QED
    BY <1>1, <2>1 DEF Loads
<1>6. ASSUME NEW tables, Load(tables), tables = Tables \/ tables # Tables PROVE CommandInv'
  <2>1. Loads(tables) /\ written' = written
    BY <1>6 DEF Load, vars
  <2>2. QED
    BY <1>1, <2>1 DEF Loads
<1>7. CASE Outside
  <2>1. UNCHANGED << stale, early, partial, written >>
    BY <1>7 DEF Outside, Espn, Launch, Rollover, EspnMoves, Start
  <2>2. QED
    BY <1>1, <2>1
<1>8. CASE UNCHANGED cvars
  BY <1>1, <1>8 DEF cvars, vars
<1>9. QED
  BY <1>3, <1>4, <1>5, <1>6, <1>7, <1>8 DEF CNext

\* A warehouse loaded whole, whose pulls all got to their rebuild, is behind the
\* tree by nothing but what the running pull wrote and will load: every write of
\* the pull goes through _write_rows, and _rebuild_changed loads what it noted.
THEOREM CommandForgetsNothing == CSpec => []NothingForgotten
<1>1. CSpec => []CommandInv
  BY CommandInit, CommandStep, PTL DEF CSpec
<1>2. CommandInv => NothingForgotten
  BY DEF CommandInv
<1>3. QED
  BY <1>1, <1>2, PTL

\* Whatever commands and loads do beside it, the tree's checkpoints say what ESPN
\* says and an open scope's totals are read after its games.
THEOREM CommandKeepsThePull == CSpec => [](CheckpointsAreSettled /\ OpenScopeIsFresh)
<1>1. Init => AggregateInv
  BY PullInvInit, SettledInit, FreshInit DEF AggregateInv
<1>2. AggregateInv /\ [Next]_vars => AggregateInv'
  BY PullInvStep, SettledStep, FreshStep DEF AggregateInv
<1>3. CSpec => []AggregateInv
  BY <1>1, <1>2, CommandIsAPull, PTL DEF CSpec
<1>4. AggregateInv => CheckpointsAreSettled /\ OpenScopeIsFresh
  BY DEF AggregateInv, SettledInv, FreshInv, OpenScopeIsFresh, PhaseOver, TeamsRead, AthletesRead
<1>5. QED
  BY <1>3, <1>4, PTL
=============================================================================
