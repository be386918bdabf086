----------------------------- MODULE PullProofs -----------------------------
(***************************************************************************)
(* What a pull keeps true for any seasons, games, teams, athletes and       *)
(* number of workers.  PullInv is the inductive invariant: the types, and   *)
(* what each phase of the pull has decided before it begins.                *)
(***************************************************************************)
EXTENDS Pull, FiniteSetTheorems, TLAPS

\* What the phases rely on: an idle process has nothing left to do, a phase
\* over a season has a season, one over a scope has its type as well, and a
\* worker is in a game only while the games are fetched.
PhaseInv ==
  /\ pc = "idle" => typesLeft = {}
  /\ pc = "teams" => typesLeft = {}
  /\ pc \in {"tables", "type", "games", "extra", "teamStats", "careers"} => season \in Season
  /\ pc \in {"games", "extra", "teamStats", "careers"} => type \in SeasonType
  /\ pc \notin {"games", "extra"} => AllIdle

PullInv == TypeOK /\ PhaseInv

\* A tree with nothing in it and no pull running is well formed.
LEMMA PullInvInit == Init => PullInv
<1> SUFFICES ASSUME Init PROVE PullInv
  OBVIOUS
<1>1. /\ espn \in [Event -> {"unlisted", "pre", "final", "void"}]
      /\ current \in Nat
      /\ job \in [Worker -> {Idle} \cup [event : Event, step : 1..7, bios : SUBSET Athlete]]
      /\ known \in [Scope -> SUBSET Event] /\ promised \in [Scope -> SUBSET Event]
  BY SeasonAssumption DEF Init, SeasonAssumption
<1>2. /\ teamStats \in [Scope \X Team -> {None} \cup SUBSET Event]
      /\ careers \in [Athlete \X SeasonType -> {None} \cup SUBSET Event]
      /\ seasonFiles \in [(SeasonTables \cup {Fingerprint}) \X Season -> {None} \cup SUBSET Event]
  BY DEF Init
<1>3. PhaseInv
  BY DEF Init, PhaseInv, AllIdle
<1>4. QED
  BY <1>1, <1>2, <1>3 DEF Init, NoFlags, PullInv, TypeOK

\* Every step of a pull, of ESPN and of the calendar keeps it so: the fields of
\* a running fetch_game are set and reset together.
LEMMA PullInvStep == PullInv /\ [Next]_vars => PullInv'
<1> SUFFICES ASSUME PullInv, [Next]_vars PROVE PullInv'
  OBVIOUS
<1> USE DEF PullInv, TypeOK, PhaseInv, Scope, AllIdle, disk, plan, history
<1>1. CASE Rollover
  BY <1>1 DEF Rollover
<1>2. ASSUME NEW e \in Event, NEW to \in {"pre", "final", "void"}, EspnMoves(e, to) PROVE PullInv'
  BY <1>2 DEF EspnMoves
<1>3. ASSUME NEW f \in Flags, NEW S \in SUBSET Season, NEW T \in SUBSET SeasonType, Start(f, S, T)
      PROVE PullInv'
  BY <1>3, SettingAssumption DEF Start, SettingAssumption
<1>4. ASSUME NEW b \in BOOLEAN, FetchTeams(b) PROVE PullInv'
  BY <1>4 DEF FetchTeams
<1>5. ASSUME NEW s \in Season, NextSeason(s) PROVE PullInv'
  BY <1>5 DEF NextSeason
<1>6. ASSUME NEW table \in SeasonTables, NEW b \in BOOLEAN, FetchSeasonTable(table, b) PROVE PullInv'
  BY <1>6 DEF FetchSeasonTable, ReadSeasonTable, Final
<1>7. CASE TablesOver
  BY <1>7 DEF TablesOver
<1>8. ASSUME NEW t \in SeasonType, SkipScope(t) PROVE PullInv'
  BY <1>8 DEF SkipScope
<1>9. ASSUME NEW t \in SeasonType, NEW lost \in Losses(Team), EventIdsFor(t, lost) PROVE PullInv'
  BY <1>9 DEF EventIdsFor, Scheduled, Listed, In
<1>10. ASSUME NEW lost, ScoreboardEventIds(lost) PROVE PullInv'
  BY <1>10 DEF ScoreboardEventIds, Listed, In, scope
<1>11. ASSUME NEW w \in Worker, NEW e \in Event,
              SkipGame(w, e) \/ FetchFinal(w, e) \/ FetchVoid(w, e)
              \/ FetchNothing(w, e) \/ FetchRaises(w, e)
       PROVE PullInv'
  <2>1. CASE FetchFinal(w, e)
    <3>1. AthletesOf[e] \in SUBSET Athlete
      BY EventAssumption DEF EventAssumption
    <3>2. job' \in [Worker -> {Idle} \cup [event : Event, step : 1..7, bios : SUBSET Athlete]]
      BY <2>1, <3>1 DEF FetchFinal
    <3>3. QED
      BY <2>1, <3>2 DEF FetchFinal, Taking
  <2>2. CASE FetchVoid(w, e)
    BY <2>2 DEF FetchVoid, Taking
  <2>3. CASE SkipGame(w, e) \/ FetchNothing(w, e) \/ FetchRaises(w, e)
    BY <2>3, ZenonT(60) DEF SkipGame, FetchNothing, FetchRaises, Taking
  <2>4. QED
    BY <1>11, <2>1, <2>2, <2>3
<1>12. ASSUME NEW w \in Worker, WriteTable(w) PROVE PullInv'
  <2>1. PICK j \in [event : Event, step : 1..7, bios : SUBSET Athlete] : job[w] = j
    BY <1>12 DEF WriteTable
  <2>2. j.step \in 1..6 /\ j.event \in Event
    BY <1>12, <2>1 DEF WriteTable, LastStep
  <2>3. GameTables[j.step] \in GameTable
    BY <2>2 DEF GameTable
  <2>4. job' \in [Worker -> {Idle} \cup [event : Event, step : 1..7, bios : SUBSET Athlete]]
    BY <1>12, <2>1, <2>2, SMTT(60) DEF WriteTable
  <2>5. tree' \subseteq GameTable \X Event
    BY <1>12, <2>1, <2>2, <2>3 DEF WriteTable
  <2>6. UNCHANGED << espn, current, teamsFile, resolved, complete, players, teamStats, careers,
                     seasonFiles, pc, plan, ids, todo, done, failed, history >>
    BY <1>12 DEF WriteTable
  <2>7. pc \in {"games", "extra"}
    BY <1>12 DEF WriteTable
  <2>8. QED
    BY <2>4, <2>5, <2>6, <2>7
<1>13. ASSUME NEW w \in Worker, NEW a \in Athlete, CacheBio(w, a) PROVE PullInv'
  BY <1>13, SettingAssumption DEF CacheBio, SettingAssumption
<1>13a. ASSUME NEW w \in Worker, WriteRaises(w) PROVE PullInv'
  <2>1. job[w] \in [event : Event, step : 1..7, bios : SUBSET Athlete]
    BY <1>13a DEF WriteRaises
  <2>2. cut' \subseteq Event
    BY <1>13a, <2>1 DEF WriteRaises
  <2>3. job' \in [Worker -> {Idle} \cup [event : Event, step : 1..7, bios : SUBSET Athlete]]
    BY <1>13a DEF WriteRaises
  <2>4. QED
    BY <1>13a, <2>2, <2>3 DEF WriteRaises
<1>14. CASE CloseGames
  BY <1>14 DEF CloseGames, PhaseOver
<1>15. ASSUME NEW t \in Team, NEW b \in BOOLEAN, FetchTeamStats(t, b) PROVE PullInv'
  BY <1>15 DEF FetchTeamStats, Final, In
<1>16. CASE TeamStatsOver
  BY <1>16 DEF TeamStatsOver, AthleteIdsFor
<1>17. ASSUME NEW a \in Athlete, NEW b \in BOOLEAN, FetchCareer(a, b) PROVE PullInv'
  BY <1>17 DEF FetchCareer, Final
<1>18. ASSUME NEW x \in Team \cup Athlete, StatsRaise(x) PROVE PullInv'
  BY <1>18 DEF StatsRaise
<1>19. CASE CloseScope
  BY <1>19 DEF CloseScope, scope
<1>20. ASSUME NEW b \in BOOLEAN, CloseSeason(b) PROVE PullInv'
  BY <1>20 DEF CloseSeason, ReadSeasonTable, Final
<1>21. ASSUME NEW b \in BOOLEAN, WriteGlossary(b) PROVE PullInv'
  BY <1>21 DEF WriteGlossary
<1>22. CASE Exit
  BY <1>22 DEF Exit, ProcessEnds, NoFlags
<1>23. CASE Abort
  BY <1>23 DEF Abort, ProcessEnds, NoFlags
<1>24. CASE Kill
  <2>1. \A w \in Worker : job[w] # Idle => job[w].event \in Event
    OBVIOUS
  <2>2. cut' \subseteq Event
    BY <1>24, <2>1 DEF Kill
  <2>3. QED
    BY <1>24, <2>2 DEF Kill, ProcessEnds, NoFlags
<1>25. CASE UNCHANGED vars
  BY <1>25 DEF vars
<1> HIDE DEF PullInv, TypeOK, PhaseInv, Scope, AllIdle, disk, plan, history
<1>26. QED
  BY <1>1, <1>2, <1>3, <1>4, <1>5, <1>6, <1>7, <1>8, <1>9, <1>10, <1>11, <1>12, <1>13, <1>14,
     <1>13a, <1>15, <1>16, <1>17, <1>18, <1>19, <1>20, <1>21, <1>22, <1>23, <1>24, <1>25
  DEF Next, Espn, Launch, Working, FetchGame

\* Every variable keeps its type for every choice of the constants: no pull
\* walks a season, season type or game it was not asked for.
THEOREM PullTypes == Spec => []TypeOK
<1>1. Spec => []PullInv
  BY PullInvInit, PullInvStep, PTL DEF Spec
<1>2. PullInv => TypeOK
  BY DEF PullInv
<1>3. QED
  BY <1>1, <1>2, PTL

-----------------------------------------------------------------------------
(***************************************************************************)
(* Checkpoints.  Of the steps only a few touch a game's files or the        *)
(* workers; StepKinds names them and calls the others quiet.                *)
(***************************************************************************)
Quiet == UNCHANGED << espn, tree, resolved, job, flags, cut >>
Ends == Exit \/ Abort \/ Kill

\* What the properties about checkpoints can see of a step: most of the pull
\* leaves games, markers and running fetch_games alone (Quiet).
LEMMA StepKinds ==
  ASSUME [Next]_vars
  PROVE  \/ \E e \in Event : \E to \in {"pre", "final", "void"} : EspnMoves(e, to)
         \/ \E f \in Flags : \E S \in SUBSET Season, T \in SUBSET SeasonType : Start(f, S, T)
         \/ \E w \in Worker : \/ \E e \in Event : FetchFinal(w, e) \/ FetchVoid(w, e)
                              \/ WriteTable(w) \/ WriteRaises(w)
                              \/ \E a \in Athlete : CacheBio(w, a)
         \/ Ends
         \/ Quiet
<1>1. Rollover \/ TablesOver \/ TeamStatsOver \/ CloseGames \/ CloseScope => Quiet
  BY DEF Rollover, TablesOver, TeamStatsOver, CloseGames, CloseScope, Quiet, disk, plan, history
<1>2. \A b : FetchTeams(b) \/ CloseSeason(b) \/ WriteGlossary(b) => Quiet
  BY DEF FetchTeams, CloseSeason, WriteGlossary, Quiet, disk, plan, history
<1>3. \A x, y : NextSeason(x) \/ FetchSeasonTable(x, y) \/ SkipScope(x) \/ EventIdsFor(x, y) => Quiet
  BY DEF NextSeason, FetchSeasonTable, SkipScope, EventIdsFor, Quiet, disk, plan, history
<1>4. \A x, y : ScoreboardEventIds(x) \/ SkipGame(x, y) \/ FetchNothing(x, y) \/ FetchRaises(x, y) => Quiet
  BY DEF ScoreboardEventIds, SkipGame, FetchNothing, FetchRaises, Quiet, disk, plan, history
<1>5. \A x, y : FetchTeamStats(x, y) \/ FetchCareer(x, y) \/ StatsRaise(x) => Quiet
  BY DEF FetchTeamStats, FetchCareer, StatsRaise, Quiet, disk, plan, history
<1>6. UNCHANGED vars => Quiet
  BY DEF vars, Quiet, disk, plan, history
<1>7. ASSUME NEW w \in Worker, FetchGame(w)
      PROVE  \/ \E e \in Event : FetchFinal(w, e) \/ FetchVoid(w, e)
             \/ WriteTable(w) \/ WriteRaises(w)
             \/ \E a \in Athlete : CacheBio(w, a)
             \/ Quiet
  BY <1>4, <1>7 DEF FetchGame
<1>8. ASSUME Working
      PROVE Quiet \/ Abort \/ \E w \in Worker : FetchGame(w)
  BY <1>1, <1>2, <1>3, <1>4, <1>5, <1>8, Zenon DEF Working
<1>9. ASSUME Next
      PROVE Espn \/ Launch \/ Working \/ Exit \/ Kill
  BY <1>9 DEF Next
<1>10. CASE Espn
  BY <1>1, <1>10 DEF Espn
<1>11. CASE Launch
  BY <1>11 DEF Launch
<1>12. CASE Working
  BY <1>7, <1>8, <1>12 DEF Ends
<1>13. CASE Exit \/ Kill \/ UNCHANGED vars
  BY <1>6, <1>13 DEF Ends
<1>14. QED
  BY <1>9, <1>10, <1>11, <1>12, <1>13

\* The game a worker is in was final when it was read, and is for good.
SettledInv ==
  /\ CheckpointsAreSettled
  /\ \A w \in Worker : job[w] # Idle => espn[job[w].event] = "final"

\* No checkpoint exists at first.
LEMMA SettledInit == Init => SettledInv
BY DEF Init, SettledInv, CheckpointsAreSettled, Stored

\* A checkpoint is only written for a game whose answer was final or void, and
\* such a game stays so.
LEMMA SettledStep == PullInv /\ SettledInv /\ [Next]_vars => SettledInv'
<1> SUFFICES ASSUME PullInv, SettledInv, [Next]_vars PROVE SettledInv'
  OBVIOUS
<1> USE DEF SettledInv, CheckpointsAreSettled, Stored
<1>t. /\ espn \in [Event -> {"unlisted", "pre", "final", "void"}]
      /\ job \in [Worker -> {Idle} \cup [event : Event, step : 1..7, bios : SUBSET Athlete]]
  BY DEF PullInv, TypeOK
<1>1. ASSUME NEW e \in Event, NEW to \in {"pre", "final", "void"}, EspnMoves(e, to)
      PROVE SettledInv'
  <2>1. \A f \in Event : espn[f] \in {"final", "void"} => espn'[f] = espn[f]
    BY <1>1, <1>t DEF EspnMoves
  <2>2. UNCHANGED << tree, resolved, job >>
    BY <1>1 DEF EspnMoves, disk
  <2>3. resolved \subseteq Event
    BY DEF PullInv, TypeOK
  <2>4. QED
    BY <2>1, <2>2, <2>3, <1>t
<1>2. ASSUME NEW w \in Worker, NEW e \in Event, FetchFinal(w, e) PROVE SettledInv'
  BY <1>2, <1>t DEF FetchFinal, disk
<1>3. ASSUME NEW w \in Worker, NEW e \in Event, FetchVoid(w, e) PROVE SettledInv'
  BY <1>3, <1>t DEF FetchVoid
<1>4. ASSUME NEW w \in Worker, WriteTable(w) PROVE SettledInv'
  <2>1. UNCHANGED << espn, resolved >>
    BY <1>4 DEF WriteTable
  <2>2. \A v \in Worker : job'[v] # Idle => job[v] # Idle /\ job'[v].event = job[v].event
    BY <1>4, <1>t DEF WriteTable
  <2>3. \A e \in Event : << "games", e >> \in tree' => << "games", e >> \in tree \/ e = job[w].event
    BY <1>4 DEF WriteTable
  <2>4. job[w] # Idle
    BY <1>4 DEF WriteTable
  <2>5. QED
    BY <2>1, <2>2, <2>3, <2>4
<1>5. ASSUME NEW w \in Worker, NEW a \in Athlete, CacheBio(w, a) PROVE SettledInv'
  <2>1. UNCHANGED << espn, tree, resolved >>
    BY <1>5 DEF CacheBio
  <2>2. \A v \in Worker : job'[v] # Idle => job[v] # Idle /\ job'[v].event = job[v].event
    BY <1>5, <1>t DEF CacheBio
  <2>3. QED
    BY <2>1, <2>2
<1>5a. ASSUME NEW w \in Worker, WriteRaises(w) PROVE SettledInv'
  BY <1>5a, <1>t DEF WriteRaises, disk
<1>6. CASE Ends
  BY <1>6 DEF Ends, Exit, Abort, Kill, ProcessEnds, disk
<1>7. ASSUME NEW f \in Flags, NEW S \in SUBSET Season, NEW T \in SUBSET SeasonType, Start(f, S, T)
      PROVE SettledInv'
  BY <1>7 DEF Start, disk
<1>8. CASE Quiet
  BY <1>8 DEF Quiet
<1>9. QED
  BY StepKinds, <1>1, <1>2, <1>3, <1>4, <1>5, <1>5a, <1>6, <1>7, <1>8

\* Checkpoints say what ESPN says, for any number of games, workers and pulls:
\* fetch_game's early returns and its two kinds of checkpoint.
THEOREM PullCheckpoints == Spec => []CheckpointsAreSettled
<1>1. Spec => [](PullInv /\ SettledInv)
  BY PullInvInit, PullInvStep, SettledInit, SettledStep, PTL DEF Spec
<1>2. SettledInv => CheckpointsAreSettled
  BY DEF SettledInv
<1>3. QED
  BY <1>1, <1>2, PTL

-----------------------------------------------------------------------------
(***************************************************************************)
(* A game is torn between two of its own writes and nowhere else: by a      *)
(* kill, or by the second one raising.                                      *)
(***************************************************************************)
Halfway(w, e) == job[w] # Idle /\ job[w].event = e /\ job[w].step \in 2..LastStep

\* What a worker has done of its game so far, and who is to blame for a torn
\* one: a worker between two of its writes, a kill, or a write that raised.
TornInv ==
  /\ \A w \in Worker : job[w] # Idle => \A i \in 1..3 :
       i < job[w].step /\ GameTables[i] \in RowsOf[job[w].event]
         => << GameTables[i], job[w].event >> \in tree
  /\ \A e \in Event : Torn(e) => e \in cut \/ \E w \in Worker : Halfway(w, e)

\* The box tables are the first three writes of fetch_game, games first.
LEMMA BoxTablesAre == BoxTables = {GameTables[1], GameTables[2], GameTables[3]} /\ GameTables[1] = "games"
BY DEF BoxTables, GameTables

\* No game is stored at first.
LEMMA TornInit == Init => TornInv
BY DEF Init, TornInv, Torn, Stored

\* A running fetch_game has written what its step says, and only a kill or its
\* own write ends it between two box tables.
LEMMA TornStep == PullInv /\ TornInv /\ [Next]_vars => TornInv'
<1> SUFFICES ASSUME PullInv, TornInv, [Next]_vars PROVE TornInv'
  OBVIOUS
<1>t. /\ job \in [Worker -> {Idle} \cup [event : Event, step : 1..7, bios : SUBSET Athlete]]
      /\ pc \notin {"games", "extra"} => \A w \in Worker : job[w] = Idle
      /\ LastStep \in {3, 6}
  BY DEF PullInv, TypeOK, PhaseInv, AllIdle, LastStep
<1>1. ASSUME UNCHANGED << tree, job, flags, cut >> PROVE TornInv'
  BY <1>1 DEF TornInv, Torn, Stored, Halfway, LastStep
<1>2. ASSUME NEW e \in Event, NEW to \in {"pre", "final", "void"}, EspnMoves(e, to) PROVE TornInv'
  BY <1>1, <1>2 DEF EspnMoves, disk, plan, history
<1>3. ASSUME NEW w \in Worker, NEW e \in Event, FetchVoid(w, e) PROVE TornInv'
  BY <1>1, <1>3 DEF FetchVoid, plan, history
<1>4. CASE Quiet
  BY <1>1, <1>4 DEF Quiet
<1>5. ASSUME NEW f \in Flags, NEW S \in SUBSET Season, NEW T \in SUBSET SeasonType, Start(f, S, T)
      PROVE TornInv'
  <2>1. UNCHANGED << tree, job, cut >> /\ \A w \in Worker : job[w] = Idle
    BY <1>5, <1>t DEF Start, disk, history
  <2>2. QED
    BY <2>1 DEF TornInv, Torn, Stored, Halfway
<1>6. ASSUME NEW w \in Worker, NEW e \in Event, FetchFinal(w, e) PROVE TornInv'
  <2>1. /\ UNCHANGED << tree, flags, cut >> /\ job[w] = Idle
        /\ \A v \in Worker \ {w} : job'[v] = job[v]
        /\ job'[w].step = 1
    BY <1>6, <1>t DEF FetchFinal, Taking, disk, plan, history
  <2>2. \A v \in Worker, f \in Event : Halfway(v, f) => Halfway(v, f)'
    BY <2>1 DEF Halfway, LastStep
  <2>3. ASSUME NEW v \in Worker, job'[v] # Idle, NEW i \in 1..3, i < job'[v].step
        PROVE  job'[v] = job[v]
    BY <2>1, <2>3
  <2>4. (\A f \in Event : Torn(f)' = Torn(f)) /\ cut' = cut /\ tree' = tree
    BY <2>1 DEF Torn, Stored
  <2>5. QED
    BY <2>2, <2>3, <2>4 DEF TornInv
<1>7. ASSUME NEW w \in Worker, NEW a \in Athlete, CacheBio(w, a) PROVE TornInv'
  <2>1. /\ UNCHANGED << tree, flags, cut >> /\ job[w] # Idle /\ job[w].step > LastStep
        /\ \A v \in Worker \ {w} : job'[v] = job[v]
        /\ job'[w] # Idle => job'[w].event = job[w].event /\ job'[w].step = job[w].step
    BY <1>7, <1>t DEF CacheBio, plan, history
  <2>2. \A v \in Worker, f \in Event : Halfway(v, f) => Halfway(v, f)'
    BY <2>1, <1>t DEF Halfway, LastStep
  <2>3. \A v \in Worker : job'[v] # Idle =>
          job[v] # Idle /\ job'[v].event = job[v].event /\ job'[v].step = job[v].step
    BY <2>1
  <2>4. (\A e \in Event : Torn(e)' = Torn(e)) /\ cut' = cut /\ tree' = tree
    BY <2>1 DEF Torn, Stored
  <2>5. QED
    BY <2>2, <2>3, <2>4 DEF TornInv
<1>8. ASSUME NEW w \in Worker, WriteTable(w) PROVE TornInv'
  <2> DEFINE e == job[w].event
             k == job[w].step
             table == GameTables[k]
  <2>1. /\ job[w] # Idle /\ e \in Event /\ k \in 1..LastStep
        /\ UNCHANGED << flags, cut >>
        /\ tree' = IF table \in RowsOf[e] THEN tree \cup {<< table, e >>} ELSE tree
        /\ \A v \in Worker \ {w} : job'[v] = job[v]
        /\ job'[w] # Idle => job'[w].event = e /\ job'[w].step = k + 1
        /\ k < LastStep => job'[w] # Idle
    <3>1. job[w] \in [event : Event, step : 1..7, bios : SUBSET Athlete] /\ job[w] # Idle
      BY <1>8, <1>t DEF WriteTable
    <3>2. e \in Event /\ k \in 1..LastStep
      BY <1>8, <1>t, <3>1 DEF WriteTable
    <3>3. /\ UNCHANGED << flags, cut >>
          /\ tree' = IF table \in RowsOf[e] THEN tree \cup {<< table, e >>} ELSE tree
      BY <1>8 DEF WriteTable, plan, history
    <3>4. job' = [job EXCEPT ![w] = IF k = LastStep /\ job[w].bios = {} THEN Idle
                                    ELSE [job[w] EXCEPT !.step = @ + 1]]
      BY <1>8 DEF WriteTable
    <3>5. \A v \in Worker \ {w} : job'[v] = job[v]
      BY <3>4, <1>t
    <3>6. job'[w] = IF k = LastStep /\ job[w].bios = {} THEN Idle
                    ELSE [event |-> e, step |-> k + 1, bios |-> job[w].bios]
      BY <3>1, <3>4, <1>t
    <3>7. k < LastStep => job'[w] # Idle
      <4>1. k < LastStep => k + 1 \in 1..7
        BY <1>t, <3>2
      <4>2. job[w].bios \in SUBSET Athlete
        BY <3>1
      <4>3. QED
        BY <1>t, <3>2, <3>6, <4>1, <4>2, SettingAssumption DEF SettingAssumption
    <3>8. QED
      BY <3>1, <3>2, <3>3, <3>5, <3>6, <3>7
  <2>2. ASSUME NEW i \in 1..3, i <= k, GameTables[i] \in RowsOf[e]
        PROVE  << GameTables[i], e >> \in tree'
    <3>1. CASE i < k
      BY <2>1, <2>2, <3>1 DEF TornInv
    <3>2. CASE i = k
      BY <2>1, <2>2, <3>2
    <3>3. QED
      BY <2>1, <2>2, <3>1, <3>2, <1>t
  <2>3. ASSUME NEW v \in Worker, job'[v] # Idle, NEW i \in 1..3, i < job'[v].step,
               GameTables[i] \in RowsOf[job'[v].event]
        PROVE  << GameTables[i], job'[v].event >> \in tree'
    <3>1. CASE v = w
      BY <2>1, <2>2, <2>3, <3>1
    <3>2. CASE v # w
      BY <2>1, <2>3, <3>2 DEF TornInv
    <3>3. QED
      BY <3>1, <3>2
  <2>4. ASSUME NEW f \in Event, Torn(f)' PROVE f \in cut' \/ \E v \in Worker : Halfway(v, f)'
    <3>1. CASE f # e
      <4>1. Torn(f)
        BY <2>1, <2>4, <3>1 DEF Torn, Stored
      <4>2. \A v \in Worker : Halfway(v, f) => Halfway(v, f)'
        BY <2>1, <3>1 DEF Halfway, LastStep
      <4>3. QED
        BY <2>1, <4>1, <4>2 DEF TornInv
    <3>2. CASE f = e /\ k < LastStep
      BY <1>t, <2>1, <3>2 DEF Halfway, LastStep
    <3>3. CASE f = e /\ k >= LastStep
      <4>1. \A i \in 1..3 : GameTables[i] \in RowsOf[e] => << GameTables[i], e >> \in tree'
        BY <1>t, <2>1, <2>2, <3>3
      <4>2. QED
        BY <2>4, <3>3, <4>1, BoxTablesAre DEF Torn
    <3>4. QED
      BY <1>t, <2>1, <3>1, <3>2, <3>3
  <2>5. QED
    BY <2>3, <2>4 DEF TornInv
<1>8a. ASSUME NEW w \in Worker, WriteRaises(w) PROVE TornInv'
  <2>1. /\ UNCHANGED << tree, flags >> /\ job[w] # Idle
        /\ job' = [job EXCEPT ![w] = Idle]
        /\ cut' = IF job[w].step \in 2..LastStep THEN cut \cup {job[w].event} ELSE cut
    BY <1>8a DEF WriteRaises, disk, plan
  <2>2. job'[w] = Idle /\ \A v \in Worker \ {w} : job'[v] = job[v]
    BY <2>1, <1>t
  <2>3. LastStep' = LastStep /\ cut \subseteq cut'
    BY <2>1 DEF LastStep
  <2>4. ASSUME NEW e \in Event, NEW v \in Worker, Halfway(v, e) PROVE e \in cut' \/ Halfway(v, e)'
    BY <2>1, <2>2, <2>3, <2>4 DEF Halfway
  <2>5. ASSUME NEW e \in Event, Torn(e)' PROVE e \in cut' \/ \E v \in Worker : Halfway(v, e)'
    <3>1. Torn(e)
      BY <2>1, <2>5 DEF Torn, Stored
    <3>2. e \in cut \/ \E v \in Worker : Halfway(v, e)
      BY <3>1 DEF TornInv
    <3>3. QED
      BY <2>3, <2>4, <3>2
  <2>6. \A v \in Worker : job'[v] # Idle => job'[v] = job[v]
    BY <2>2
  <2>7. QED
    BY <2>1, <2>5, <2>6 DEF TornInv
<1>9. CASE Ends
  <2>1. tree' = tree /\ \A w \in Worker : job'[w] = Idle
    BY <1>9 DEF Ends, Exit, Abort, Kill, ProcessEnds, disk
  <2>2. CASE Exit \/ Abort
    <3>1. cut' = cut /\ \A w \in Worker : job[w] = Idle
      BY <2>2, <1>t DEF Exit, Abort, AllIdle
    <3>2. QED
      BY <2>1, <3>1 DEF TornInv, Torn, Stored, Halfway
  <2>3. CASE Kill
    <3>1. \A e \in Event, w \in Worker : Halfway(w, e) => e \in cut'
      BY <2>3 DEF Kill, Halfway
    <3>2. cut \subseteq cut'
      BY <2>3 DEF Kill
    <3>3. QED
      BY <2>1, <3>1, <3>2 DEF TornInv, Torn, Stored
  <2>4. QED
    BY <1>9, <2>2, <2>3 DEF Ends
<1>10. QED
  BY StepKinds, <1>2, <1>3, <1>4, <1>5, <1>6, <1>7, <1>8, <1>8a, <1>9

\* A stored game without its box scores is being fetched, or was cut short
\* between two of fetch_game's own writes, by a kill or by a write that raised:
\* another game's failure, a retry, --force or a second worker leaves none.
THEOREM PullTornIsCutShort == Spec => []TornIsCutShort
<1>1. Spec => [](PullInv /\ TornInv)
  BY PullInvInit, PullInvStep, TornInit, TornStep, PTL DEF Spec
<1>2. TornInv => TornIsCutShort
  BY DEF TornInv, TornIsCutShort, Halfway, InFlight
<1>3. QED
  BY <1>1, <1>2, PTL

-----------------------------------------------------------------------------
(***************************************************************************)
(* A completion marker vouches for every game listed, although the code     *)
(* compares two numbers: files on disk, and ids found.  The argument is     *)
(* that both numbers count the same set.  It needs every game on two        *)
(* schedules of which at most one is lost, and none on the scoreboard only. *)
(***************************************************************************)

\* What is counted: a scope's checkpoints are games some pull found listed, the
\* ids of this pull are all of those, and workers are in games of this pull; a
\* scope decided complete has a checkpoint for each.
CountInv ==
  /\ \A s \in Scope : known[s] \subseteq Listed(s)
  /\ \A s \in Scope : Checkpointed(s) \subseteq known[s]
  /\ pc \in {"games", "extra", "teamStats", "careers"} => known[scope] = ids
  /\ pc \in {"games", "extra"} =>
       todo \subseteq ids /\ \A w \in Worker : job[w] # Idle => job[w].event \in ids
  /\ pc \in {"teamStats", "careers"} /\ done => known[scope] \subseteq Checkpointed(scope)
  /\ MarkedScopeIsResolved

Marking == << known, promised, complete >>
Checkpoints == << tree, resolved >>

\* With at most one schedule lost, every listed game is still on another one.
LEMMA EveryGameIsRead ==
  ASSUME MaxLost <= 1, NEW lost \in Losses(Team), NEW e \in Event
  PROVE  TeamsOf[e] \ lost # {}
<1> SUFFICES ASSUME TeamsOf[e] \subseteq lost PROVE FALSE
  OBVIOUS
<1>1. PICK t \in TeamsOf[e], u \in TeamsOf[e] : t # u
  BY EventAssumption DEF EventAssumption
<1>2. IsFiniteSet(lost) /\ Cardinality(lost) \in Nat /\ Cardinality(lost) <= 1
  BY SettingAssumption, FS_Subset, FS_CardinalityType DEF Losses, SettingAssumption
<1>3. Cardinality({t} \cup {u}) = 2
  <2>1. IsFiniteSet({t}) /\ Cardinality({t}) = 1
    BY FS_Singleton
  <2>2. u \notin {t}
    BY <1>1
  <2>3. Cardinality({t} \cup {u}) = Cardinality({t}) + 1
    BY <2>1, <2>2, FS_AddElement
  <2>4. QED
    BY <2>1, <2>3
<1>4. {t} \cup {u} \in SUBSET lost
  BY <1>1
<1>5. Cardinality({t} \cup {u}) <= Cardinality(lost)
  BY <1>2, <1>4, FS_Subset
<1>6. QED
  BY <1>2, <1>3, <1>5

\* Files of two directories that share no game are as many as their games.
LEMMA DisjointCount ==
  ASSUME NEW A, NEW B, IsFiniteSet(A), IsFiniteSet(B), A \cap B = {}
  PROVE  IsFiniteSet(A \cup B) /\ Cardinality(A \cup B) = Cardinality(A) + Cardinality(B)
<1>1. /\ IsFiniteSet(A \cup B)
      /\ Cardinality(A \cup B) = Cardinality(A) + Cardinality(B) - Cardinality(A \cap B)
  BY FS_Union
<1>2. Cardinality(A) \in Nat /\ Cardinality(B) \in Nat /\ Cardinality(A \cap B) = 0
  BY FS_CardinalityType, FS_EmptySet
<1>3. QED
  BY <1>1, <1>2

\* _resolved_event_count counts a game once: it is stored or resolved, not both.
LEMMA CountIsOfGames ==
  ASSUME PullInv, CheckpointsAreSettled
  PROVE  /\ ResolvedEventCount = Cardinality(Checkpointed(scope))
         /\ IsFiniteSet(Checkpointed(scope))
<1> DEFINE A == Stored \cap In(scope)
           B == resolved \cap In(scope)
<1>1. IsFiniteSet(A) /\ IsFiniteSet(B)
  <2>1. A \in SUBSET Event /\ B \in SUBSET Event
    BY DEF In
  <2>2. QED
    BY <2>1, EventAssumption, FS_Subset DEF EventAssumption
<1>2. A \cap B = {}
  BY DEF CheckpointsAreSettled
<1>3. IsFiniteSet(A \cup B) /\ Cardinality(A \cup B) = Cardinality(A) + Cardinality(B)
  BY <1>1, <1>2, DisjointCount
<1>4. A \cup B = Checkpointed(scope)
  BY DEF Checkpointed
<1>5. QED
  BY <1>3, <1>4 DEF ResolvedEventCount

\* Nothing is counted at first.
LEMMA CountInit == Init => CountInv
BY DEF Init, CountInv, MarkedScopeIsResolved, Checkpointed, Stored

\* Steps that neither check a game nor mark a scope, and leave a pull of no scope.
LEMMA CountOutside ==
  ASSUME PullInv, CountInv,
         UNCHANGED << espn, Checkpoints, Marking >>,
         pc' \notin {"games", "extra", "teamStats", "careers"}
  PROVE  CountInv'
BY DEF CountInv, MarkedScopeIsResolved, Checkpointed, Stored, Listed, In, Checkpoints, Marking

\* Steps within a scope that check no game.
LEMMA CountWithin ==
  ASSUME PullInv, CountInv,
         UNCHANGED << espn, Checkpoints, Marking, pc, season, type, ids, done >>,
         todo' \subseteq todo \/ pc \notin {"games", "extra"},
         \A w \in Worker : job'[w] # Idle =>
           (job[w] # Idle /\ job'[w].event = job[w].event) \/ job'[w].event \in todo
  PROVE  CountInv'
BY DEF CountInv, MarkedScopeIsResolved, Checkpointed, Stored, Listed, In, scope, Checkpoints, Marking

\* Steps of a worker that check one game of the pull.
LEMMA CountChecked ==
  ASSUME PullInv, CountInv, NEW e \in ids, pc \in {"games", "extra"},
         UNCHANGED << espn, Marking, pc, season, type, ids, done >>,
         tree \subseteq tree', resolved \subseteq resolved',
         \A f \in Event : << "games", f >> \in tree' => << "games", f >> \in tree \/ f = e,
         resolved' \subseteq resolved \cup {e},
         todo' \subseteq todo,
         \A w \in Worker : job'[w] # Idle => job[w] # Idle /\ job'[w].event = job[w].event
  PROVE  CountInv'
<1>1. scope \in Scope /\ known \in [Scope -> SUBSET Event] /\ ids \subseteq Event
  BY DEF PullInv, TypeOK, PhaseInv, Scope, scope
<1>2. e \in Listed(scope)
  BY <1>1 DEF CountInv
<1>3. ASSUME NEW s \in Scope PROVE Checkpointed(s) \subseteq Checkpointed(s)' /\ Checkpointed(s)' \subseteq known[s]
  <2>1. Checkpointed(s) \subseteq known[s]
    BY DEF CountInv
  <2>2. s = scope => e \in known[s]
    BY DEF CountInv
  <2>3. ASSUME NEW f \in Checkpointed(s)' PROVE f \in known[s]
    BY <1>2, <2>1, <2>2, <2>3 DEF Checkpointed, Stored, In, Listed
  <2>4. Checkpointed(s) \subseteq Checkpointed(s)'
    BY DEF Checkpointed, Stored, In
  <2>5. QED
    BY <2>3, <2>4
<1>4. complete \subseteq Scope
  BY DEF PullInv, TypeOK
<1>5. scope' = scope
  BY DEF scope
<1>6. QED
  BY <1>1, <1>3, <1>4, <1>5 DEF CountInv, MarkedScopeIsResolved, Listed, Marking

\* The steps that decide: what the schedules list, what is counted, what a
\* marker vouches for.  The others fall under the three lemmas above.
LEMMA CountStep ==
  ASSUME MaxLost <= 1, Unscheduled = {},
         PullInv, CheckpointsAreSettled, CountInv, [Next]_vars
  PROVE  CountInv'
<1> DEFINE InScope == {"games", "extra", "teamStats", "careers"}
<1>t. /\ known \in [Scope -> SUBSET Event] /\ promised \in [Scope -> SUBSET Event]
      /\ complete \subseteq Scope /\ ids \subseteq Event
      /\ pc \in InScope => scope \in Scope
      /\ pc \notin {"games", "extra"} => AllIdle
      /\ job \in [Worker -> {Idle} \cup [event : Event, step : 1..7, bios : SUBSET Athlete]]
  BY DEF PullInv, TypeOK, PhaseInv, Scope, scope
<1>1. CASE Rollover
  BY <1>1, CountWithin DEF Rollover, disk, plan, history, Checkpoints, Marking
<1>2. ASSUME NEW e \in Event, NEW to \in {"pre", "final", "void"}, EspnMoves(e, to)
      PROVE CountInv'
  <2>1. \A s \in Scope : Listed(s) \subseteq Listed(s)'
    BY <1>2 DEF EspnMoves, Listed, In, PullInv, TypeOK
  <2>2. \A s : Checkpointed(s)' = Checkpointed(s)
    BY <1>2 DEF EspnMoves, Checkpointed, Stored, In, disk
  <2>3. UNCHANGED << Marking, pc, season, type, ids, todo, job, done >>
    BY <1>2 DEF EspnMoves, disk, plan, history, Marking
  <2>4. QED
    BY <1>t, <2>1, <2>2, <2>3 DEF CountInv, MarkedScopeIsResolved, scope, Marking
<1>3. ASSUME NEW f, NEW S, NEW T, Start(f, S, T) PROVE CountInv'
  BY <1>3, CountOutside DEF Start, disk, plan, history, Checkpoints, Marking
<1>4. ASSUME NEW b, FetchTeams(b) \/ CloseSeason(b) \/ WriteGlossary(b) PROVE CountInv'
  BY <1>4, CountOutside DEF FetchTeams, CloseSeason, WriteGlossary, disk, plan, history, Checkpoints, Marking
<1>5. ASSUME NEW x, NEW b, NextSeason(x) \/ FetchSeasonTable(x, b) \/ TablesOver \/ SkipScope(x)
      PROVE CountInv'
  BY <1>5, CountOutside
  DEF NextSeason, FetchSeasonTable, TablesOver, SkipScope, disk, plan, history, Checkpoints, Marking
<1>6. CASE Exit \/ Abort \/ Kill
  BY <1>6, CountOutside DEF Exit, Abort, Kill, ProcessEnds, disk, Checkpoints, Marking
<1>7. ASSUME NEW t \in SeasonType, NEW lost \in Losses(Team), EventIdsFor(t, lost) PROVE CountInv'
  <2> DEFINE s == << season, t >>
  <2>1. /\ season \in Season /\ s \in Scope /\ AllIdle
        /\ scope' = s
        /\ pc' = "games" /\ todo' = ids'
        /\ UNCHANGED << espn, Checkpoints, promised, complete, job >>
    BY <1>7, <1>t DEF EventIdsFor, PullInv, PhaseInv, Scope, scope, disk, Checkpoints
  <2>2. /\ ids' = {e \in Scheduled(s) : TeamsOf[e] \ lost # {}}
        /\ known' = [known EXCEPT ![s] = @ \cup Scheduled(s)]
    BY <1>7 DEF EventIdsFor
  <2>3. Scheduled(s) = Listed(s) /\ Listed(s) \subseteq Event
    BY DEF Scheduled, Listed, In
  <2>4. ids' = Listed(s)
    BY <1>7, <2>2, <2>3, EveryGameIsRead
  <2>5. known[s] \subseteq Listed(s)
    BY <2>1 DEF CountInv
  <2>6. known' = [known EXCEPT ![s] = Listed(s)]
    BY <2>1, <2>2, <2>3, <2>5, <1>t
  <2>7. \A r \in Scope : known'[r] = IF r = s THEN Listed(s) ELSE known[r]
    BY <2>1, <2>6, <1>t
  <2>8. \A r \in Scope : Listed(r)' = Listed(r) /\ Checkpointed(r)' = Checkpointed(r)
    BY <2>1 DEF Listed, In, Checkpointed, Stored, Checkpoints
  <2>9. \A r \in Scope : known[r] \subseteq known'[r] /\ known'[r] \subseteq Listed(r)'
    BY <2>5, <2>7, <2>8 DEF CountInv
  <2>10. MarkedScopeIsResolved'
    BY <1>t, <2>1, <2>8 DEF CountInv, MarkedScopeIsResolved
  <2>11. known'[scope'] = ids'
    BY <2>1, <2>4, <2>7
  <2>12. QED
    BY <2>1, <2>8, <2>9, <2>10, <2>11 DEF CountInv, AllIdle
<1>8. ASSUME NEW lost, ScoreboardEventIds(lost) PROVE CountInv'
  <2> DEFINE found == {e \in Listed(scope) \ ids : DayOf[e] \in ScannedDays \ lost}
  <2>1. /\ AllIdle /\ pc = "games" /\ pc' = "extra" /\ scope' = scope
        /\ todo' = found /\ ids' = ids \cup found
        /\ known' = [known EXCEPT ![scope] = @ \cup found]
        /\ UNCHANGED << espn, Checkpoints, promised, complete, job >>
    BY <1>8 DEF ScoreboardEventIds, PhaseOver, scope, disk, plan, Checkpoints
  <2>2. scope \in Scope
    BY <1>t, <2>1
  <2>3. \A r \in Scope : known'[r] = IF r = scope THEN ids \cup found ELSE known[r]
    BY <1>t, <2>1, <2>2 DEF CountInv
  <2>4. \A r \in Scope : Listed(r)' = Listed(r) /\ Checkpointed(r)' = Checkpointed(r)
    BY <2>1 DEF Listed, In, Checkpointed, Stored, Checkpoints
  <2>5. \A r \in Scope : known[r] \subseteq known'[r] /\ known'[r] \subseteq Listed(r)'
    BY <2>1, <2>2, <2>3, <2>4 DEF CountInv
  <2>6. MarkedScopeIsResolved'
    BY <1>t, <2>1, <2>4 DEF CountInv, MarkedScopeIsResolved
  <2>7. QED
    BY <2>1, <2>2, <2>3, <2>4, <2>5, <2>6 DEF CountInv, AllIdle
<1>9. ASSUME NEW w \in Worker, NEW e \in Event,
              SkipGame(w, e) \/ FetchFinal(w, e) \/ FetchNothing(w, e) \/ FetchRaises(w, e)
      PROVE CountInv'
  BY <1>9, <1>t, CountWithin
  DEF SkipGame, FetchFinal, FetchNothing, FetchRaises, Taking, disk, plan, history, Checkpoints, Marking
<1>10. ASSUME NEW w \in Worker, NEW e \in Event, FetchVoid(w, e) PROVE CountInv'
  <2>1. e \in ids /\ pc \in {"games", "extra"}
    BY <1>10 DEF FetchVoid, Taking, CountInv
  <2>2. QED
    BY <1>10, <2>1, CountChecked DEF FetchVoid, Taking, plan, history, Marking
<1>11. ASSUME NEW w \in Worker, WriteTable(w) PROVE CountInv'
  <2>1. job[w] # Idle
    BY <1>11 DEF WriteTable
  <2>2. pc \in {"games", "extra"}
    BY <1>t, <2>1 DEF AllIdle
  <2>3. job[w].event \in ids
    BY <2>1, <2>2 DEF CountInv
  <2>4. /\ tree \subseteq tree'
        /\ \A f \in Event : << "games", f >> \in tree' => << "games", f >> \in tree \/ f = job[w].event
        /\ UNCHANGED << espn, Marking, pc, season, type, ids, done, resolved, todo >>
    BY <1>11 DEF WriteTable, plan, history, Marking
  <2>5. \A v \in Worker : job'[v] # Idle => job[v] # Idle /\ job'[v].event = job[v].event
    BY <1>11, <1>t DEF WriteTable
  <2>6. QED
    BY <2>2, <2>3, <2>4, <2>5, CountChecked
<1>12. ASSUME NEW w \in Worker, NEW a \in Athlete, CacheBio(w, a) PROVE CountInv'
  <2>1. \A v \in Worker : job'[v] # Idle => job[v] # Idle /\ job'[v].event = job[v].event
    BY <1>12, <1>t DEF CacheBio
  <2>2. UNCHANGED << espn, Checkpoints, Marking, pc, season, type, ids, done, todo >>
    BY <1>12 DEF CacheBio, plan, history, Checkpoints, Marking
  <2>3. QED
    BY <2>1, <2>2, CountWithin
<1>12a. ASSUME NEW w \in Worker, WriteRaises(w) PROVE CountInv'
  <2>1. \A v \in Worker : job'[v] # Idle => job[v] # Idle /\ job'[v].event = job[v].event
    BY <1>12a, <1>t DEF WriteRaises
  <2>2. UNCHANGED << espn, Checkpoints, Marking, pc, season, type, ids, done, todo >>
    BY <1>12a DEF WriteRaises, disk, plan, Checkpoints, Marking
  <2>3. QED
    BY <2>1, <2>2, CountWithin
<1>13. ASSUME NEW x, NEW b, FetchTeamStats(x, b) \/ FetchCareer(x, b) \/ StatsRaise(x) PROVE CountInv'
  BY <1>13, <1>t, CountWithin
  DEF FetchTeamStats, FetchCareer, StatsRaise, disk, plan, history, Checkpoints, Marking
<1>14. CASE CloseGames
  <2>1. /\ pc \in {"games", "extra"} /\ AllIdle /\ pc' = "teamStats" /\ scope' = scope
        /\ done' = (ids # {} /\ ResolvedEventCount >= Cardinality(ids))
        /\ UNCHANGED << espn, Checkpoints, Marking, ids >>
    BY <1>14 DEF CloseGames, PhaseOver, scope, disk, plan, Checkpoints, Marking
  <2>2. scope \in Scope /\ known[scope] = ids /\ Checkpointed(scope) \subseteq ids
    BY <1>t, <2>1 DEF CountInv
  <2>3. ASSUME done' PROVE Checkpointed(scope) = ids
    <3>1. IsFiniteSet(ids)
      BY <1>t, EventAssumption, FS_Subset DEF EventAssumption
    <3>2. Cardinality(Checkpointed(scope)) >= Cardinality(ids)
      BY <2>1, <2>3, CountIsOfGames
    <3>3. /\ Cardinality(Checkpointed(scope)) <= Cardinality(ids)
          /\ Cardinality(Checkpointed(scope)) = Cardinality(ids) => Checkpointed(scope) = ids
      BY <2>2, <3>1, FS_Subset
    <3>4. Cardinality(Checkpointed(scope)) \in Nat /\ Cardinality(ids) \in Nat
      BY <3>1, CountIsOfGames, FS_CardinalityType
    <3>5. QED
      BY <3>2, <3>3, <3>4
  <2>4. \A r : Listed(r)' = Listed(r) /\ Checkpointed(r)' = Checkpointed(r)
    BY <2>1 DEF Listed, In, Checkpointed, Stored, Checkpoints
  <2>5. QED
    BY <2>1, <2>2, <2>3, <2>4 DEF CountInv, MarkedScopeIsResolved, Marking
<1>15. CASE TeamStatsOver
  BY <1>15 DEF TeamStatsOver, disk, plan, history, CountInv, MarkedScopeIsResolved, Checkpointed,
     Stored, Listed, In, scope
<1>16. CASE CloseScope
  <2>1. /\ pc = "careers" /\ pc' = "type"
        /\ complete' = IF done THEN complete \cup {scope} ELSE complete
        /\ promised' = IF done THEN [promised EXCEPT ![scope] = known[scope]] ELSE promised
        /\ UNCHANGED << espn, Checkpoints, known >>
    BY <1>16 DEF CloseScope, Checkpoints
  <2>2. scope \in Scope /\ (done => known[scope] \subseteq Checkpointed(scope))
    BY <1>t, <2>1 DEF CountInv
  <2>3. \A r : Listed(r)' = Listed(r) /\ Checkpointed(r)' = Checkpointed(r)
    BY <2>1 DEF Listed, In, Checkpointed, Stored, Checkpoints
  <2>4. \A r \in complete' : promised'[r] \subseteq Checkpointed(r)
    BY <1>t, <2>1, <2>2 DEF CountInv, MarkedScopeIsResolved
  <2>5. QED
    BY <2>1, <2>3, <2>4 DEF CountInv, MarkedScopeIsResolved
<1>17. CASE UNCHANGED vars
  BY <1>17, <1>t, CountWithin DEF vars, disk, plan, history, Checkpoints, Marking
<1>18. QED
  BY <1>1, <1>2, <1>3, <1>4, <1>5, <1>6, <1>7, <1>8, <1>9, <1>10, <1>11, <1>12, <1>13, <1>14,
     <1>12a, <1>15, <1>16, <1>17
  DEF Next, Espn, Launch, Working, FetchGame

\* A completion marker vouches for every game the schedules listed, for any
\* number of them, of workers, failures and kills: season_complete compares two
\* numbers, and both count games of one set.  It needs every game on a schedule
\* and at most one schedule of a pass answered with nothing; MCPullFinals shows
\* what happens to games that are on the scoreboard only.
THEOREM PullMarkers ==
  ASSUME MaxLost <= 1, Unscheduled = {}
  PROVE  Spec => []MarkedScopeIsResolved
<1>1. Init => PullInv /\ SettledInv /\ CountInv
  BY PullInvInit, SettledInit, CountInit
<1>2. PullInv /\ SettledInv /\ CountInv /\ [Next]_vars => (PullInv /\ SettledInv /\ CountInv)'
  BY PullInvStep, SettledStep, CountStep DEF SettledInv
<1>3. Spec => [](PullInv /\ SettledInv /\ CountInv)
  BY <1>1, <1>2, PTL DEF Spec
<1>4. CountInv => MarkedScopeIsResolved
  BY DEF CountInv
<1>5. QED
  BY <1>3, <1>4, PTL
==============================================================================
