------------------------------ MODULE MCAnswers ------------------------------
(* What fills the warehouse, and what is answered from it: pull after pull   *)
(* of a season of one game, each with its rebuild (FetchCommand); and the    *)
(* readers of what they loaded, each by itself.  They share no state: a      *)
(* behaviour is of one of them, and `part` says of which.                    *)
EXTENDS MCFetchCommand, MCPlan, PeriodLines, Streaks, Absences, Names, Days

VARIABLE part

\* Presence: two teams over three seasons of one to three days.
MCDayYears == <<1, 1, 1, 2, 3>>
MCGameDaysOf == "A" :> {1, 2, 4, 5} @@ "B" :> {2, 3, 5}
For(side, as) == [team |-> side, did |-> as]
\* What the two players' rows may be on a day, and the games seen; besides, the
\* first team's game may be one no row is in.
KindsOf(mates, others, teams, unseen) ==
  {[rows |-> [mate |-> m, other |-> o], seen |-> teams] :
     m \in mates \cup {NoBoxRow}, o \in others \cup {NoBoxRow}}
  \cup {[rows |-> [mate |-> NoBoxRow, other |-> NoBoxRow], seen |-> teams \ unseen]}
MCDayKinds == <<
  KindsOf({For("A", "started")}, {For("A", "started")}, {"A"}, {"A"}),
  KindsOf({For("A", as) : as \in {"sat", "bench", "started"}},
          {For("A", "started"), For("B", "started")}, {"A", "B"}, {"A"}),
  KindsOf({For("B", "started")}, {}, {"B"}, {}),
  KindsOf({For("A", "bench")}, {For("A", "bench")}, {"A"}, {"A"}),
  KindsOf({For("B", "started")}, {For("A", "sat")}, {"A", "B"}, {}) >>

\* Days: three seasons, the second of which ended in October.
Dealt(day, year, as) == [day |-> day, season |-> year, type |-> as]
MCSeasonGames ==
  { Dealt(20181225, 2019, "regular"), Dealt(20190405, 2019, "regular"), Dealt(20190610, 2019, "postseason"),
    Dealt(20191025, 2020, "regular"), Dealt(20200210, 2020, "regular"), Dealt(20200810, 2020, "regular"),
    Dealt(20200920, 2020, "postseason"), Dealt(20201005, 2020, "postseason"),
    Dealt(20201225, 2021, "regular"), Dealt(20210410, 2021, "regular"), Dealt(20210620, 2021, "postseason") }
MCAskedDays == {g.day : g \in MCSeasonGames} \cup {20190702, 20191001, 20200101, 20201130}

\* Names: three namesakes over two seasons, the second's log with a row its box
\* scores lack.
NamesakeRow(side, of) == [team |-> side, tables |-> of]
MCNamesakeRows ==
  << {NamesakeRow(NoTeam, {}), NamesakeRow("B", {"box"})},
     {NamesakeRow(NoTeam, {}), NamesakeRow("A", {"box", "log"}), NamesakeRow(NoTeam, {"log"})} >>

---------------------------------------------------------------------------
readerVars == << planVars, periodVars, streakVars, presenceVars, namesVars, onRecord >>

\* What each part does not own is left where it was.
Commands   == part = "commands" /\ UNCHANGED << part, readerVars >>
OfPlan     == part = "plan" /\ UNCHANGED << part, cvars, periodVars, streakVars, presenceVars, namesVars, onRecord >>
OfPeriods  == part = "periods" /\ UNCHANGED << part, cvars, planVars, streakVars, presenceVars, namesVars, onRecord >>
OfStreaks  == part = "streaks" /\ UNCHANGED << part, cvars, planVars, periodVars, presenceVars, namesVars, onRecord >>
OfPresence == part = "presence" /\ UNCHANGED << part, cvars, planVars, periodVars, streakVars, namesVars, onRecord >>
OfNames    == part = "names" /\ UNCHANGED << part, cvars, planVars, periodVars, streakVars, presenceVars, onRecord >>
OfDays     == part = "days" /\ UNCHANGED << part, cvars, planVars, periodVars, streakVars, presenceVars, namesVars >>

MCInit ==
  /\ part \in {"commands", "plan", "periods", "streaks", "presence", "names", "days"}
  /\ CInit
  /\ IF part = "plan" THEN PlanInit
     ELSE asked = [relation |-> "team", shape |-> TeamSum, cells |-> {}, team |-> TRUE, halves |-> FALSE]
          /\ PlanInit
  /\ IF part = "periods"
     THEN /\ PeriodsInit /\ 1 \in stored /\ boxLine[1] = "full"
          /\ unvalued \subseteq IF stat = "points" THEN {2} ELSE {}
     ELSE /\ stat = "points" /\ did = [g \in PlayedGames |-> [p \in Periods |-> 0]] /\ held = did
          /\ unvalued = {} /\ boxLine = [g \in PlayedGames |-> "dnp"] /\ stored = PlayedGames
          /\ PeriodsInit
  /\ IF part = "streaks" THEN StreaksInit ELSE traded = LastGame /\ StreaksInit
  /\ IF part = "presence" THEN PresenceInit ELSE role = "none" /\ PresenceInit
  /\ IF part = "names" THEN NamesInit
     ELSE match = [p \in Namesakes |-> "none"] /\ teamsWord = FALSE /\ absent = {} /\ NamesInit
  /\ DaysInit

MCNext ==
  \/ Commands /\ Pulling
  \/ Commands /\ EndsEarly
  \/ Commands /\ RebuildChanged
  \/ Commands /\ Outside
  \/ Commands /\ Load(Tables)
  \/ Commands /\ \E t \in Tables : Load({t})
  \/ OfPlan /\ (PlanPoint \/ Read \/ ReadSeasonFirst \/ RunTeam \/ Run \/ PlanOver)
  \/ \E tables \in SUBSET PeriodTables : OfPeriods /\ LoadTables(tables)
  \/ \E g \in PlayedGames : OfPeriods /\ FetchPlays(g)
  \/ OfStreaks /\ (PlayGame \/ SeasonsEnd)
  \/ OfPresence /\ (PlayDay \/ PresenceOver)
  \/ OfNames /\ (PlaySeason \/ NamesOver)
  \/ OfDays /\ (FileGame \/ DaysOver)

MCSpec == MCInit /\ [][MCNext]_<<part, cvars, readerVars>>

MCView ==
  IF part = "commands" THEN << part, View, readerVars >> ELSE << part, cvars, readerVars >>
=============================================================================
