---------------------------- MODULE FetchCommand ----------------------------
(***************************************************************************)
(* `association data pull` whole: the pull (Pull), then _rebuild_changed    *)
(* over the DuckDB warehouse, which reloads only the tables the pull says   *)
(* it wrote.  What the pull says is Pipeline.written, kept in memory by     *)
(* _write_rows: it ends with the process.  One command runs at a time; the  *)
(* rebuild is one step here, and Warehouse takes it apart.                  *)
(*                                                                         *)
(* The warehouse is abstracted to the tables it holds an old copy of.       *)
(***************************************************************************)
EXTENDS Pull

VARIABLES
  built,     \* there is a warehouse file
  stale,     \* tables whose slice of the tree changed since they were loaded
  early,     \* history: a pull ended without its rebuild since the last whole load
  partial    \* history: a load of one table made the warehouse, no whole load since

cvars == << built, stale, early, partial, vars >>

Tables == GameTable \cup SeasonTables \cup
          {"teams", "players", "team_season_stats", "player_season_stats", Fingerprint}

\* a table's slice of the tree (stat_glossary's content is not modelled)
Slice(t) ==
  CASE t \in GameTable -> {e \in Event : << t, e >> \in tree}
    [] t = "teams" -> teamsFile
    [] t = "players" -> players
    [] t = "team_season_stats" -> teamStats
    [] t = "player_season_stats" -> careers
    [] OTHER -> [s \in Season |-> seasonFiles[<< t, s >>]]

HasFiles(t) ==
  CASE t \in GameTable \cup {"players"} -> Slice(t) # {}
    [] t = "teams" -> Slice(t)
    [] OTHER -> \E k \in DOMAIN Slice(t) : Slice(t)[k] # None

CTypeOK == TypeOK /\ stale \subseteq Tables /\ {built, early, partial} \subseteq BOOLEAN
CInit == Init /\ built = FALSE /\ stale = {} /\ early = FALSE /\ partial = FALSE

\* a step over the tree alone
Ages == /\ stale' = IF built THEN stale \cup {t \in Tables : Slice(t)' # Slice(t)} ELSE {}
        /\ UNCHANGED << built, partial >>

Loads(tables) ==
  /\ built' = TRUE
  /\ stale' = (IF built THEN stale ELSE {t \in Tables : HasFiles(t)}) \ tables
  /\ early' = (tables # Tables /\ early)
  /\ partial' = (tables # Tables /\ (partial \/ ~built))

\* _rebuild_changed: a missing warehouse is built in full, a pull that wrote
\* nothing leaves it as it is, any other reloads the tables it wrote
RebuildChanged ==
  /\ pc = "done"
  /\ Loads(IF built THEN written ELSE Tables)
  /\ ProcessEnds
  /\ UNCHANGED << espn, current, disk, cut, known, promised >>

\* `association data load`, or with --tables of one table: a longer list ends
\* where a load for each of its tables does
Load(tables) == pc = "idle" /\ Loads(tables) /\ UNCHANGED vars

Pulling == Working /\ ~Abort /\ Ages /\ early' = early

\* the command ends without a rebuild: --fetch-only, an error, a kill
EndsEarly == (Exit \/ Abort \/ Kill) /\ Ages /\ early' = (early \/ (built /\ written # {}))

Outside == (Espn \/ Launch) /\ UNCHANGED << built, stale, early, partial >>

CNext == Pulling \/ EndsEarly \/ RebuildChanged \/ Outside
         \/ Load(Tables) \/ \E t \in Tables : Load({t})
CSpec == CInit /\ [][CNext]_cvars /\ WF_cvars(Pulling \/ EndsEarly \/ RebuildChanged)

-----------------------------------------------------------------------------
\* Every write of a pull reaches `written` (_write_rows): once loaded whole, and
\* as long as every pull got to its rebuild, the warehouse is behind the tree by what the running
\* one wrote and will reload, and between commands by nothing.
NothingForgotten == ~early /\ ~partial => stale \subseteq written

\* What _rebuild_changed's docstring says of a pull that wrote nothing: there
\* is nothing to rebuild, the warehouse already holds the tree.
NothingWrittenNothingStale == pc = "done" /\ built /\ written = {} /\ ~partial => stale = {}
=============================================================================
