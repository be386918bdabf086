------------------------------- MODULE MCData -------------------------------
(* The parts that work alone, side by side: what a request, a file, a date,  *)
(* a name, a note or a row goes through between ESPN and the warehouse.      *)
(* They share no state: a behaviour is of one of them, and `part` says of    *)
(* which; the others stay in one of their initial states.                    *)
EXTENDS Client, Storage, NetPoints, Notes, Season, SeasonTotals, RealGames, Athletes,
        Warehouse, MCTeamBoxRepair

CONSTANTS b1, b2, r1, f1, f2, f3, f4, c1, c2, w1, w2, p1, p2, p3, p4, t1, t2, t3, t4, t5

VARIABLE part

---------------------------------------------------------------------------
\* Client: two requests at once, or a collection by itself, which has three items
\* where it grew before it was read.  All that threads share is the throttle, and
\* two requests share it; what a read ends with is of its own thread.
MCThreads == {c1, c2}
MCCallsOf == c1 :> {"collection", "json"} @@ c2 :> {"json"}
ReadsAlone == \A t \in Threads : call[t] # "idle" /\ asks[t] = "collection" =>
                \A o \in Threads \ {t} : call[o] = "idle"
MCCollection == <<1, 2>>
MCEnvelopes == {{"count", "pageCount"}, {"pageCount"}}

\* Storage: one bio two threads write, and a marker.
MCPaths == {"bio"}
MCMarkers == {"marker"}
MCWriters == {w1, w2}

\* Notes: four requests.
MCPosters == {p1, p2, p3, p4}

\* Season: both rules of this calendar that games are stored under.
MCYears == 1985..2026

\* RealGames: two opening series and a final, two of whose games are listed
\* twice or by date only, and three rows that are no game.
PostseasonRow(event, day, pair, time, won, of) ==
  [event |-> event, day |-> day, pair |-> pair, time |-> time, won |-> won, game |-> of]
MCGameRows ==
  { PostseasonRow(1, 1, {t1, t2}, "tip", TRUE, "a1"),
    PostseasonRow(2, 3, {t1, t2}, "tip", TRUE, "a2"),
    PostseasonRow(3, 2, {t3, t4}, "tip", TRUE, "b1"),
    PostseasonRow(4, 2, {t3, t4}, "date", TRUE, "b1"),
    PostseasonRow(5, 5, {t1, t3}, "tip", TRUE, "f1"),
    PostseasonRow(6, 5, {t1, t3}, "tip", TRUE, "f1"),
    PostseasonRow(8, 0, {t1, t3}, "date", TRUE, NoGame),
    PostseasonRow(9, 1, {t3, t4}, "tip", FALSE, NoGame),
    PostseasonRow(10, 1, {t4, t5}, "tip", TRUE, NoGame) }
MCGames == {"a1", "a2", "b1", "f1"}
MCRoundOf == [pair \in {{t1, t2}, {t3, t4}, {t1, t3}} |-> IF pair = {t1, t3} THEN 2 ELSE 1]
MCKnownTeams == {t1, t2, t3, t4}
\* One of the rows that are no game at a time, and sides swapped in a row alone.
FewOddRows ==
  /\ Cardinality({row \in listing : row.game = NoGame}) <= 1
  /\ swapped => Cardinality(listing) <= 1

\* Athletes: a player filed under two ids, and his son.
MCNameOf == 1 :> "payton" @@ 2 :> "payton" @@ 3 :> "payton ii"
MCKeyOf == "payton" :> "payton" @@ "payton ii" :> "payton"
MCShapes == {"line a", "line b", "dnp", "ghost"}
\* One name's rows are followed in a behaviour: what is said of them is said of
\* one name at a time.
NoneGiven == \A name \in Names : given[name] = NoAnswer

\* Warehouse: a full builder, a partial one and a query.
MCBuilder == {b1, b2}
MCReader == {r1}
MCTable == {"team_box_stats", "standings"}
MCFile == {f1, f2, f3, f4}
OneFull == b1 :> {"full"} @@ b2 :> {"partial"}

---------------------------------------------------------------------------
Parts == { "client", "storage", "netpoints", "notes", "clock", "totals", "games",
           "athletes", "box", "builds" }

\* What each part does not own is left where it was.
OfClient  == part = "client" /\ UNCHANGED << part, warehouseVars, storageVars, netPointsVars, noteVars, clockVars, totalsVars,
              gamesVars, athletesVars, vars >>
OfStorage == part = "storage" /\ UNCHANGED << part, warehouseVars, clientVars, netPointsVars, noteVars, clockVars, totalsVars,
              gamesVars, athletesVars, vars >>
OfDates   == part = "netpoints" /\ UNCHANGED << part, warehouseVars, clientVars, storageVars, noteVars, clockVars, totalsVars,
              gamesVars, athletesVars, vars >>
OfNotes   == part = "notes" /\ UNCHANGED << part, warehouseVars, clientVars, storageVars, netPointsVars, clockVars, totalsVars,
              gamesVars, athletesVars, vars >>
OfClock   == part = "clock" /\ UNCHANGED << part, warehouseVars, clientVars, storageVars, netPointsVars, noteVars, totalsVars,
              gamesVars, athletesVars, vars >>
OfTotals  == part = "totals" /\ UNCHANGED << part, warehouseVars, clientVars, storageVars, netPointsVars, noteVars, clockVars,
              gamesVars, athletesVars, vars >>
OfGames   == part = "games" /\ UNCHANGED << part, warehouseVars, clientVars, storageVars, netPointsVars, noteVars, clockVars,
              totalsVars, athletesVars, vars >>
OfNames   == part = "athletes" /\ UNCHANGED << part, warehouseVars, clientVars, storageVars, netPointsVars, noteVars, clockVars,
              totalsVars, gamesVars, vars >>
OfBox     == part = "box" /\ UNCHANGED << part, warehouseVars, clientVars, storageVars, netPointsVars, noteVars, clockVars,
              totalsVars, gamesVars, athletesVars >>
OfBuilds  == part = "builds" /\ UNCHANGED << part, clientVars, storageVars, netPointsVars, noteVars, clockVars,
              totalsVars, gamesVars, athletesVars, vars >>

MCInit ==
  /\ part \in Parts /\ WarehouseInit
  /\ ClientInit /\ StorageInit /\ NotesInit /\ AthletesInit
  /\ IF part = "netpoints" THEN NetPointsInit
     ELSE calendar = [d \in Days |-> NoEvent] /\ NetPointsInit
  /\ IF part = "clock" THEN ClockInit
     ELSE /\ wall = 24 * Ordinal(2000, 1, 1) /\ utc = wall + 5
          /\ daylight = FALSE /\ until = utc
  /\ IF part = "totals" THEN TotalsInit
     ELSE played = [t \in {CHOOSE t \in Stints : TRUE} |-> [games |-> 1, points |-> 0]] /\ TotalsInit
  /\ IF part = "games" THEN GamesInit /\ FewOddRows
     ELSE listing = {} /\ scored = {} /\ listed = {} /\ swapped = FALSE /\ GamesInit
  /\ IF part = "box" THEN Init
     ELSE season = 2013 /\ seasonType = 2 /\ truth = [c \in TeamColumns |-> 1] /\ box = "full"
          /\ team = None /\ players = FALSE

MCNext ==
  \/ OfClient /\ (TimePasses \/ EspnCollection \/ ClientOver)
  \/ \E t \in Threads : \/ OfClient /\ BeginCall(t) /\ ReadsAlone'
                        \/ OfClient /\ Throttle(t)
                        \/ OfClient /\ TakeTurn(t)
                        \/ OfClient /\ Attempt(t)
                        \/ OfClient /\ GetJson(t)
                        \/ OfClient /\ UnreadablePage(t)
                        \/ OfClient /\ ReadPage(t)
                        \/ OfClient /\ CountItems(t)
  \/ OfStorage /\ (KillPull \/ StorageOver)
  \/ \E w \in Writers, p \in Paths \cup Markers :
       \/ OfStorage /\ SeeMissing(w, p)
       \/ OfStorage /\ OpenTable(w, p)
       \/ OfStorage /\ p \in Paths /\ \E i \in {1, 2} : WritePiece(w, p, i)
       \/ OfStorage /\ Replace(w, p)
       \/ OfStorage /\ FailWrite(w, p)
       \/ OfStorage /\ TouchMarker(w, p)
       \/ OfStorage /\ FailMarker(w, p)
  \/ OfDates /\ (StoreGames \/ Publish \/ BeginDaily \/ EndDaily \/ DailyOver)
  \/ OfDates /\ PassHalf(Min(dates))
  \/ OfDates /\ GetHalf(Min(dates))
  \/ OfDates /\ WriteHalf(Min(dates))
  \/ OfDates /\ MarkHalf(Min(dates))
  \/ OfNotes /\ (KillServer \/ NotesOver)
  \/ \E w \in Posters : \/ OfNotes /\ RequestNote(w)
                        \/ OfNotes /\ ReadLines(w)
                        \/ OfNotes /\ Truncate(w)
                        \/ OfNotes /\ WriteBack(w)
                        \/ OfNotes /\ AppendNote(w)
  \/ OfClock /\ (Tick \/ ClockStops)
  \/ OfTotals /\ (FetchPlayerSeasonStats \/ LoadSeasonStats \/ LoadAnother)
  \/ OfGames /\ (PullGames \/ LoadAll \/ LoadOne \/ EspnCorrects)
  \/ OfNames /\ (StoreBoxScore \/ AthletesOver)
  \/ \E name \in Names : OfNames /\ NoneGiven /\ GiveId(name)
  \/ \E tables \in SUBSET {"team_box_stats", "player_box_stats"} : OfBox /\ Build(tables)
  \/ OfBuilds /\ \E t \in MCTable : TreeGrows(t)
  \/ \E b \in MCBuilder :
       \/ OfBuilds /\ \E k \in {"full", "partial"}, tables \in SUBSET MCTable : BeginBuild(b, k, tables)
       \/ OfBuilds /\ Unlink(b)
       \/ OfBuilds /\ \E f \in MCFile : Connect(b, f)
       \/ OfBuilds /\ ConnectFails(b)
       \/ OfBuilds /\ \E t \in MCTable : LoadTable(b, t)
       \/ OfBuilds /\ RunRepairs(b)
       \/ OfBuilds /\ Close(b)
       \/ OfBuilds /\ RenameOver(b)
       \/ OfBuilds /\ KillBuild(b)
  \/ \E r \in MCReader : (OfBuilds /\ OpenRead(r)) \/ (OfBuilds /\ CloseRead(r))

allVars == << part, warehouseVars, clientVars, storageVars, netPointsVars, noteVars, clockVars,
              totalsVars, gamesVars, athletesVars, vars >>

MCSpec == MCInit /\ [][MCNext]_allVars

\* The files anything names: which of the names are of one file, and what it
\* holds.  What the files are called, and a file nothing names, is left out.
FileNames == << db, building, open[b1], open[b2], reading[r1] >>
WarehouseView ==
  << tree, pc, [b \in MCBuilder |-> IF pc[b] = "idle" THEN << >> ELSE << kind[b], todo[b] >>],
     [i \in 1..5 |-> IF FileNames[i] = NoDb THEN << >>
        ELSE << CHOOSE j \in 1..5 : FileNames[j] = FileNames[i] /\ \A k \in 1..(j - 1) : FileNames[k] # FileNames[i],
                held[FileNames[i]], raw[FileNames[i]], FileNames[i] \in cut >>] >>
\* The other parts as they are.
MCView ==
  IF part # "builds" THEN allVars
  ELSE << part, WarehouseView, clientVars, storageVars, netPointsVars, noteVars, clockVars,
          totalsVars, gamesVars, athletesVars, vars >>
=============================================================================
