------------------------------ MODULE NetPoints ------------------------------
(***************************************************************************)
(* The daily NetPoints files (Pipeline.fetch_net_points_daily over         *)
(* netpoints_client and parse.NetPointsGameIndex): two objects per date,   *)
(* each behind a marker of its own, whose rows name no game.  The game is  *)
(* found again from the team and the file's date, which is the Eastern     *)
(* date it was played on, against the tips stored of the games on disk.    *)
(*                                                                         *)
(* One team's games: the index keeps each team's apart.  Days are numbers. *)
(* Dates share nothing a worker writes, so one worker stands for the pool. *)
(***************************************************************************)
EXTENDS Naturals, FiniteSets, FiniteSetsExt

CONSTANTS
  LastDay,    \* the days a game may be played on are 1..LastDay
  NoEvent,
  Pulls       \* how many pulls are made: a bound

ASSUME NetPointsAssumption == LastDay \in Nat /\ NoEvent \notin Nat /\ Pulls \in Nat

\* How a game's tip is stored: an afternoon's UTC date is its own, an evening's
\* the next day's; a junk tip's UTC date is right and its Eastern date that date.
Tips == {"afternoon", "evening", "junk"}

VARIABLES
  calendar,   \* calendar[d]: the game played on day d, by its tip, or NoEvent
  local,      \* the days whose games are on disk
  published,  \* the days NetPoints has published
  begun,      \* pulls begun
  index,      \* the games the running pull indexed, or NoEvent between pulls
  dates,      \* the dates the running pull has still to take up
  onDate,     \* onDate[d]: the step the running pull is at in date d
  fetched,    \* fetched[d][h]: what half h of date d answered: the game's rows
  rows,       \* rows[h][d]: the game half h's rows of date d name, or NoEvent: no file
  marked,     \* marked[h]: the dates whose half is marked
  absent      \* absent[h]: the dates marked before they were published or the
              \* game they are of was on disk

netPointsVars == <<calendar, local, published, begun, index, dates, onDate, fetched, rows, marked, absent>>

Days == 1..LastDay
Played == {d \in Days : calendar[d] # NoEvent}
DailyHalves == {"box", "skills"}

\* What is stored of the game played on day d: its UTC date, its Eastern date.
UtcDay(d) == IF calendar[d] = "afternoon" THEN d ELSE d + 1
EasternDay(d) == IF calendar[d] = "junk" THEN d + 1 ELSE d

-----------------------------------------------------------------------------
\* A mutation: the game read last wins a day two games share.
OnlyGameLast(games) == IF games = {} THEN NoEvent ELSE Max(games)

\* A day that holds one of the team's games is that game's; two make it unusable.
OnlyGame(games) == IF Cardinality(games) = 1 THEN CHOOSE g \in games : TRUE ELSE NoEvent

ByEastern(games, day) == OnlyGame({g \in games : EasternDay(g) = day})
ByUtc(games, day) == OnlyGame({g \in games : UtcDay(g) = day})

\* A mutation: the two UTC candidates alone, as they were before 2.1.0.
ResolveByUtc(games, date) ==
  IF ByUtc(games, date + 1) # NoEvent THEN ByUtc(games, date + 1) ELSE ByUtc(games, date)

\* NetPointsGameIndex.resolve.
Resolve(games, date) ==
  IF ByEastern(games, date) # NoEvent THEN ByEastern(games, date)
  ELSE IF ByUtc(games, date + 1) # NoEvent THEN ByUtc(games, date + 1)
  ELSE ByUtc(games, date)

-----------------------------------------------------------------------------
\* No team has played three days running since NetPoints began.
NeverThreeRunning == \A d \in 1..(LastDay - 2) : ~({d, d + 1, d + 2} \subseteq Played)

NetPointsInit ==
  /\ calendar \in [Days -> Tips \cup {NoEvent}]
  /\ Cardinality({d \in Days : calendar[d] = "junk"}) <= 1
  /\ NeverThreeRunning
  /\ local = {} /\ published = {} /\ begun = 0
  /\ index = {} /\ dates = {}
  /\ onDate = [d \in 0..LastDay + 1 |-> "over"]
  /\ fetched = [d \in 0..LastDay + 1 |-> NoEvent]
  /\ rows = [h \in DailyHalves |-> [d \in 0..LastDay + 1 |-> NoEvent]]
  /\ marked = [h \in DailyHalves |-> {}]
  /\ absent = [h \in DailyHalves |-> {}]

\* Games are played and stored, and NetPoints publishes a date, between pulls.
StoreGames ==
  /\ dates = {}
  /\ \E d \in Played \ local : local' = local \cup {d}
  /\ UNCHANGED <<calendar, published, begun, index, dates, onDate, fetched, rows, marked, absent>>

\* NetPoints publishes the days in their order.
Publish ==
  /\ Days # published /\ published' = published \cup {Min(Days \ published)}
  /\ UNCHANGED <<calendar, local, begun, index, dates, onDate, fetched, rows, marked, absent>>

\* The lookups the workers share are built once, before the pool; the dates are
\* each stored game's UTC date and the day before it.
BeginDaily ==
  /\ dates = {} /\ begun < Pulls /\ begun' = begun + 1
  /\ index' = local
  /\ dates' = {UtcDay(g) : g \in local} \cup {UtcDay(g) - 1 : g \in local}
  /\ onDate' = [d \in DOMAIN onDate |-> IF d \in dates' THEN "box" ELSE "over"]
  /\ UNCHANGED <<calendar, local, published, fetched, rows, marked, absent>>

After(d) == IF onDate[d] = "box" THEN "skills" ELSE "over"

Moved(d, to) ==
  /\ onDate' = [onDate EXCEPT ![d] = to]
  /\ dates' = (IF to = "over" THEN dates \ {d} ELSE dates)

\* one_date: a marked half is passed over.
PassHalf(d) ==
  /\ dates # {} /\ onDate[d] \in DailyHalves /\ d \in marked[onDate[d]]
  /\ Moved(d, After(d))
  /\ UNCHANGED <<calendar, local, published, begun, index, fetched, rows, marked, absent>>

\* The game the rows of date d are of: the file is the team's where it played.
FileOf(d) == d \in published /\ d \in Played

\* get_daily, get_daily_players: the file's rows, resolved, or none.
GetHalf(d) ==
  /\ dates # {} /\ onDate[d] \in DailyHalves /\ d \notin marked[onDate[d]]
  /\ fetched' = [fetched EXCEPT ![d] = IF FileOf(d) THEN Resolve(index, d) ELSE NoEvent]
  /\ Moved(d, IF onDate[d] = "box" THEN "write box" ELSE "write skills")
  /\ UNCHANGED <<calendar, local, published, begun, index, rows, marked, absent>>

Half(d) == IF onDate[d] \in {"write box", "mark box"} THEN "box" ELSE "skills"

\* write_rows: no rows, no file.
WriteHalf(d) ==
  /\ dates # {} /\ onDate[d] \in {"write box", "write skills"}
  /\ rows' = IF fetched[d] = NoEvent THEN rows ELSE [rows EXCEPT ![Half(d)][d] = fetched[d]]
  /\ Moved(d, IF Half(d) = "box" THEN "mark box" ELSE "mark skills")
  /\ UNCHANGED <<calendar, local, published, begun, index, fetched, marked, absent>>

\* A mutation: one marker for both halves of a date.
MarkDate(d) ==
  /\ dates # {} /\ onDate[d] \in {"mark box", "mark skills"}
  /\ marked' = [h \in DailyHalves |-> marked[h] \cup {d}]
  /\ absent' = [absent EXCEPT ![Half(d)] = IF fetched[d] = NoEvent THEN @ \cup {d} ELSE @]
  /\ Moved(d, IF Half(d) = "box" THEN "skills" ELSE "over")
  /\ fetched' = [fetched EXCEPT ![d] = NoEvent]
  /\ UNCHANGED <<calendar, local, published, begun, index, rows>>

\* mark_complete, with or without rows.
MarkHalf(d) ==
  /\ dates # {} /\ onDate[d] \in {"mark box", "mark skills"}
  /\ marked' = [marked EXCEPT ![Half(d)] = @ \cup {d}]
  /\ absent' = [absent EXCEPT ![Half(d)] = IF fetched[d] = NoEvent THEN @ \cup {d} ELSE @]
  /\ Moved(d, IF Half(d) = "box" THEN "skills" ELSE "over")
  /\ fetched' = [fetched EXCEPT ![d] = NoEvent]
  /\ UNCHANGED <<calendar, local, published, begun, index, rows>>

\* A request raises, or the pull is killed: every date ends where it stands.
EndDaily ==
  /\ dates # {} /\ dates' = {}
  /\ onDate' = [d \in DOMAIN onDate |-> "over"]
  /\ fetched' = [d \in DOMAIN fetched |-> NoEvent]
  /\ UNCHANGED <<calendar, local, published, begun, index, rows, marked, absent>>

DailyOver == dates = {} /\ begun = Pulls /\ UNCHANGED netPointsVars

NetPointsNext ==
  \/ StoreGames \/ Publish \/ BeginDaily \/ EndDaily \/ DailyOver
  \/ PassHalf(Min(dates)) \/ GetHalf(Min(dates)) \/ WriteHalf(Min(dates)) \/ MarkHalf(Min(dates))

NetPointsSpec == NetPointsInit /\ [][NetPointsNext]_netPointsVars

-----------------------------------------------------------------------------
\* With every game of a team on disk, a date's rows go to the game it was played
\* on or to none: back-to-back nights, afternoons after evenings and a junk tip
\* beside them never give one game's rows to another (NetPointsGameIndex).
RowsNameTheirGame ==
  \A d \in Played : Resolve(Played, d) \in {d, NoEvent}

\* A marked half of a published date has its rows on disk, unless it was marked
\* when nothing could be read of it: neither a kill between write and mark nor
\* the other half's marker leaves a half that will never be fetched.
MarkedHalvesAreWritten ==
  \A h \in DailyHalves : \A d \in marked[h] \ absent[h] : rows[h][d] # NoEvent
==============================================================================
