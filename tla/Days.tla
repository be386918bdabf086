-------------------------------- MODULE Days --------------------------------
(* A question's days (query/cuts.py, calendar.py, span.py): "since january   *)
(* 31st 2020", "after december 2019", "from february 28 to april 14 2026",   *)
(* "since 1/26/2020", "since january 31st".  The days cut the games; the     *)
(* seasons and the types read are settled apart from them, by the month of   *)
(* each day and the other words, so a question can be cut twice, each time   *)
(* to other games.                                                           *)
(*                                                                           *)
(* A day is its number yyyymmdd.  A game has its Eastern day, the season and *)
(* the type it is filed under.  A range of seasons named beside the days,    *)
(* and the floor of the box scores, are left out.                            *)
EXTENDS Integers, FiniteSets, FiniteSetsExt

CONSTANTS
  SeasonGames,   \* the games of some seasons
  AskedDays      \* the days a question may name

Year(day) == day \div 10000
Month(day) == (day \div 100) % 100
OfYear(day) == day % 10000

IsDay(day) == day \in Nat /\ Year(day) > 0 /\ Month(day) \in 1..12 /\ day % 100 \in 1..31

\* A game from October on is of the season that begins, or ends, in its year; a
\* postseason's are from April to September, or of a season that ended late.
ASSUME DaysAssumption ==
  /\ \A day \in AskedDays : IsDay(day) /\ Year(day) > 1
  /\ \A g \in SeasonGames :
       /\ IsDay(g.day)
       /\ g.season \in {Year(g.day), Year(g.day) + 1}
       /\ Month(g.day) < 10 => g.season = Year(g.day)
       /\ g.type = "postseason" => Month(g.day) \in 4..9 \/ (Month(g.day) >= 10 /\ g.season = Year(g.day))

VARIABLE onRecord

DaysInit == onRecord = {}
FileGame ==
  \E g \in SeasonGames \ onRecord :
    /\ \A h \in SeasonGames \ onRecord : g.day <= h.day
    /\ onRecord' = onRecord \cup {g}
DaysOver == onRecord = SeasonGames /\ UNCHANGED onRecord

-----------------------------------------------------------------------------
(* the words: one question per way of saying it *)

TypeWords == {"none", "regular", "playoffs", "both"}

\* A day, or a month, a range of games opens on, with its year ...
Opened == [as : {"worded", "numeric", "month", "after_month"}, first : AskedDays, types : TypeWords, career : BOOLEAN]
\* ... or both its days, the first perhaps without its year ...
Closed == [as : {"range"}, first : AskedDays, last : AskedDays, yearGiven : BOOLEAN, types : TypeWords, career : BOOLEAN]
\* ... or a day with no year, beside a season (0: none is named).
Undated == [as : {"undated"}, first : AskedDays, season : {0} \cup {g.season : g \in SeasonGames}, types : TypeWords, career : BOOLEAN]

-----------------------------------------------------------------------------
(* the days *)

\* A slip: the year, for the season that ends in it.
SeasonOfYear(day) == Year(day)

SeasonOfDay(day) == IF Month(day) >= 10 THEN Year(day) + 1 ELSE Year(day)

\* month_opened: the first of the month, or of the next
MonthOpened(day, after) ==
  LET first == day - (day % 100) + 1 IN
  IF ~after THEN first ELSE IF Month(day) = 12 THEN first + 8900 ELSE first + 100

\* date_range: a first day without its year takes the last's, or the one before
RangeFirst(q) ==
  IF q.yearGiven THEN q.first
  ELSE OfYear(q.first) + 10000 * (Year(q.last) - IF OfYear(q.first) <= OfYear(q.last) THEN 0 ELSE 1)

\* The days the games are cut at, the seasons those fall in, and whether a
\* postseason game may lie between: a range's, ...
DateRange(q) ==
  LET first == RangeFirst(q) IN
  [ first |-> first, last |-> q.last, since |-> SeasonOfDay(first), until |-> SeasonOfDay(q.last),
    both |-> SeasonOfDay(first) # SeasonOfDay(q.last) \/ Month(first) \in 4..9 \/ Month(q.last) \in 4..9 ]

OpenFrom(first, since) == [first |-> first, last |-> 0, since |-> since, until |-> 0, both |-> FALSE]

\* ... a worded day's, a month's, one in numbers, which opens the seasons at the
\* year it writes, if it writes one.
DatedDay(q) == OpenFrom(q.first, SeasonOfDay(q.first))
DatedMonth(q) ==
  LET first == MonthOpened(q.first, q.as = "after_month") IN OpenFrom(first, SeasonOfDay(first))
DatedSituation(q) == IF q.as = "undated" THEN OpenFrom(0, 0) ELSE OpenFrom(q.first, Year(q.first))

\* read_cuts
Dated(q) ==
  CASE q.as = "range" -> DateRange(q)
    [] q.as = "worded" -> DatedDay(q)
    [] q.as \in {"month", "after_month"} -> DatedMonth(q)
    [] q.as \in {"numeric", "undated"} -> DatedSituation(q)

\* The cut: an undated day is each game's own season's (calendar_clause).
InCut(q, g) ==
  IF q.as = "undated" THEN g.day >= OfYear(q.first) + 10000 * IF Month(q.first) >= 10 THEN g.season - 1 ELSE g.season
  ELSE Dated(q).first <= g.day /\ (q.as = "range" => g.day <= Dated(q).last)

-----------------------------------------------------------------------------
(* the seasons and the types *)

\* season_named: a year written anywhere, if the words write one; a month with
\* its year right after it is of the season that starts in it.
SeasonNamed(q) ==
  CASE q.as = "undated" -> q.season
    [] q.as \in {"month", "after_month"} -> SeasonOfDay(q.first)
    [] q.as \in {"worded", "numeric"} -> Year(q.first)
    [] q.as = "range" -> IF q.yearGiven /\ Year(q.first) # Year(q.last) THEN 0 ELSE Year(q.last)

\* _season_type, and both over days that can hold a postseason game
TypesRead(q) ==
  IF q.types = "both" \/ (Dated(q).both /\ q.types = "none") THEN {"regular", "postseason"}
  ELSE IF q.types = "playoffs" THEN {"postseason"} ELSE {"regular"}

\* current_season: the latest on record
CurrentSeason == Max({0} \cup {g.season : g \in onRecord})

\* read_span, _range: a range drops the season, inside one season it is that
\* season; a career word stands over the days' seasons.
ReadSpan(q) ==
  LET dated == Dated(q)
      ranged == ~q.career /\ dated.since # 0
      season == IF ranged THEN 0 ELSE SeasonNamed(q)
  IN  IF ranged /\ dated.since = dated.until THEN [season |-> dated.since, since |-> 0, until |-> 0, career |-> FALSE]
      ELSE [season |-> season, since |-> IF ranged THEN dated.since ELSE 0, until |-> IF ranged THEN dated.until ELSE 0, career |-> q.career]

\* span_of, ResolvedSpan.clause; none: declined, a career and a season at once
SeasonsOf(span) ==
  LET all == {g.season : g \in SeasonGames} IN
  IF span.since # 0 THEN {s \in all : span.since <= s /\ (span.until # 0 => s <= span.until)}
  ELSE IF ~span.career THEN {IF span.season # 0 THEN span.season ELSE CurrentSeason}
  ELSE IF span.season # 0 THEN {} ELSE all
Declined(q) == ReadSpan(q).career /\ ReadSpan(q).season # 0

GamesTold(q) == {g \in onRecord : g.season \in SeasonsOf(ReadSpan(q)) /\ g.type \in TypesRead(q) /\ InCut(q, g)}

DaysNext == FileGame \/ DaysOver
DaysSpec == DaysInit /\ [][DaysNext]_onRecord

-----------------------------------------------------------------------------
\* The one calendar day a range opens on, or closes with, by the words alone.
Reaches(q, day) ==
  CASE q.as = "month" -> day \div 100 >= q.first \div 100
    [] q.as = "after_month" -> day \div 100 > q.first \div 100
    [] q.as \in {"worded", "numeric"} -> day >= q.first
    [] q.as = "range" ->
         /\ day <= q.last
         /\ day >= IF q.yearGiven THEN q.first
                  ELSE Max({d \in {OfYear(q.first) + 10000 * (Year(q.last) - y) : y \in {0, 1}} : d <= q.last})

\* Between two days both types are wanted, where none is named; else the regular
\* season.
TypesWanted(q) ==
  IF q.types = "both" \/ (q.types = "none" /\ q.as = "range") THEN {"regular", "postseason"}
  ELSE IF q.types = "playoffs" THEN {"postseason"} ELSE {"regular"}

Wanted(q) == {g \in onRecord : g.type \in TypesWanted(q) /\ Reaches(q, g.day)}

ToldItsGames(q) ==
  IF Declined(q) THEN q.career
  ELSE /\ GamesTold(q) \subseteq Wanted(q)
       /\ \A g \in Wanted(q) \ GamesTold(q) : Month(g.day) >= 10 /\ g.season = Year(g.day)

\* A question whose day has no year, asked with the year of a game's season.
InSeason(q, g) ==
  [as |-> "worded", types |-> q.types, career |-> FALSE,
   first |-> OfYear(q.first) + 10000 * IF SeasonOfDay(q.first) # Year(q.first) THEN g.season - 1 ELSE g.season]

\* What a question with its days is told is the games on them: of the type it
\* names, of both between two days where it names none, else of the regular
\* season, whatever season they are of.  (Not so in the one season that ended in
\* October, whose last games no season of the calendar's holds: some are
\* missing, none is wrong.)  It is declined only beside a career word.  A day
\* without its year is, in each season, the day of that season.
DatedIsItsGames ==
  onRecord # {} =>
    /\ \A q \in Opened \cup {r \in Closed : r.yearGiven => r.first <= r.last} : ToldItsGames(q)
    /\ \A q \in Undated : ~Declined(q) =>
         \A g \in GamesTold(q) :
           {h \in GamesTold(q) : h.season = g.season} = {h \in GamesTold(InSeason(q, g)) : h.season = g.season}
=============================================================================
