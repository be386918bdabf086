------------------------------- MODULE Season -------------------------------
(* nba/season.py: which US Eastern calendar day a stored UTC stamp belongs   *)
(* to. The code never asks a time-zone database: it writes the daylight-     *)
(* saving rules out, answers for a whole UTC date at once, and says the rule *)
(* three times over - in Python for one stamp (eastern_date), in SQL for a   *)
(* column (eastern_date_sql) and as a range of stamps for one day            *)
(* (eastern_day_utc_range). A clock that is put forward and back at two in   *)
(* the morning is what all three are held against.                           *)
(*                                                                           *)
(* Days are proleptic ordinals (date.toordinal), stamps whole hours since    *)
(* ordinal 0: every shift is of whole hours.                                 *)
EXTENDS Integers, FiniteSets

CONSTANT Years    \* the years in which the clock is watched

ASSUME YearsAssumption == Years \subseteq 1976..2100

VARIABLES
    utc,       \* the hour, in UTC
    wall,      \* the hour the clock on the wall in New York shows
    daylight,  \* whether it has been put forward
    until      \* the hour, in UTC, it is watched until

clockVars == <<utc, wall, daylight, until>>

-----------------------------------------------------------------------------
(* The calendar: datetime.date.                                              *)

IsLeap(y) == y % 4 = 0 /\ (y % 100 # 0 \/ y % 400 = 0)

DaysBeforeMonth(y, m) ==
    LET common == <<0, 31, 59, 90, 120, 151, 181, 212, 243, 273, 304, 334>>
    IN  common[m] + (IF m > 2 /\ IsLeap(y) THEN 1 ELSE 0)

Ordinal(y, m, d) ==
    LET before == y - 1
    IN  365 * before + before \div 4 - before \div 100 + before \div 400
        + DaysBeforeMonth(y, m) + d

YearOf(day) ==
    LET near == (400 * day) \div 146097    \* 400 years are 146097 days
    IN  near + Cardinality({y \in {near + 1, near + 2} : Ordinal(y, 1, 1) <= day})

Weekday(day) == (day + 6) % 7   \* date.weekday: Monday is 0

-----------------------------------------------------------------------------
(* The rule as the code has it.                                              *)

\* First year a rule holds, and the dates on or after which the Sunday that
\* starts and the Sunday that ends daylight time fall; the latest first.
DstRules ==
    << [from |-> 2007, start |-> <<3, 8>>,  end |-> <<11, 1>>],
       [from |-> 1987, start |-> <<4, 1>>,  end |-> <<10, 25>>],
       [from |-> 1967, start |-> <<4, 24>>, end |-> <<10, 25>>] >>

StandardOffset == 5

SundayOnOrAfter(day) == day + ((6 - Weekday(day)) % 7)

RuleOf(year) ==
    DstRules[CHOOSE i \in DOMAIN DstRules :
                /\ year >= DstRules[i].from
                /\ \A j \in 1..(i - 1) : year < DstRules[j].from]

\* Of every year a rule holds in.
StartOfDaylight ==
    [year \in 1967..2101 |->
        LET rule == RuleOf(year)
        IN  SundayOnOrAfter(Ordinal(year, rule.start[1], rule.start[2]))]
EndOfDaylight ==
    [year \in 1967..2101 |->
        LET rule == RuleOf(year)
        IN  SundayOnOrAfter(Ordinal(year, rule.end[1], rule.end[2]))]

\* A plausible slip: the Sunday the clocks change counted with the days after.
UtcOffsetFromTheSunday(day) ==
    LET year == YearOf(day)
    IN  IF StartOfDaylight[year] <= day /\ day < EndOfDaylight[year]
        THEN StandardOffset - 1 ELSE StandardOffset

UtcOffset(day) ==
    LET year == YearOf(day)
    IN  IF StartOfDaylight[year] < day /\ day <= EndOfDaylight[year]
        THEN StandardOffset - 1 ELSE StandardOffset

\* eastern_date: the offset of the stamp's UTC date, taken off the stamp.
EasternDate(stamp) == (stamp - UtcOffset(stamp \div 24)) \div 24

\* eastern_date_sql: the Sunday counted with dayofweek, whose Sunday is 0.
SundaySql(day) == day + ((7 - ((Weekday(day) + 1) % 7)) % 7)
DaylightSql(day) ==
    LET year == YearOf(day)
        rule == RuleOf(year)
    IN  /\ day > SundaySql(Ordinal(year, rule.start[1], rule.start[2]))
        /\ day <= SundaySql(Ordinal(year, rule.end[1], rule.end[2]))
EasternDateSql(stamp) ==
    (stamp - (IF DaylightSql(stamp \div 24)
              THEN StandardOffset - 1 ELSE StandardOffset)) \div 24

\* eastern_day_utc_range: the stamps of a day, from its first to before its
\* last, each end at its own date's offset.
DayRange(day) == (24 * day + UtcOffset(day))..(24 * (day + 1) + UtcOffset(day + 1) - 1)

-----------------------------------------------------------------------------
(* The clock on the wall, which knows nothing of UTC dates: on the first day *)
(* of daylight time it goes from two to three, on the last from two back to  *)
(* one.                                                                      *)

\* Put to the right time at noon, on one of the days about the day on which the
\* clocks, or the years, change; and watched for a day.
ClockInit ==
    \E y \in Years :
        \E change \in {StartOfDaylight[y], EndOfDaylight[y], Ordinal(y, 12, 31)} :
            \E day \in (change - 2)..(change + 2) :
                /\ daylight = (StartOfDaylight[y] <= day /\ day < EndOfDaylight[y])
                /\ wall = 24 * day + 12
                /\ utc = wall + (IF daylight THEN 4 ELSE 5)
                /\ until = utc + 24

Hour(day, h) == 24 * day + h

Tick ==
    LET next == wall + 1
        year == YearOf(wall \div 24)
    IN  /\ utc < until
        /\ utc' = utc + 1 /\ UNCHANGED until
        /\ \/ /\ next = Hour(StartOfDaylight[year], 2) /\ ~daylight
              /\ wall' = next + 1 /\ daylight' = TRUE
           \/ /\ next = Hour(EndOfDaylight[year], 2) /\ daylight
              /\ wall' = next - 1 /\ daylight' = FALSE
           \/ /\ \/ next \notin {Hour(StartOfDaylight[year], 2), Hour(EndOfDaylight[year], 2)}
                 \/ next = Hour(EndOfDaylight[year], 2) /\ ~daylight
              /\ wall' = next /\ UNCHANGED daylight

ClockStops ==
    /\ utc = until
    /\ UNCHANGED clockVars

ClockNext == Tick \/ ClockStops

ClockSpec == ClockInit /\ [][ClockNext]_clockVars

-----------------------------------------------------------------------------
(* Whatever the hour, and on the two Sundays a year that have 23 and 25 of   *)
(* them, a stamp is dated the day the wall clock shows: by the Python rule,  *)
(* by the SQL rule, and by the range of stamps a day is asked for with,      *)
(* which holds the stamp for that day and for neither neighbour              *)
(* (nba/season.py's claim that the UTC date decides the offset exactly).     *)
DatedByTheWallClock ==
    LET day == wall \div 24
    IN  /\ EasternDate(utc) = day
        /\ EasternDateSql(utc) = day
        /\ \A d \in (day - 1)..(day + 1) : utc \in DayRange(d) <=> d = day
=============================================================================
