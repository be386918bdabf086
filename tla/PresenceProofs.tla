--------------------------- MODULE PresenceProofs ----------------------------
(***************************************************************************)
(* What the reader of a game beside another man tells, and of the games he  *)
(* missed, for any teams, calendar and rows.  A stint is taken from a player's*)
(* own rows, so the argument is that its days are those he was on the team: *)
(* from a row until his next one of another team, or of another season.     *)
(***************************************************************************)
EXTENDS Absences, SetLemmas

\* The two named players who have rows.
Players == {"mate", "other"}

\* The days there have been, each as some day can be.
DaysInv ==
  /\ pastDays \in Seq(UNION {DayKinds[d] : d \in DOMAIN DayKinds}) /\ Len(pastDays) <= Len(DayYears)
  /\ \A d \in DOMAIN pastDays : pastDays[d] \in DayKinds[d]
  /\ role \in {"none", "subject", "mate", "beside"}

\* What the days are, for the proofs about them.
LEMMA TheDays ==
  ASSUME DaysInv
  PROVE  /\ Len(pastDays) \in Nat /\ DOMAIN pastDays = 1..Len(pastDays)
         /\ \A d \in DOMAIN pastDays : DayYears[d] \in Nat \ {0}
         /\ \A d, e \in DOMAIN pastDays : d <= e => DayYears[d] <= DayYears[e]
         /\ \A p \in Players : \A d \in RowDays(p) :
              /\ d \in DOMAIN pastDays
              /\ RowOn(p, d).team \in DOMAIN GameDaysOf
              /\ d \in GamesBy(RowOn(p, d).team)
              /\ RowOn(p, d).did \in {"sat", "bench", "started"}
              /\ RowOn(p, d).did # "sat" => RowOn(p, d).team \in pastDays[d].seen
<1>1. /\ Len(pastDays) \in Nat /\ DOMAIN pastDays = 1..Len(pastDays)
      /\ Len(DayYears) \in Nat /\ DOMAIN DayYears = 1..Len(DayYears)
  BY CalendarAssumption DEF CalendarAssumption, DaysInv
<1>2. \A d \in DOMAIN pastDays : d \in DOMAIN DayYears /\ d \in DOMAIN DayKinds
  BY <1>1, CalendarAssumption DEF CalendarAssumption, DaysInv
<1>3. \A d \in DOMAIN DayYears : DayYears[d] \in Nat \ {0}
  BY CalendarAssumption DEF CalendarAssumption
<1>4. \A d, e \in DOMAIN pastDays : d <= e => DayYears[d] <= DayYears[e]
  BY <1>2, CalendarAssumption DEF CalendarAssumption
<1>5. ASSUME NEW p \in Players, NEW d \in RowDays(p)
      PROVE  /\ d \in DOMAIN pastDays
             /\ RowOn(p, d).team \in DOMAIN GameDaysOf
             /\ d \in GamesBy(RowOn(p, d).team)
             /\ RowOn(p, d).did \in {"sat", "bench", "started"}
             /\ RowOn(p, d).did # "sat" => RowOn(p, d).team \in pastDays[d].seen
  <2>1. d \in DOMAIN pastDays /\ pastDays[d].rows[p] # NoBoxRow /\ pastDays[d] \in DayKinds[d] /\ d \in DOMAIN DayKinds
    BY <1>2 DEF RowDays, RowOn, DaysInv
  <2>2. QED
    BY <2>1, PresenceAssumption DEF PresenceAssumption, Players, RowOn, GamesBy
<1>6. QED
  BY <1>1, <1>2, <1>3, <1>4, <1>5

\* What follows is of the one player p and his rows' days.
Teamed(p, team, from, to) == \A x \in RowDays(p) \cap (from..to) : RowOn(p, x).team = team
Filled(p, from, to) ==
  \A y \in DayYears[from]..(DayYears[to] - 1) : \E x \in RowDays(p) \cap (from..to) : DayYears[x] = y + 1
Unstarted(p, from, to) == \A x \in StintDays(p) : ~(from < x /\ x <= to)

\* The row before a row.
LEMMA RowBefore ==
  ASSUME DaysInv, NEW p \in Players, NEW d \in RowDays(p), NEW e \in RowDays(p), e < d
  PROVE  LET b == Max({x \in RowDays(p) : x < d})
         IN  /\ b \in RowDays(p) /\ e <= b /\ b < d
             /\ \A x \in RowDays(p) : x < d => x <= b
             /\ d \in StintDays(p) <=> \/ RowOn(p, b).team # RowOn(p, d).team
                                       \/ DayYears[d] - DayYears[b] > 1
<1> DEFINE B == {x \in RowDays(p) : x < d}
<1>1. B \in SUBSET (0..Len(pastDays)) /\ B # {} /\ Len(pastDays) \in Nat
  BY TheDays DEF RowDays
<1>2. Max(B) \in B /\ \A x \in B : x <= Max(B)
  <2> HIDE DEF B
  <2>1. QED
    BY <1>1, MaxIs
<1>3. QED
  BY <1>1, <1>2 DEF StintDays

\* No stint begins between two of his rows just where he has rows for one team
\* alone there, and some in each season between.
LEMMA OneSpell ==
  ASSUME DaysInv, NEW p \in Players, NEW f \in RowDays(p), NEW e \in RowDays(p), f <= e
  PROVE  Unstarted(p, f, e) <=> Teamed(p, RowOn(p, f).team, f, e) /\ Filled(p, f, e)
<1> DEFINE n == Len(pastDays)
<1>1. /\ n \in Nat /\ RowDays(p) \subseteq 1..n
      /\ \A x \in 1..n : DayYears[x] \in Nat
      /\ \A x, z \in 1..n : x <= z => DayYears[x] <= DayYears[z]
      /\ StintDays(p) \subseteq RowDays(p)
  BY TheDays DEF RowDays, StintDays
<1>2. ASSUME Unstarted(p, f, e) PROVE Teamed(p, RowOn(p, f).team, f, e)
  <2> DEFINE Bad == {x \in RowDays(p) : f <= x /\ x <= e /\ RowOn(p, x).team # RowOn(p, f).team}
  <2>1. SUFFICES ASSUME Bad # {} PROVE FALSE
    BY <1>1 DEF Teamed
  <2>2. PICK x \in Bad : \A z \in Bad : x <= z
    <3>1. Bad \in SUBSET Nat
      BY <1>1
    <3> HIDE DEF Bad
    <3>2. QED
      BY <2>1, <3>1, LeastNat
  <2>3. f < x /\ x \in RowDays(p)
    BY <1>1, <2>2
  <2> DEFINE b == Max({z \in RowDays(p) : z < x})
  <2>4. /\ b \in RowDays(p) /\ f <= b /\ b < x
        /\ x \in StintDays(p) <=> \/ RowOn(p, b).team # RowOn(p, x).team
                                  \/ DayYears[x] - DayYears[b] > 1
    BY <2>3, RowBefore
  <2> HIDE DEF b
  <2>5. RowOn(p, b).team = RowOn(p, f).team
    BY <1>1, <2>2, <2>4
  <2>6. x \in StintDays(p)
    BY <2>2, <2>4, <2>5
  <2>7. QED
    BY <1>2, <2>2, <2>3, <2>6 DEF Unstarted
<1>3. ASSUME Unstarted(p, f, e) PROVE Filled(p, f, e)
  <2>1. SUFFICES ASSUME NEW y \in DayYears[f]..(DayYears[e] - 1)
                 PROVE  \E x \in RowDays(p) \cap (f..e) : DayYears[x] = y + 1
    BY DEF Filled
  <2> DEFINE Later == {x \in RowDays(p) : f <= x /\ x <= e /\ DayYears[x] > y}
  <2>2. f \in 1..n /\ e \in 1..n /\ DayYears[f] \in Nat /\ DayYears[e] \in Nat
    BY <1>1
  <2>3. y \in Nat /\ DayYears[f] <= y /\ y < DayYears[e]
    BY <2>1, <2>2
  <2>4. PICK x \in Later : \A z \in Later : x <= z
    <3>1. Later \in SUBSET Nat /\ e \in Later
      BY <1>1, <2>2, <2>3
    <3> HIDE DEF Later
    <3>2. QED
      BY <3>1, LeastNat
  <2>5. x \in RowDays(p) /\ f < x /\ x <= e /\ DayYears[x] > y
    BY <1>1, <2>2, <2>3, <2>4
  <2> DEFINE b == Max({z \in RowDays(p) : z < x})
  <2>6. /\ b \in RowDays(p) /\ f <= b /\ b < x
        /\ x \in StintDays(p) <=> \/ RowOn(p, b).team # RowOn(p, x).team
                                  \/ DayYears[x] - DayYears[b] > 1
    BY <2>5, RowBefore
  <2> HIDE DEF b
  <2>7. ~(DayYears[b] > y)
    BY <1>1, <2>4, <2>5, <2>6
  <2>8. x \notin StintDays(p)
    BY <1>3, <2>5 DEF Unstarted
  <2>9. DayYears[x] = y + 1
    <3>1. DayYears[x] \in Nat /\ DayYears[b] \in Nat
      BY <1>1, <2>5, <2>6
    <3>2. ~(DayYears[x] - DayYears[b] > 1)
      BY <2>6, <2>8
    <3>3. QED
      BY <2>3, <2>5, <2>7, <3>1, <3>2
  <2>10. x \in f..e
    BY <1>1, <2>5
  <2>11. QED
    BY <2>5, <2>9, <2>10
<1>4. ASSUME Teamed(p, RowOn(p, f).team, f, e), Filled(p, f, e), NEW x \in StintDays(p), f < x, x <= e
      PROVE  FALSE
  <2>1. x \in RowDays(p)
    BY <1>1
  <2> DEFINE b == Max({z \in RowDays(p) : z < x})
  <2>2. /\ b \in RowDays(p) /\ f <= b /\ b < x
        /\ \A z \in RowDays(p) : z < x => z <= b
        /\ x \in StintDays(p) <=> \/ RowOn(p, b).team # RowOn(p, x).team
                                  \/ DayYears[x] - DayYears[b] > 1
    BY <1>4, <2>1, RowBefore
  <2> HIDE DEF b
  <2>3. x \in f..e /\ b \in f..e
    BY <1>1, <1>4, <2>1, <2>2
  <2>4. RowOn(p, b).team = RowOn(p, x).team
    BY <1>4, <2>1, <2>2, <2>3 DEF Teamed
  <2>5. /\ DayYears[x] \in Nat /\ DayYears[b] \in Nat /\ DayYears[e] \in Nat /\ DayYears[f] \in Nat
        /\ DayYears[f] <= DayYears[b] /\ DayYears[x] <= DayYears[e]
    BY <1>1, <1>4, <2>1, <2>2
  <2>6. DayYears[x] - DayYears[b] > 1
    BY <1>4, <2>2, <2>4
  <2>7. DayYears[b] \in DayYears[f]..(DayYears[e] - 1)
    BY <2>5, <2>6
  <2>8. PICK z \in RowDays(p) \cap (f..e) : DayYears[z] = DayYears[b] + 1
    BY <1>4, <2>7 DEF Filled
  <2>9. z \in 1..n /\ b \in 1..n /\ x \in 1..n
    BY <1>1, <2>1, <2>2
  <2>10. ~(z <= b) /\ ~(x <= z)
    BY <1>1, <2>5, <2>6, <2>8, <2>9
  <2>11. QED
    BY <2>2, <2>8, <2>9, <2>10
<1>5. QED
  BY <1>2, <1>3, <1>4 DEF Unstarted

\* A stint runs from its first row to a game of its team's, and no further than
\* the day before the next.
StintFrom(p, f) == StintOf(p, f, {d \in StintDays(p) : f < d})
ClosesAt(p, f, r, c) ==
  /\ r \in RowDays(p) /\ f <= r /\ Unstarted(p, f, r)
  /\ \A x \in RowDays(p) : f <= x /\ Unstarted(p, f, x) => x <= r
  /\ c \in GamesBy(RowOn(p, f).team) /\ DayYears[c] = DayYears[r] /\ r <= c
  /\ \A e \in GamesBy(RowOn(p, f).team) : DayYears[e] = DayYears[r] => e <= c

\* A stint is of the team of the row it begins at, from that row's day, and it
\* lasts while no row of his begins another.
LEMMA StintIs ==
  ASSUME DaysInv, NEW p \in Players, NEW f \in StintDays(p)
  PROVE  /\ StintFrom(p, f).team = RowOn(p, f).team
         /\ StintFrom(p, f).first = f
         /\ StintFrom(p, f).last \in DOMAIN pastDays /\ f <= StintFrom(p, f).last
         /\ \E r, c \in DOMAIN pastDays :
              /\ ClosesAt(p, f, r, c)
              /\ \A d \in DOMAIN pastDays :
                   d \in f..StintFrom(p, f).last <=> f <= d /\ d <= c /\ Unstarted(p, f, d)
<1> DEFINE n == Len(pastDays)
           later == {d \in StintDays(p) : f < d}
           Rows == {d \in RowDays(p) : f <= d /\ later \cap f..d = {}}
           r == Max(Rows)
           Games == {d \in GamesBy(RowOn(p, f).team) : DayYears[d] = DayYears[r]}
           c == Max(Games)
           Ends == {c} \cup {d - 1 : d \in later}
           w == StintFrom(p, f)
<1>1. /\ n \in Nat /\ DOMAIN pastDays = 1..n /\ RowDays(p) \subseteq 1..n /\ StintDays(p) \subseteq RowDays(p)
      /\ f \in RowDays(p)
  BY TheDays DEF RowDays, StintDays
<1>2. w = [team |-> RowOn(p, f).team, first |-> f, last |-> Min(Ends)]
  BY DEF StintFrom, StintOf
<1>3. \A d \in 1..n : later \cap f..d = {} <=> Unstarted(p, f, d)
  <2>1. ASSUME NEW d \in 1..n PROVE later \cap f..d = {} <=> \A x \in StintDays(p) : ~(f < x /\ x <= d)
    <3>1. \A x \in later : x \in f..d <=> x <= d
      BY <1>1
    <3>2. QED
      BY <3>1
  <2>2. QED
    BY <2>1 DEF Unstarted
<1>4. f \in Rows
  <2>1. \A x \in StintDays(p) : ~(f < x /\ x <= f)
    BY <1>1
  <2>2. QED
    BY <1>1, <1>3, <2>1 DEF Unstarted
<1>5. r \in Rows /\ \A x \in Rows : x <= r
  <2>1. Rows \in SUBSET (0..n)
    BY <1>1
  <2> HIDE DEF Rows
  <2>2. QED
    BY <1>1, <1>4, <2>1, MaxIs
<1>6. r \in RowDays(p) /\ f <= r /\ Unstarted(p, f, r) /\ r \in 1..n
  BY <1>1, <1>3, <1>5
<1>7. \A x \in RowDays(p) : f <= x /\ Unstarted(p, f, x) => x <= r
  BY <1>1, <1>3, <1>5
<1> HIDE DEF r
<1>8. RowOn(p, r).team = RowOn(p, f).team
  <2>1. r \in RowDays(p) \cap (f..r)
    BY <1>1, <1>6
  <2>2. QED
    BY <1>1, <1>6, <2>1, OneSpell DEF Teamed
<1>9. r \in Games
  BY <1>6, <1>8, TheDays
<1>10. c \in Games /\ \A x \in Games : x <= c
  <2>1. Games \in SUBSET (0..n)
    BY <1>1 DEF GamesBy
  <2> HIDE DEF Games
  <2>2. QED
    BY <1>1, <1>9, <2>1, MaxIs
<1>11. ClosesAt(p, f, r, c) /\ c \in 1..n
  BY <1>1, <1>6, <1>7, <1>9, <1>10 DEF ClosesAt, GamesBy
<1> HIDE DEF c, Games, Rows
<1>12. Min(Ends) \in Ends /\ \A x \in Ends : Min(Ends) <= x
  <2>1. Ends \in SUBSET Nat /\ Ends # {}
    BY <1>1, <1>11
  <2> HIDE DEF Ends
  <2>2. QED
    BY <2>1, MinIs
<1>13. f <= c
  BY <1>1, <1>6, <1>11 DEF ClosesAt
<1>14. Ends \subseteq Nat /\ \A x \in Ends : f <= x
  BY <1>1, <1>11, <1>13
<1>15. Min(Ends) \in 1..n /\ f <= Min(Ends)
  <2>1. c \in Ends /\ f \in 1..n
    BY <1>1
  <2>2. Min(Ends) \in Nat /\ f <= Min(Ends) /\ Min(Ends) <= c
    <3> HIDE DEF Ends
    <3>1. QED
      BY <1>12, <1>14, <2>1
  <2> HIDE DEF Ends
  <2>3. QED
    BY <1>1, <1>11, <2>1, <2>2
<1>16. \A d \in 1..n : d <= Min(Ends) <=> d <= c /\ \A x \in later : ~(x <= d)
  <2>1. ASSUME NEW d \in 1..n, d <= Min(Ends) PROVE d <= c /\ \A x \in later : ~(x <= d)
    <3>1. Min(Ends) <= c /\ \A x \in later : Min(Ends) <= x - 1
      BY <1>12
    <3>2. c \in Nat /\ Min(Ends) \in Nat /\ \A x \in later : x \in Nat
      BY <1>1, <1>11, <1>15
    <3> HIDE DEF Ends, later
    <3>3. QED
      BY <2>1, <3>1, <3>2
  <2>2. ASSUME NEW d \in 1..n, d <= c, \A x \in later : ~(x <= d) PROVE d <= Min(Ends)
    <3>1. CASE Min(Ends) = c
      BY <2>2, <3>1
    <3>2. CASE Min(Ends) # c
      <4>1. PICK x \in later : Min(Ends) = x - 1
        BY <1>12, <3>2
      <4>2. x \in Nat /\ ~(x <= d)
        BY <1>1, <2>2
      <4>3. QED
        BY <4>1, <4>2
    <3>3. QED
      BY <3>1, <3>2
  <2>3. QED
    BY <2>1, <2>2
<1>17. \A d \in 1..n : d \in f..Min(Ends) <=> f <= d /\ d <= c /\ Unstarted(p, f, d)
  <2>1. ASSUME NEW d \in 1..n PROVE d \in f..Min(Ends) <=> f <= d /\ d <= c /\ Unstarted(p, f, d)
    <3>1. d \in f..Min(Ends) <=> f <= d /\ d <= Min(Ends)
      <4> HIDE DEF Ends
      <4>1. QED
        BY <1>1, <1>15
    <3>2. (\A x \in later : ~(x <= d)) <=> Unstarted(p, f, d)
      BY DEF Unstarted
    <3>3. QED
      BY <1>16, <3>1, <3>2
  <2>2. QED
    BY <2>1
<1>18. r \in DOMAIN pastDays /\ c \in DOMAIN pastDays
  BY <1>1, <1>6, <1>11
<1> HIDE DEF Ends, later
<1>19. w.team = RowOn(p, f).team /\ w.first = f /\ w.last = Min(Ends)
  BY <1>2
<1> HIDE DEF w
<1>20. \A d \in DOMAIN pastDays : d \in f..w.last <=> f <= d /\ d <= c /\ Unstarted(p, f, d)
  BY <1>1, <1>17, <1>19
<1>21. QED
  <2>1. \E r1, c1 \in DOMAIN pastDays :
           /\ ClosesAt(p, f, r1, c1)
           /\ \A d \in DOMAIN pastDays : d \in f..w.last <=> f <= d /\ d <= c1 /\ Unstarted(p, f, d)
    BY <1>11, <1>18, <1>20
  <2>2. w.last \in DOMAIN pastDays /\ f <= w.last
    BY <1>1, <1>15, <1>19
  <2>3. QED
    BY <1>19, <2>1, <2>2 DEF w

\* A day that is in one of a set of windows, for a team.
Covers(windows, team, d) == \E w \in windows : w.team = team /\ d \in w.first..w.last
Windowed(windows) ==
  \A w \in windows : /\ w.team \in DOMAIN GameDaysOf
                     /\ w.first \in DOMAIN pastDays /\ w.last \in DOMAIN pastDays /\ w.first <= w.last

\* What lasts until a day lasts until an earlier one.
LEMMA UnstartedTill ==
  ASSUME DaysInv, NEW p \in Players, NEW f \in DOMAIN pastDays, NEW e \in DOMAIN pastDays, Unstarted(p, f, e)
  PROVE  /\ \A d \in DOMAIN pastDays : d <= e => Unstarted(p, f, d)
         /\ \A g \in DOMAIN pastDays : f <= g => Unstarted(p, g, e)
         /\ \A d \in DOMAIN pastDays : Unstarted(p, e, d) => Unstarted(p, f, d)
<1>1. /\ Len(pastDays) \in Nat /\ DOMAIN pastDays = 1..Len(pastDays)
      /\ StintDays(p) \subseteq 1..Len(pastDays)
  BY TheDays DEF StintDays, RowDays
<1>2. QED
  BY <1>1 DEF Unstarted

\* Every row is in a stint that begins at it or before.
LEMMA AStint ==
  ASSUME DaysInv, NEW p \in Players, NEW r \in RowDays(p)
  PROVE  \E f \in StintDays(p) : f <= r /\ Unstarted(p, f, r)
<1> DEFINE n == Len(pastDays)
           Begun == {x \in StintDays(p) : x <= r}
<1>1. /\ n \in Nat /\ DOMAIN pastDays = 1..n /\ RowDays(p) \subseteq 1..n /\ StintDays(p) \subseteq RowDays(p)
  BY TheDays DEF RowDays, StintDays
<1>2. PICK x \in RowDays(p) : \A z \in RowDays(p) : x <= z
  <2>1. RowDays(p) \in SUBSET Nat
    BY <1>1
  <2>2. QED
    BY <2>1, LeastNat
<1>3. x \in Begun
  <2>1. \A z \in RowDays(p) : ~(z < x)
    BY <1>1, <1>2
  <2>2. x \in StintDays(p)
    BY <2>1 DEF StintDays
  <2>3. QED
    BY <1>2, <2>2
<1>4. Max(Begun) \in Begun /\ \A z \in Begun : z <= Max(Begun)
  <2>1. Begun \in SUBSET (0..n)
    BY <1>1
  <2> HIDE DEF Begun
  <2>2. QED
    BY <1>1, <1>3, <2>1, MaxIs
<1>5. Max(Begun) \in StintDays(p) /\ Max(Begun) <= r
  BY <1>4
<1>6. \A z \in StintDays(p) : z <= r => z <= Max(Begun)
  BY <1>4
<1> HIDE DEF Begun
<1>7. \A z \in StintDays(p) : ~(Max(Begun) < z /\ z <= r)
  <2>1. Max(Begun) \in 1..n
    BY <1>1, <1>5
  <2>2. QED
    BY <1>1, <1>6, <2>1
<1>8. QED
  BY <1>5, <1>7 DEF Unstarted

\* A day that a stint for a team covers is one he was on the team.
LEMMA CoveredIsOnTeam ==
  ASSUME DaysInv, NEW p \in Players, NEW team, NEW d \in DOMAIN pastDays, Covers(PlayerStints(p), team, d)
  PROVE  OnTeam(p, team, d)
<1> DEFINE n == Len(pastDays)
<1>1. /\ n \in Nat /\ DOMAIN pastDays = 1..n /\ RowDays(p) \subseteq 1..n /\ StintDays(p) \subseteq RowDays(p)
      /\ \A x \in 1..n : DayYears[x] \in Nat
      /\ \A x, z \in 1..n : x <= z => DayYears[x] <= DayYears[z]
  BY TheDays DEF RowDays, StintDays
<1>2. PICK f \in StintDays(p) : StintFrom(p, f).team = team /\ d \in StintFrom(p, f).first..StintFrom(p, f).last
  BY DEF Covers, PlayerStints, StintFrom
<1>3. /\ RowOn(p, f).team = team /\ f \in RowDays(p) /\ f \in 1..n
      /\ d \in f..StintFrom(p, f).last
  BY <1>1, <1>2, StintIs
<1>4. PICK last, c \in DOMAIN pastDays :
        /\ ClosesAt(p, f, last, c)
        /\ \A e \in DOMAIN pastDays : e \in f..StintFrom(p, f).last <=> f <= e /\ e <= c /\ Unstarted(p, f, e)
  BY StintIs
<1>5. f <= d /\ d <= c /\ Unstarted(p, f, d)
  BY <1>3, <1>4
<1>6. /\ last \in RowDays(p) /\ f <= last /\ Unstarted(p, f, last) /\ last <= c
      /\ \A x \in RowDays(p) : f <= x /\ Unstarted(p, f, x) => x <= last
      /\ c \in GamesBy(team) /\ DayYears[c] = DayYears[last]
  BY <1>3, <1>4 DEF ClosesAt
<1> DEFINE Before == {x \in RowDays(p) : x <= d}
<1>7. PICK r \in RowDays(p) : r <= d /\ \A x \in RowDays(p) : x <= d => x <= r
  <2>1. Before \in SUBSET (0..n) /\ f \in Before
    BY <1>1, <1>3, <1>5
  <2>2. Max(Before) \in Before /\ \A x \in Before : x <= Max(Before)
    <3> HIDE DEF Before
    <3>1. QED
      BY <1>1, <2>1, MaxIs
  <2>3. QED
    BY <2>2
<1>8. f <= r /\ Unstarted(p, f, r) /\ r \in 1..n
  <2>1. f <= r /\ r \in 1..n
    BY <1>1, <1>3, <1>5, <1>7
  <2>2. QED
    BY <1>1, <1>3, <1>5, <1>7, <2>1, UnstartedTill
<1>9. RowOn(p, r).team = team
  <2>1. r \in RowDays(p) \cap (f..r)
    BY <1>1, <1>3, <1>7, <1>8
  <2>2. QED
    BY <1>3, <1>7, <1>8, <2>1, OneSpell DEF Teamed
<1>10. \A e \in r..d : RowOn(p, e) = NoBoxRow \/ RowOn(p, e).team = team
  <2>1. ASSUME NEW e \in r..d PROVE RowOn(p, e) = NoBoxRow \/ RowOn(p, e).team = team
    <3>1. e \in DOMAIN pastDays
      BY <1>1, <1>8
    <3>2. CASE e \in RowDays(p)
      <4>1. e = r
        BY <1>1, <1>7, <1>8, <2>1, <3>2
      <4>2. QED
        BY <1>9, <4>1
    <3>3. QED
      BY <3>1, <3>2 DEF RowDays
  <2>2. QED
    BY <2>1
<1>11. CASE last <= d
  <2>1. last = r
    BY <1>1, <1>6, <1>7, <1>8, <1>11
  <2>2. DayYears[d] = DayYears[r]
    <3>1. /\ DayYears[r] <= DayYears[d] /\ DayYears[d] <= DayYears[c] /\ DayYears[c] = DayYears[r]
          /\ DayYears[r] \in Nat /\ DayYears[d] \in Nat
      BY <1>1, <1>4, <1>5, <1>6, <1>7, <2>1
    <3>2. QED
      BY <3>1
  <2>3. \E e \in GamesBy(team) : d <= e /\ DayYears[e] = DayYears[r]
    BY <1>5, <1>6, <2>1
  <2>4. QED
    BY <1>7, <1>10, <2>2, <2>3 DEF OnTeam
<1>12. CASE ~(last <= d)
  <2>1. d <= last /\ r <= last /\ last \in 1..n
    BY <1>1, <1>6, <1>7, <1>8, <1>12
  <2>2. Unstarted(p, r, last)
    BY <1>1, <1>3, <1>6, <1>8, <2>1, UnstartedTill
  <2>3. Teamed(p, team, r, last) /\ Filled(p, r, last)
    BY <1>6, <1>7, <1>9, <2>1, <2>2, OneSpell
  <2>4. \A e \in r..last : RowOn(p, e) = NoBoxRow \/ RowOn(p, e).team = team
    <3>1. \A e \in r..last : e \in DOMAIN pastDays
      BY <1>1, <1>8, <2>1
    <3>2. QED
      BY <2>3, <3>1 DEF Teamed, RowDays
  <2>5. \E s \in RowDays(p) :
          /\ d <= s /\ \A e \in r..s : RowOn(p, e) = NoBoxRow \/ RowOn(p, e).team = team
          /\ \A y \in DayYears[r]..DayYears[s] - 1 : \E e \in RowDays(p) \cap r..s : DayYears[e] = y + 1
    BY <1>6, <2>1, <2>3, <2>4 DEF Filled
  <2>6. QED
    BY <1>7, <1>10, <2>5 DEF OnTeam
<1>13. QED
  BY <1>11, <1>12

\* And the days he was on a team are covered by his stints for it.
LEMMA OnTeamIsCovered ==
  ASSUME DaysInv, NEW p \in Players, NEW team, NEW d \in DOMAIN pastDays, OnTeam(p, team, d)
  PROVE  Covers(PlayerStints(p), team, d)
<1> DEFINE n == Len(pastDays)
           Stays(r, until) == \A e \in r..until : RowOn(p, e) = NoBoxRow \/ RowOn(p, e).team = team
<1>1. /\ n \in Nat /\ DOMAIN pastDays = 1..n /\ RowDays(p) \subseteq 1..n /\ StintDays(p) \subseteq RowDays(p)
      /\ \A x \in 1..n : DayYears[x] \in Nat
      /\ \A x, z \in 1..n : x <= z => DayYears[x] <= DayYears[z]
      /\ GamesBy(team) \subseteq 1..n
  BY TheDays DEF RowDays, StintDays, GamesBy
<1>2. PICK r \in RowDays(p) :
        /\ r <= d /\ Stays(r, d)
        /\ \/ DayYears[d] = DayYears[r] /\ \E e \in GamesBy(team) : d <= e /\ DayYears[e] = DayYears[r]
           \/ \E s \in RowDays(p) :
                /\ d <= s /\ Stays(r, s)
                /\ \A y \in DayYears[r]..DayYears[s] - 1 : \E e \in RowDays(p) \cap r..s : DayYears[e] = y + 1
  BY DEF OnTeam
<1>3. \A until : Stays(r, until) => Teamed(p, team, r, until)
  <2>1. \A x \in RowDays(p) : RowOn(p, x) # NoBoxRow
    BY DEF RowDays
  <2>2. QED
    BY <2>1 DEF Teamed
<1>4. r \in 1..n /\ RowOn(p, r).team = team
  <2>1. r \in 1..n /\ r \in r..d
    BY <1>1, <1>2
  <2>2. QED
    BY <1>2, <1>3, <2>1 DEF Teamed
<1> HIDE DEF Stays
<1>5. PICK f \in StintDays(p) : f <= r /\ Unstarted(p, f, r)
  BY AStint
<1>6. f \in RowDays(p) /\ f \in 1..n /\ f <= d /\ RowOn(p, f).team = team
  <2>1. f \in RowDays(p) /\ f \in 1..n /\ f <= d
    BY <1>1, <1>2, <1>4, <1>5
  <2>2. r \in RowDays(p) \cap (f..r)
    BY <1>1, <1>4, <1>5, <2>1
  <2>3. QED
    BY <1>4, <1>5, <2>1, <2>2, OneSpell DEF Teamed
<1>7. PICK last, c \in DOMAIN pastDays :
        /\ ClosesAt(p, f, last, c)
        /\ \A e \in DOMAIN pastDays : e \in f..StintFrom(p, f).last <=> f <= e /\ e <= c /\ Unstarted(p, f, e)
  BY StintIs
<1>8. /\ last \in RowDays(p) /\ last \in 1..n /\ last <= c /\ c \in 1..n
      /\ \A x \in RowDays(p) : f <= x /\ Unstarted(p, f, x) => x <= last
      /\ DayYears[c] = DayYears[last]
      /\ \A e \in GamesBy(team) : DayYears[e] = DayYears[last] => e <= c
  BY <1>1, <1>6, <1>7 DEF ClosesAt
<1>9. r <= last
  BY <1>2, <1>5, <1>8
<1>10. d <= c /\ Unstarted(p, r, d)
  <2>1. CASE DayYears[d] = DayYears[r] /\ \E e \in GamesBy(team) : d <= e /\ DayYears[e] = DayYears[r]
    <3>1. PICK e \in GamesBy(team) : d <= e /\ DayYears[e] = DayYears[r]
      BY <2>1
    <3>2. d <= c
      <4>1. CASE DayYears[last] = DayYears[r]
        BY <1>1, <1>8, <3>1, <4>1
      <4>2. CASE DayYears[last] # DayYears[r]
        <5>1. ~(last <= d)
          BY <1>1, <1>4, <1>8, <1>9, <2>1, <4>2
        <5>2. QED
          BY <1>1, <1>8, <5>1
      <4>3. QED
        BY <4>1, <4>2
    <3>3. ASSUME NEW x \in StintDays(p), r < x, x <= d PROVE FALSE
      <4>1. x \in RowDays(p) /\ x \in 1..n /\ r <= x
        BY <1>1, <1>4, <3>3
      <4>2. Teamed(p, team, r, x)
        <5>1. \A z \in RowDays(p) \cap (r..x) : z \in RowDays(p) \cap (r..d)
          BY <1>1, <1>4, <3>3, <4>1
        <5>2. Teamed(p, team, r, d)
          BY <1>2, <1>3
        <5>3. QED
          BY <5>1, <5>2 DEF Teamed
      <4>3. Filled(p, r, x)
        <5>1. DayYears[x] = DayYears[r]
          BY <1>1, <1>4, <2>1, <3>3, <4>1
        <5>2. DayYears[r] \in Nat
          BY <1>1, <1>4
        <5>3. DayYears[r]..(DayYears[x] - 1) = {}
          BY <5>1, <5>2
        <5>4. QED
          BY <5>3 DEF Filled
      <4>4. Unstarted(p, r, x)
        BY <1>4, <4>1, <4>2, <4>3, OneSpell
      <4>5. x <= x
        BY <4>1
      <4>6. QED
        BY <3>3, <4>4, <4>5 DEF Unstarted
    <3>4. QED
      BY <3>2, <3>3 DEF Unstarted
  <2>2. ASSUME NEW s \in RowDays(p), d <= s, Stays(r, s),
               \A y \in DayYears[r]..DayYears[s] - 1 : \E e \in RowDays(p) \cap r..s : DayYears[e] = y + 1
        PROVE  d <= c /\ Unstarted(p, r, d)
    <3>1. Teamed(p, team, r, s) /\ Filled(p, r, s)
      BY <1>3, <2>2 DEF Filled
    <3>2. s \in 1..n /\ r <= s
      BY <1>1, <1>2, <1>4, <2>2
    <3>3. Unstarted(p, r, s)
      BY <1>4, <3>1, <3>2, OneSpell
    <3>4. Unstarted(p, f, s) /\ Unstarted(p, r, d)
      BY <1>1, <1>4, <1>5, <1>6, <2>2, <3>2, <3>3, UnstartedTill
    <3>5. s <= last
      BY <1>1, <1>4, <1>5, <1>6, <1>8, <3>2, <3>4
    <3>6. QED
      BY <1>1, <1>8, <2>2, <3>2, <3>4, <3>5
  <2>3. QED
    BY <1>2, <2>1, <2>2
<1>11. Unstarted(p, f, d)
  BY <1>1, <1>4, <1>5, <1>6, <1>10, UnstartedTill
<1>12. d \in f..StintFrom(p, f).last
  BY <1>6, <1>7, <1>10, <1>11
<1>13. StintFrom(p, f).team = team /\ StintFrom(p, f).first = f
  BY <1>6, StintIs
<1>14. StintFrom(p, f) \in PlayerStints(p)
  BY DEF PlayerStints, StintFrom
<1>15. QED
  BY <1>12, <1>13, <1>14 DEF Covers

\* His stints are spans of the days there have been, each for one team.
LEMMA StintsAreWindows ==
  ASSUME DaysInv, NEW p \in Players
  PROVE  Windowed(PlayerStints(p))
<1>1. ASSUME NEW f \in StintDays(p)
      PROVE  /\ StintFrom(p, f).team \in DOMAIN GameDaysOf
             /\ StintFrom(p, f).first \in DOMAIN pastDays /\ StintFrom(p, f).last \in DOMAIN pastDays
             /\ StintFrom(p, f).first <= StintFrom(p, f).last
  <2>1. f \in RowDays(p)
    BY DEF StintDays
  <2>2. QED
    BY <2>1, StintIs, TheDays
<1>2. QED
  BY <1>1 DEF Windowed, PlayerStints, StintFrom

\* Where two sets of windows overlap is where both cover.
LEMMA OverlapsAre ==
  ASSUME DaysInv, NEW ours, NEW theirs, Windowed(ours), Windowed(theirs)
  PROVE  /\ Windowed(Overlaps(ours, theirs))
         /\ \A team : \A d \in DOMAIN pastDays :
              Covers(Overlaps(ours, theirs), team, d) <=> Covers(ours, team, d) /\ Covers(theirs, team, d)
<1> DEFINE Meet(a, b) == [team |-> a.team, first |-> Max({a.first, b.first}), last |-> Min({a.last, b.last})]
           Meets(a, b) == a.team = b.team /\ a.first <= b.last /\ b.first <= a.last
           n == Len(pastDays)
<1>1. n \in Nat /\ DOMAIN pastDays = 1..n
  BY TheDays
<1>2. /\ \A w \in Overlaps(ours, theirs) : \E a \in ours, b \in theirs : Meets(a, b) /\ w = Meet(a, b)
      /\ \A a \in ours, b \in theirs : Meets(a, b) => Meet(a, b) \in Overlaps(ours, theirs)
  <2>1. ASSUME NEW w \in Overlaps(ours, theirs)
        PROVE  \E a \in ours, b \in theirs : Meets(a, b) /\ w = Meet(a, b)
    <3>1. PICK pair \in ours \X theirs : Meets(pair[1], pair[2]) /\ w = Meet(pair[1], pair[2])
      BY DEF Overlaps
    <3>2. QED
      BY <3>1
  <2>2. ASSUME NEW a \in ours, NEW b \in theirs, Meets(a, b) PROVE Meet(a, b) \in Overlaps(ours, theirs)
    <3>1. << a, b >> \in ours \X theirs /\ << a, b >>[1] = a /\ << a, b >>[2] = b
      OBVIOUS
    <3>2. QED
      BY <2>2, <3>1 DEF Overlaps
  <2>3. QED
    BY <2>1, <2>2
<1>3. ASSUME NEW a \in ours, NEW b \in theirs
      PROVE  /\ Meet(a, b).team = a.team
             /\ Meet(a, b).first \in {a.first, b.first} /\ a.first <= Meet(a, b).first /\ b.first <= Meet(a, b).first
             /\ Meet(a, b).last \in {a.last, b.last} /\ Meet(a, b).last <= a.last /\ Meet(a, b).last <= b.last
             /\ a.first \in 1..n /\ b.first \in 1..n /\ a.last \in 1..n /\ b.last \in 1..n
             /\ a.first <= a.last /\ b.first <= b.last /\ a.team \in DOMAIN GameDaysOf
  <2>1. /\ a.first \in 1..n /\ b.first \in 1..n /\ a.last \in 1..n /\ b.last \in 1..n
        /\ a.first <= a.last /\ b.first <= b.last /\ a.team \in DOMAIN GameDaysOf
    BY <1>1 DEF Windowed
  <2>2. a.first \in Int /\ b.first \in Int /\ a.last \in Int /\ b.last \in Int
    BY <1>1, <2>1
  <2>3. QED
    BY <2>1, <2>2, MinMaxOfTwo
<1> HIDE DEF Meet
<1>4. Windowed(Overlaps(ours, theirs))
  <2>1. ASSUME NEW w \in Overlaps(ours, theirs)
        PROVE  /\ w.team \in DOMAIN GameDaysOf
               /\ w.first \in DOMAIN pastDays /\ w.last \in DOMAIN pastDays /\ w.first <= w.last
    <3>1. PICK a \in ours, b \in theirs : Meets(a, b) /\ w = Meet(a, b)
      BY <1>2
    <3>2. QED
      BY <1>1, <1>3, <3>1
  <2>2. QED
    BY <2>1 DEF Windowed
<1>5. ASSUME NEW team, NEW d \in DOMAIN pastDays
      PROVE  Covers(Overlaps(ours, theirs), team, d) <=> Covers(ours, team, d) /\ Covers(theirs, team, d)
  <2>1. ASSUME NEW a \in ours, NEW b \in theirs
        PROVE  d \in Meet(a, b).first..Meet(a, b).last <=> d \in a.first..a.last /\ d \in b.first..b.last
    BY <1>1, <1>3
  <2>2. ASSUME NEW a \in ours, NEW b \in theirs, a.team = b.team, d \in a.first..a.last, d \in b.first..b.last
        PROVE  Meets(a, b)
    BY <1>1, <1>3, <2>2
  <2>3. ASSUME Covers(Overlaps(ours, theirs), team, d)
        PROVE  Covers(ours, team, d) /\ Covers(theirs, team, d)
    <3>1. PICK w \in Overlaps(ours, theirs) : w.team = team /\ d \in w.first..w.last
      BY <2>3 DEF Covers
    <3>2. PICK a \in ours, b \in theirs : Meets(a, b) /\ w = Meet(a, b)
      BY <1>2
    <3>3. a.team = team /\ b.team = team /\ d \in a.first..a.last /\ d \in b.first..b.last
      BY <1>3, <2>1, <3>1, <3>2
    <3>4. QED
      BY <3>3 DEF Covers
  <2>4. ASSUME Covers(ours, team, d), Covers(theirs, team, d)
        PROVE  Covers(Overlaps(ours, theirs), team, d)
    <3>1. PICK a \in ours : a.team = team /\ d \in a.first..a.last
      BY <2>4 DEF Covers
    <3>2. PICK b \in theirs : b.team = team /\ d \in b.first..b.last
      BY <2>4 DEF Covers
    <3>3. Meet(a, b) \in Overlaps(ours, theirs)
      BY <1>2, <2>2, <3>1, <3>2
    <3>4. Meet(a, b).team = team /\ d \in Meet(a, b).first..Meet(a, b).last
      BY <1>3, <2>1, <3>1, <3>2
    <3>5. QED
      BY <3>3, <3>4 DEF Covers
  <2>5. QED
    BY <2>3, <2>4
<1>6. QED
  BY <1>4, <1>5

\* The days his stints for a team cover are those he was on it.
LEMMA StintsCover ==
  ASSUME DaysInv, NEW p \in Players
  PROVE  \A team : \A d \in DOMAIN pastDays : Covers(PlayerStints(p), team, d) <=> OnTeam(p, team, d)
BY CoveredIsOnTeam, OnTeamIsCovered

\* The teammates a question names: one, or both of the two.
LEMMA MatesAre ==
  ASSUME DaysInv
  PROVE  /\ Mates \subseteq Players /\ "mate" \in Mates /\ IsFiniteSet(Mates)
         /\ role = "mate" => Mates = Players
         /\ role # "mate" => Mates = {"mate"}
<1>1. IsFiniteSet({"mate", "other"}) /\ IsFiniteSet({"mate"})
  BY FS_EmptySet, FS_AddElement, FS_Singleton
<1>2. QED
  BY <1>1 DEF Mates, Players

\* The spans a question's teammates were on a team together.
MatesWindows ==
  IF role = "mate" THEN Overlaps(PlayerStints("mate"), PlayerStints("other")) ELSE PlayerStints("mate")

\* Those spans cover the days they all were on it.
LEMMA MatesWindowsCover ==
  ASSUME DaysInv
  PROVE  /\ Windowed(MatesWindows)
         /\ \A team : \A d \in DOMAIN pastDays : Covers(MatesWindows, team, d) <=> \A m \in Mates : OnTeam(m, team, d)
<1>1. "mate" \in Players /\ "other" \in Players
  BY DEF Players
<1>2. /\ Windowed(PlayerStints("mate")) /\ Windowed(PlayerStints("other"))
  BY <1>1, StintsAreWindows
<1>3. ASSUME NEW team, NEW d \in DOMAIN pastDays
      PROVE  /\ Covers(PlayerStints("mate"), team, d) <=> OnTeam("mate", team, d)
             /\ Covers(PlayerStints("other"), team, d) <=> OnTeam("other", team, d)
  BY <1>1, StintsCover
<1>4. CASE role = "mate"
  <2>1. /\ Windowed(MatesWindows)
        /\ \A team : \A d \in DOMAIN pastDays :
             Covers(MatesWindows, team, d) <=> Covers(PlayerStints("mate"), team, d) /\ Covers(PlayerStints("other"), team, d)
    BY <1>2, <1>4, OverlapsAre DEF MatesWindows
  <2>2. Mates = {"mate", "other"}
    BY <1>4 DEF Mates
  <2>3. QED
    BY <1>3, <2>1, <2>2
<1>5. CASE role # "mate"
  <2>1. MatesWindows = PlayerStints("mate") /\ Mates = {"mate"}
    BY <1>5 DEF MatesWindows, Mates
  <2>2. QED
    BY <1>2, <1>3, <2>1
<1>6. QED
  BY <1>4, <1>5

\* The windows of a question cover just the days that are theirs.
LEMMA WindowsCover ==
  ASSUME DaysInv, NEW scope
  PROVE  /\ Windowed(Windows(scope))
         /\ \A team : \A d \in DOMAIN pastDays : Covers(Windows(scope), team, d) <=> Theirs(team, d, scope)
<1> DEFINE own == PlayerStints("other")
           together == Overlaps(own, MatesWindows)
<1>1. "other" \in Players /\ Windowed(own)
      /\ \A team : \A d \in DOMAIN pastDays : Covers(own, team, d) <=> OnTeam("other", team, d)
  BY StintsAreWindows, StintsCover DEF Players
<1>2. /\ Windowed(MatesWindows)
      /\ \A team : \A d \in DOMAIN pastDays : Covers(MatesWindows, team, d) <=> \A m \in Mates : OnTeam(m, team, d)
  BY MatesWindowsCover
<1>3. Windows(scope) = IF role # "subject" THEN MatesWindows
                       ELSE IF scope # 0 /\ together # {} THEN own ELSE together
  BY DEF Windows, MatesWindows
<1>4. /\ Windowed(together)
      /\ \A team : \A d \in DOMAIN pastDays : Covers(together, team, d) <=> Shared(team, d)
  <2>1. /\ Windowed(together)
        /\ \A team : \A d \in DOMAIN pastDays :
             Covers(together, team, d) <=> Covers(own, team, d) /\ Covers(MatesWindows, team, d)
    <3> HIDE DEF own
    <3>1. QED
      BY <1>1, <1>2, OverlapsAre
  <2>2. ASSUME NEW team, NEW d \in DOMAIN pastDays PROVE Covers(together, team, d) <=> Shared(team, d)
    <3> HIDE DEF own, together
    <3>1. QED
      BY <1>1, <1>2, <2>1 DEF Shared
  <2>3. QED
    BY <2>1, <2>2
<1> HIDE DEF own, together
<1>5. together # {} <=> \E t \in DOMAIN GameDaysOf, e \in DOMAIN pastDays : Shared(t, e)
  <2>1. ASSUME NEW w \in together PROVE \E t \in DOMAIN GameDaysOf, e \in DOMAIN pastDays : Shared(t, e)
    <3>1. /\ w.team \in DOMAIN GameDaysOf /\ w.first \in DOMAIN pastDays
          /\ w.last \in DOMAIN pastDays /\ w.first <= w.last
      BY <1>4 DEF Windowed
    <3>2. w.first \in w.first..w.last
      BY <3>1, TheDays
    <3>3. Covers(together, w.team, w.first)
      BY <3>2 DEF Covers
    <3>4. QED
      BY <1>4, <3>1, <3>3
  <2>2. ASSUME NEW t \in DOMAIN GameDaysOf, NEW e \in DOMAIN pastDays, Shared(t, e) PROVE together # {}
    <3>1. Covers(together, t, e)
      BY <1>4, <2>2
    <3>2. QED
      BY <3>1 DEF Covers
  <2>3. QED
    BY <2>1, <2>2
<1>6. CASE role # "subject"
  BY <1>2, <1>3, <1>6 DEF Theirs
<1>7. CASE role = "subject" /\ scope = 0
  <2>1. Windows(scope) = together
    BY <1>3, <1>7
  <2>2. \A team : \A d \in DOMAIN pastDays : Theirs(team, d, scope) <=> Shared(team, d)
    BY <1>7 DEF Theirs, Shared
  <2>3. QED
    BY <1>4, <2>1, <2>2
<1>8. CASE role = "subject" /\ scope # 0 /\ together # {}
  <2>1. Windows(scope) = own
    BY <1>3, <1>8
  <2>2. \A team : \A d \in DOMAIN pastDays : Theirs(team, d, scope) <=> OnTeam("other", team, d)
    BY <1>5, <1>8 DEF Theirs
  <2>3. QED
    BY <1>1, <2>1, <2>2
<1>9. CASE role = "subject" /\ scope # 0 /\ together = {}
  <2>1. Windows(scope) = together
    BY <1>3, <1>9
  <2>2. \A team : \A d \in DOMAIN pastDays : ~Theirs(team, d, scope)
    BY <1>5, <1>9 DEF Theirs
  <2>3. \A team : \A d \in DOMAIN pastDays : ~Covers(together, team, d)
    BY <1>9 DEF Covers
  <2>4. QED
    BY <1>4, <2>1, <2>2, <2>3
<1>10. QED
  BY <1>6, <1>7, <1>8, <1>9

\* The games of an answer, with or without a box score.
TheirGames(scope) ==
  {g \in (DOMAIN GameDaysOf) \X (DOMAIN pastDays) :
     /\ g[2] \in GamesBy(g[1]) /\ (scope = 0 \/ DayYears[g[2]] = scope)
     /\ Theirs(g[1], g[2], scope)
     /\ role = "beside" => Held("other", g[1], g[2], "played")}

\* The games inside a question's windows are those of their time on the team.
LEMMA InsideAreTheirs ==
  ASSUME DaysInv, NEW scope
  PROVE  InsideGames(Windows(scope), scope) = TheirGames(scope)
<1> DEFINE windows == Windows(scope)
           Kept(g) == /\ g[2] \in GamesBy(g[1])
                      /\ scope = 0 \/ DayYears[g[2]] = scope
                      /\ role = "beside" => Held("other", g[1], g[2], "played")
<1>1. /\ Windowed(windows)
      /\ \A team : \A d \in DOMAIN pastDays : Covers(windows, team, d) <=> Theirs(team, d, scope)
  BY WindowsCover
<1>2. Len(pastDays) \in Nat /\ DOMAIN pastDays = 1..Len(pastDays)
  BY TheDays
<1> HIDE DEF windows
<1>3. ASSUME NEW g
      PROVE  g \in UNION {{w.team} \X (w.first..w.last) : w \in windows}
               <=> g \in (DOMAIN GameDaysOf) \X (DOMAIN pastDays) /\ Covers(windows, g[1], g[2])
  <2>1. ASSUME NEW w \in windows, g \in {w.team} \X (w.first..w.last)
        PROVE  g \in (DOMAIN GameDaysOf) \X (DOMAIN pastDays) /\ Covers(windows, g[1], g[2])
    <3>1. /\ w.team \in DOMAIN GameDaysOf /\ w.first \in DOMAIN pastDays /\ w.last \in DOMAIN pastDays
      BY <1>1 DEF Windowed
    <3>2. w.first..w.last \subseteq DOMAIN pastDays
      BY <1>2, <3>1
    <3>3. g[1] = w.team /\ g[2] \in w.first..w.last /\ g = << g[1], g[2] >>
      BY <2>1
    <3>4. QED
      BY <3>1, <3>2, <3>3 DEF Covers
  <2>2. ASSUME g \in (DOMAIN GameDaysOf) \X (DOMAIN pastDays), Covers(windows, g[1], g[2])
        PROVE  \E w \in windows : g \in {w.team} \X (w.first..w.last)
    <3>1. PICK w \in windows : w.team = g[1] /\ g[2] \in w.first..w.last
      BY <2>2 DEF Covers
    <3>2. g = << g[1], g[2] >>
      BY <2>2
    <3>3. g \in {w.team} \X (w.first..w.last)
      BY <3>1, <3>2
    <3>4. QED
      BY <3>3
  <2>3. QED
    BY <2>1, <2>2
<1>4. InsideGames(windows, scope) = {g \in UNION {{w.team} \X (w.first..w.last) : w \in windows} : Kept(g)}
  BY DEF InsideGames
<1>5. ASSUME NEW g PROVE g \in InsideGames(windows, scope) <=> g \in TheirGames(scope)
  <2>1. g \in InsideGames(windows, scope) <=> /\ g \in (DOMAIN GameDaysOf) \X (DOMAIN pastDays)
                                             /\ Covers(windows, g[1], g[2]) /\ Kept(g)
    <3> HIDE DEF Kept
    <3>1. QED
      BY <1>3, <1>4
  <2>2. g \in (DOMAIN GameDaysOf) \X (DOMAIN pastDays) => g[2] \in DOMAIN pastDays
    OBVIOUS
  <2>3. g \in (DOMAIN GameDaysOf) \X (DOMAIN pastDays)
          => (Covers(windows, g[1], g[2]) <=> Theirs(g[1], g[2], scope))
    BY <1>1, <2>2
  <2>4. g \in TheirGames(scope) <=> /\ g \in (DOMAIN GameDaysOf) \X (DOMAIN pastDays)
                                   /\ Theirs(g[1], g[2], scope) /\ Kept(g)
    BY DEF TheirGames
  <2>5. QED
    BY <2>1, <2>3, <2>4
<1>6. InsideGames(windows, scope) = TheirGames(scope)
  BY <1>5
<1>7. QED
  BY <1>6 DEF windows

\* All or none of the named teammates, told by how many of them were in a game.
LEMMA HowMany ==
  ASSUME DaysInv, NEW g, NEW predicate
  PROVE  /\ CountsAsPlayed(g, TRUE, predicate) <=> \E m \in Mates : Held(m, g[1], g[2], predicate)
         /\ CountsAsPlayed(g, FALSE, predicate) <=> \A m \in Mates : Held(m, g[1], g[2], predicate)
<1> DEFINE Those == {m \in Mates : Held(m, g[1], g[2], predicate)}
<1>1. IsFiniteSet(Mates) /\ Those \subseteq Mates
  BY MatesAre
<1>2. /\ IsFiniteSet(Those) /\ Cardinality(Those) \in Nat
      /\ Cardinality(Those) = Cardinality(Mates) <=> Those = Mates
      /\ Cardinality(Those) = 0 <=> Those = {}
  <2> HIDE DEF Those
  <2>1. QED
    BY <1>1, FS_Subset, FS_EmptySet, FS_CardinalityType
<1>3. /\ CountsAsPlayed(g, TRUE, predicate) <=> Cardinality(Those) > 0
      /\ CountsAsPlayed(g, FALSE, predicate) <=> Cardinality(Those) = Cardinality(Mates)
  BY DEF CountsAsPlayed
<1>4. Cardinality(Those) > 0 <=> Those # {}
  <2> HIDE DEF Those
  <2>1. QED
    BY <1>2
<1>5. Those # {} <=> \E m \in Mates : Held(m, g[1], g[2], predicate)
  OBVIOUS
<1>6. Those = Mates <=> \A m \in Mates : Held(m, g[1], g[2], predicate)
  <2>1. ASSUME Those = Mates, NEW m \in Mates PROVE Held(m, g[1], g[2], predicate)
    <3>1. m \in Those
      BY <2>1
    <3>2. QED
      BY <3>1
  <2>2. ASSUME \A m \in Mates : Held(m, g[1], g[2], predicate) PROVE Those = Mates
    BY <2>2
  <2>3. QED
    BY <2>1, <2>2
<1>7. QED
  BY <1>2, <1>3, <1>4, <1>5, <1>6

\* What an answer is: the refused ones have no game that could be told.
LEMMA TheSplit ==
  ASSUME DaysInv, NEW scope, NEW without \in BOOLEAN, NEW predicate
  PROVE  LET answer == ReadWithWithout(scope, without, predicate)
             seen == {g \in TheirGames(scope) : SeenGame(g)}
         IN  \/ "refused" \in DOMAIN answer /\ "out" \notin DOMAIN answer /\ seen = {}
             \/ /\ "refused" \notin DOMAIN answer /\ seen # {}
                /\ answer.played = {g \in seen : CountsAsPlayed(g, without, predicate)}
                /\ answer.out = {g \in seen : ~CountsAsPlayed(g, without, predicate)}
                /\ answer.unknown = Cardinality(TheirGames(scope) \ seen)
<1> DEFINE answer == ReadWithWithout(scope, without, predicate)
           theirs == TheirGames(scope)
           seen == {g \in theirs : SeenGame(g)}
           Told == [ played |-> {g \in seen : CountsAsPlayed(g, without, predicate)},
                     out |-> {g \in seen : ~CountsAsPlayed(g, without, predicate)},
                     unknown |-> Cardinality(theirs \ seen) ]
<1>1. InsideGames(Windows(scope), scope) = theirs
  BY InsideAreTheirs
<1>2. answer = IF \E m \in Mates : PlayerStints(m) = {} THEN [refused |-> "teammate_never_seen"]
               ELSE IF Windows(scope) = {} THEN [refused |-> "never_together"]
               ELSE IF seen = {} THEN [refused |-> "together_outside_span"]
               ELSE Told
  BY <1>1 DEF ReadWithWithout
<1>3. \A m \in Mates : m \in Players
  BY MatesAre
<1>4. ASSUME NEW m \in Mates, PlayerStints(m) = {} PROVE theirs = {}
  <2>1. \A team : \A d \in DOMAIN pastDays : ~OnTeam(m, team, d)
    <3>1. \A team, d : ~Covers(PlayerStints(m), team, d)
      BY <1>4 DEF Covers
    <3>2. QED
      BY <1>3, <3>1, StintsCover
  <2>2. \A team : \A d \in DOMAIN pastDays : ~Theirs(team, d, scope)
    BY <2>1 DEF Theirs, Shared
  <2>3. \A g \in (DOMAIN GameDaysOf) \X (DOMAIN pastDays) : g[2] \in DOMAIN pastDays
    OBVIOUS
  <2>4. QED
    BY <2>2, <2>3 DEF TheirGames
<1>5. ASSUME Windows(scope) = {} PROVE theirs = {}
  <2>1. \A team : \A d \in DOMAIN pastDays : ~Theirs(team, d, scope)
    <3>1. \A team, d : ~Covers(Windows(scope), team, d)
      BY <1>5 DEF Covers
    <3>2. QED
      BY <3>1, WindowsCover
  <2>2. \A g \in (DOMAIN GameDaysOf) \X (DOMAIN pastDays) : g[2] \in DOMAIN pastDays
    OBVIOUS
  <2>3. QED
    BY <2>1, <2>2 DEF TheirGames
<1> HIDE DEF theirs
<1>6. theirs = {} => seen = {}
  OBVIOUS
<1>7. \A why : DOMAIN [refused |-> why] = {"refused"}
  OBVIOUS
<1>8. CASE (\E m \in Mates : PlayerStints(m) = {}) \/ Windows(scope) = {} \/ seen = {}
  <2>1. seen = {}
    BY <1>4, <1>5, <1>6, <1>8
  <2>2. DOMAIN answer = {"refused"}
    <3> HIDE DEF answer, Told, seen
    <3>1. QED
      BY <1>2, <1>7, <1>8
  <2>3. QED
    BY <2>1, <2>2 DEF theirs
<1>9. CASE ~((\E m \in Mates : PlayerStints(m) = {}) \/ Windows(scope) = {} \/ seen = {})
  <2>1. answer = Told
    <3> HIDE DEF answer, Told, seen
    <3>1. QED
      BY <1>2, <1>9
  <2>2. DOMAIN Told = {"played", "out", "unknown"}
    OBVIOUS
  <2>3. "refused" \notin DOMAIN answer
    <3> HIDE DEF answer, Told
    <3>1. QED
      BY <2>1, <2>2
  <2>4. /\ Told.played = {g \in seen : CountsAsPlayed(g, without, predicate)}
        /\ Told.out = {g \in seen : ~CountsAsPlayed(g, without, predicate)}
        /\ Told.unknown = Cardinality(theirs \ seen)
    OBVIOUS
  <2>5. seen # {}
    BY <1>9
  <2>6. QED
    BY <2>1, <2>3, <2>4, <2>5 DEF theirs
<1>10. QED
  BY <1>8, <1>9

\* The days there are stay days there can be.
LEMMA DaysInvIsKept ==
  /\ PresenceInit => DaysInv
  /\ DaysInv /\ [PresenceNext]_presenceVars => DaysInv'
<1>1. PresenceInit => DaysInv
  BY CalendarAssumption DEF PresenceInit, DaysInv, CalendarAssumption
<1>2. ASSUME DaysInv, PlayDay PROVE DaysInv'
  <2>1. PICK kind \in DayKinds[Len(pastDays) + 1] : pastDays' = Append(pastDays, kind)
    BY <1>2 DEF PlayDay
  <2>2. /\ Len(pastDays) \in Nat /\ Len(DayYears) \in Nat /\ DOMAIN DayKinds = 1..Len(DayYears)
        /\ Len(DayKinds) = Len(DayYears)
    BY <1>2, CalendarAssumption DEF DaysInv, CalendarAssumption
  <2>3. Len(pastDays) + 1 \in DOMAIN DayKinds
    BY <1>2, <2>2 DEF PlayDay
  <2> DEFINE Kinds == UNION {DayKinds[d] : d \in DOMAIN DayKinds}
  <2>4. kind \in Kinds /\ pastDays \in Seq(Kinds)
    BY <1>2, <2>1, <2>3 DEF DaysInv
  <2>5. pastDays' \in Seq(Kinds) /\ Len(pastDays') = Len(pastDays) + 1
    <3> HIDE DEF Kinds
    <3>1. QED
      BY <2>1, <2>4
  <2>6. Len(pastDays') <= Len(DayYears)
    BY <1>2, <2>2, <2>5 DEF PlayDay
  <2>7. ASSUME NEW d \in DOMAIN pastDays' PROVE pastDays'[d] \in DayKinds[d]
    <3>1. d \in 1..(Len(pastDays) + 1) /\ DOMAIN pastDays = 1..Len(pastDays)
      <4> HIDE DEF Kinds
      <4>1. QED
        BY <2>4, <2>5
    <3>2. CASE d \in 1..Len(pastDays)
      <4>1. pastDays'[d] = pastDays[d]
        <5> HIDE DEF Kinds
        <5>1. QED
          BY <2>1, <2>4, <3>2
      <4>2. QED
        BY <1>2, <3>1, <3>2, <4>1 DEF DaysInv
    <3>3. CASE d = Len(pastDays) + 1
      <4>1. pastDays'[d] = kind
        <5> HIDE DEF Kinds
        <5>1. QED
          BY <2>1, <2>4, <3>3
      <4>2. QED
        BY <2>1, <3>3, <4>1
    <3>4. QED
      BY <2>2, <3>1, <3>2, <3>3
  <2>8. QED
    BY <1>2, <2>5, <2>6, <2>7 DEF DaysInv, PlayDay
<1>3. ASSUME DaysInv, UNCHANGED presenceVars PROVE DaysInv'
  BY <1>3 DEF DaysInv, presenceVars
<1>4. QED
  BY <1>1, <1>2, <1>3 DEF PresenceNext, PresenceOver

\* What is told of any days there can be is the split there is.
LEMMA AnswersSplit == ASSUME DaysInv PROVE SplitIsTrue
<1> DEFINE did(g, m, predicate) == Held(m, g[1], g[2], predicate)
<1>1. ASSUME NEW scope \in {0} \cup {DayYears[d] : d \in DOMAIN pastDays},
             NEW without \in BOOLEAN, NEW predicate \in {"played", "started"}
      PROVE  LET seen == {g \in TheirGames(scope) : SeenGame(g)}
                 answer == ReadWithWithout(scope, without, predicate)
             IN  IF "refused" \in DOMAIN answer THEN seen = {}
                 ELSE /\ answer.played \cup answer.out = seen
                      /\ without => answer.out = {g \in seen : \A m \in Mates : ~did(g, m, predicate)}
                      /\ ~without => answer.played = {g \in seen : \A m \in Mates : did(g, m, predicate)}
                      /\ answer.unknown = Cardinality(TheirGames(scope) \ seen)
  <2> DEFINE seen == {g \in TheirGames(scope) : SeenGame(g)}
             answer == ReadWithWithout(scope, without, predicate)
  <2>1. \/ "refused" \in DOMAIN answer /\ seen = {}
        \/ /\ "refused" \notin DOMAIN answer
           /\ answer.played = {g \in seen : CountsAsPlayed(g, without, predicate)}
           /\ answer.out = {g \in seen : ~CountsAsPlayed(g, without, predicate)}
           /\ answer.unknown = Cardinality(TheirGames(scope) \ seen)
    BY TheSplit
  <2> HIDE DEF answer, seen, did
  <2>2. ASSUME "refused" \notin DOMAIN answer
        PROVE  /\ answer.played \cup answer.out = seen
               /\ without => answer.out = {g \in seen : \A m \in Mates : ~did(g, m, predicate)}
               /\ ~without => answer.played = {g \in seen : \A m \in Mates : did(g, m, predicate)}
    <3>1. /\ answer.played = {g \in seen : CountsAsPlayed(g, without, predicate)}
          /\ answer.out = {g \in seen : ~CountsAsPlayed(g, without, predicate)}
      BY <2>1, <2>2
    <3>2. answer.played \cup answer.out = seen
      BY <3>1
    <3>3. without => answer.out = {g \in seen : \A m \in Mates : ~did(g, m, predicate)}
      <4>1. ASSUME without = TRUE PROVE answer.out = {g \in seen : \A m \in Mates : ~did(g, m, predicate)}
        <5>1. answer.out = {g \in seen : ~CountsAsPlayed(g, TRUE, predicate)}
          BY <3>1, <4>1
        <5>2. \A g : ~CountsAsPlayed(g, TRUE, predicate) <=> \A m \in Mates : ~did(g, m, predicate)
          BY HowMany, Zenon DEF did
        <5>3. QED
          BY <5>1, <5>2
      <4>2. QED
        BY <4>1
    <3>4. ~without => answer.played = {g \in seen : \A m \in Mates : did(g, m, predicate)}
      <4>1. ASSUME without = FALSE PROVE answer.played = {g \in seen : \A m \in Mates : did(g, m, predicate)}
        <5>1. answer.played = {g \in seen : CountsAsPlayed(g, FALSE, predicate)}
          BY <3>1, <4>1
        <5>2. \A g : CountsAsPlayed(g, FALSE, predicate) <=> \A m \in Mates : did(g, m, predicate)
          BY HowMany, Zenon DEF did
        <5>3. QED
          BY <5>1, <5>2, Zenon
      <4>2. QED
        BY <4>1
    <3>5. QED
      BY <3>2, <3>3, <3>4
  <2>3. QED
    BY <2>1, <2>2 DEF answer, seen, did
<1>2. QED
  BY <1>1, Zenon DEF SplitIsTrue, TheirGames

\* Whatever the calendar, the teams and the rows, a game told with a teammate is of
\* their time on the team and one he was in, a game told without him one he was not
\* in, each told once, and the games without a box score are on neither side and
\* counted: the windows, the spans and the two sides of history's split
\* (presence.py).
THEOREM SplitsAreTrue == PresenceSpec => []SplitIsTrue
<1>1. PresenceInit => DaysInv
  BY DaysInvIsKept
<1>2. DaysInv /\ [PresenceNext]_presenceVars => DaysInv'
  BY DaysInvIsKept
<1>3. DaysInv => SplitIsTrue
  BY AnswersSplit
<1>4. QED
  BY <1>1, <1>2, <1>3, PTL DEF PresenceSpec

-----------------------------------------------------------------------------
(***************************************************************************)
(* The games without a teammate.                                            *)
(***************************************************************************)

\* Who has a row for a team is on it.
LEMMA RowIsOnTeam ==
  ASSUME DaysInv, NEW p \in Players, NEW d \in RowDays(p)
  PROVE  OnTeam(p, RowOn(p, d).team, d)
<1>1. d \in DOMAIN pastDays /\ d \in Int /\ d \in GamesBy(RowOn(p, d).team)
  BY TheDays
<1>2. d..d = {d} /\ d <= d
  BY <1>1
<1>3. QED
  BY <1>1, <1>2 DEF OnTeam

\* Who is on a team has a row for it of that season, and none for another then.
LEMMA OnTeamHasARow ==
  ASSUME DaysInv, NEW p \in Players, NEW team, NEW d \in DOMAIN pastDays, OnTeam(p, team, d)
  PROVE  /\ \E x \in RowDays(p) : RowOn(p, x).team = team /\ DayYears[x] = DayYears[d]
         /\ d \in RowDays(p) => RowOn(p, d).team = team
<1> DEFINE n == Len(pastDays)
           Stays(r, until) == \A e \in r..until : RowOn(p, e) = NoBoxRow \/ RowOn(p, e).team = team
<1>1. /\ n \in Nat /\ DOMAIN pastDays = 1..n /\ RowDays(p) \subseteq 1..n
      /\ \A x \in 1..n : DayYears[x] \in Nat
      /\ \A x, z \in 1..n : x <= z => DayYears[x] <= DayYears[z]
      /\ \A x \in RowDays(p) : RowOn(p, x) # NoBoxRow
  BY TheDays DEF RowDays
<1>2. PICK r \in RowDays(p) :
        /\ r <= d /\ Stays(r, d)
        /\ \/ DayYears[d] = DayYears[r]
           \/ \E s \in RowDays(p) :
                /\ d <= s /\ Stays(r, s)
                /\ \A y \in DayYears[r]..DayYears[s] - 1 : \E e \in RowDays(p) \cap r..s : DayYears[e] = y + 1
  BY DEF OnTeam
<1>3. RowOn(p, r).team = team /\ r \in 1..n
  <2>1. r \in r..d /\ RowOn(p, r) # NoBoxRow
    BY <1>1, <1>2
  <2>2. QED
    BY <1>1, <1>2, <2>1
<1>4. d \in RowDays(p) => RowOn(p, d).team = team
  <2>1. d \in r..d
    BY <1>1, <1>2, <1>3
  <2>2. QED
    BY <1>1, <1>2, <2>1
<1>5. CASE DayYears[d] = DayYears[r]
  BY <1>3, <1>4, <1>5
<1>6. ASSUME DayYears[d] # DayYears[r], NEW s \in RowDays(p), d <= s, Stays(r, s),
             \A y \in DayYears[r]..DayYears[s] - 1 : \E e \in RowDays(p) \cap r..s : DayYears[e] = y + 1
      PROVE  \E x \in RowDays(p) : RowOn(p, x).team = team /\ DayYears[x] = DayYears[d]
  <2>1. /\ DayYears[r] \in Nat /\ DayYears[d] \in Nat /\ DayYears[s] \in Nat
        /\ DayYears[r] <= DayYears[d] /\ DayYears[d] <= DayYears[s]
    BY <1>1, <1>2, <1>3, <1>6
  <2>2. DayYears[d] - 1 \in DayYears[r]..DayYears[s] - 1 /\ (DayYears[d] - 1) + 1 = DayYears[d]
    BY <1>6, <2>1
  <2>3. PICK x \in RowDays(p) \cap r..s : DayYears[x] = DayYears[d]
    BY <1>6, <2>2
  <2>4. RowOn(p, x).team = team
    BY <1>1, <1>6, <2>3
  <2>5. QED
    BY <2>3, <2>4
<1>7. QED
  BY <1>2, <1>4, <1>5, <1>6

\* The games of a list, and who was on a side of them.
LEMMA TenureIs ==
  ASSUME DaysInv, NEW scope \in {0} \cup {DayYears[d] : d \in DOMAIN pastDays},
         NEW d \in DOMAIN pastDays, InSpan(d, scope), NEW side
  PROVE  InTenure(d, scope, side) <=> \E t \in SideTeams(side, d) : OnTeam("mate", t, d)
<1>1. /\ Len(pastDays) \in Nat /\ DOMAIN pastDays = 1..Len(pastDays)
      /\ \A x \in DOMAIN pastDays : DayYears[x] \in Nat
      /\ \A x, z \in DOMAIN pastDays : x <= z => DayYears[x] <= DayYears[z]
      /\ "mate" \in Players
  BY TheDays DEF Players
<1>2. ASSUME NEW w \in PlayerStints("mate"), d \in w.first..w.last
      PROVE  scope # 0 => DayYears[w.first] <= scope /\ scope <= DayYears[w.last]
  <2>1. w.first \in DOMAIN pastDays /\ w.last \in DOMAIN pastDays
    BY <1>1, StintsAreWindows DEF Windowed
  <2>2. w.first <= d /\ d <= w.last
    BY <1>1, <1>2, <2>1
  <2>3. QED
    BY <1>1, <2>1, <2>2 DEF InSpan
<1>3. InTenure(d, scope, side) <=> \E w \in PlayerStints("mate") : w.team \in SideTeams(side, d) /\ d \in w.first..w.last
  BY <1>2 DEF InTenure
<1>4. \A t : Covers(PlayerStints("mate"), t, d) <=> OnTeam("mate", t, d)
  BY <1>1, StintsCover
<1>5. QED
  BY <1>3, <1>4 DEF Covers

\* A game of the list: his, in his span, with the team his row of it names, and
\* against one other.
LEMMA BaseGame ==
  ASSUME DaysInv, NEW scope, NEW d \in BaseGames(scope)
  PROVE  /\ d \in DOMAIN pastDays /\ InSpan(d, scope) /\ d \in RowDays("other")
         /\ HisTeam(d) \in DOMAIN GameDaysOf /\ d \in GamesBy(HisTeam(d)) /\ d \in GameDaysOf[HisTeam(d)]
         /\ HisTeam(d) \in pastDays[d].seen
         /\ OnTeam("other", HisTeam(d), d)
         /\ \A t \in Facing(d), u \in Facing(d) : t = u
<1>1. d \in DOMAIN pastDays /\ InSpan(d, scope) /\ d \in RowDays("other") /\ RowOn("other", d).did # "sat"
  BY DEF BaseGames, Played, RowDays
<1>2. "other" \in Players
  BY DEF Players
<1>3. /\ HisTeam(d) \in DOMAIN GameDaysOf /\ d \in GamesBy(HisTeam(d)) /\ d \in GameDaysOf[HisTeam(d)]
      /\ HisTeam(d) \in pastDays[d].seen
  BY <1>1, <1>2, TheDays DEF HisTeam, GamesBy
<1>4. OnTeam("other", HisTeam(d), d)
  BY <1>1, <1>2, RowIsOnTeam DEF HisTeam
<1>5. ASSUME NEW t \in Facing(d), NEW u \in Facing(d) PROVE t = u
  <2>1. /\ t \in DOMAIN GameDaysOf /\ u \in DOMAIN GameDaysOf /\ t # HisTeam(d) /\ u # HisTeam(d)
        /\ d \in GameDaysOf[t] \cap GameDaysOf[u] \cap GameDaysOf[HisTeam(d)]
    BY <1>3 DEF Facing
  <2>2. QED
    BY <1>3, <2>1, OpponentsAssumption DEF OpponentsAssumption
<1>6. QED
  BY <1>1, <1>3, <1>4, <1>5

\* What a list holds.
ToldWithout(scope, opponent) ==
  {d \in BaseGames(scope) : /\ opponent = {} \/ opponent \cap Facing(d) # {}
                            /\ AbsenceHolds(AbsenceCondition(scope, opponent), d, scope)}

\* What the list holds, and when it says they were not teammates then.
LEMMA TheList ==
  ASSUME NEW scope, NEW opponent
  PROVE  LET answer == ReadWithout(scope, opponent)
         IN  /\ (IF "games" \in DOMAIN answer THEN answer.games ELSE {}) = ToldWithout(scope, opponent)
             /\ answer = [refused |-> "not_teammates_then"] => \A d \in BaseGames(scope) : ~InTenure(d, scope, "own")
<1> DEFINE answer == ReadWithout(scope, opponent)
           base == BaseGames(scope)
           condition == AbsenceCondition(scope, opponent)
           games == ToldWithout(scope, opponent)
           strangers == /\ condition = [side |-> "own", bounded |-> TRUE]
                        /\ \A d \in base : ~InTenure(d, scope, "own")
           why == IF base = {} THEN "no_games_in_span" ELSE IF strangers THEN "not_teammates_then" ELSE "none_matched"
<1>1. answer = IF games # {} THEN [games |-> games, side |-> condition.side] ELSE [refused |-> why]
  BY DEF ReadWithout, ToldWithout
<1>2. /\ DOMAIN [games |-> games, side |-> condition.side] = {"games", "side"}
      /\ [games |-> games, side |-> condition.side].games = games
      /\ DOMAIN [refused |-> why] = {"refused"} /\ [refused |-> why].refused = why
      /\ DOMAIN [refused |-> "not_teammates_then"] = {"refused"}
      /\ [refused |-> "not_teammates_then"].refused = "not_teammates_then"
  <2> HIDE DEF games, condition, why
  <2>1. QED
    OBVIOUS
<1>3. why = "not_teammates_then" => strangers
  <2> HIDE DEF base, strangers
  <2>1. QED
    OBVIOUS
<1>4. (IF "games" \in DOMAIN answer THEN answer.games ELSE {}) = games
  <2> HIDE DEF answer, games, condition, why
  <2>1. CASE games # {}
    BY <1>1, <1>2, <2>1
  <2>2. CASE games = {}
    BY <1>1, <1>2, <2>2
  <2>3. QED
    BY <2>1, <2>2
<1>5. ASSUME answer = [refused |-> "not_teammates_then"] PROVE strangers
  <2> HIDE DEF answer, games, condition, why, strangers
  <2>1. games = {}
    BY <1>1, <1>2, <1>5
  <2>2. QED
    BY <1>1, <1>2, <1>3, <1>5, <2>1
<1>6. QED
  BY <1>4, <1>5

\* The teammate was in the game, for the subject's team.
PlayedFor(d) == Played("mate", d) /\ RowOn("mate", d).team = HisTeam(d)

\* The games of the list against the named opponent, if one is named.
Versus(scope, opponent) == {d \in BaseGames(scope) : opponent = {} \/ opponent \cap Facing(d) # {}}

\* Of those, the ones the teammate was on the team for and not in.
Missed(scope, opponent) == {d \in Versus(scope, opponent) : OnTeam("mate", HisTeam(d), d) /\ ~PlayedFor(d)}

\* Which of the two conditions a list is under, and whether it is bounded by the
\* teammate's time.
LEMMA TheCondition ==
  ASSUME NEW scope, NEW opponent
  PROVE  LET condition == AbsenceCondition(scope, opponent)
         IN  \/ /\ condition.side = "opponent" /\ condition.bounded = (scope = 0)
                /\ ~TeammatesAmong(scope) /\ opponent # {}
             \/ condition.side = "own" /\ condition.bounded = (scope = 0 \/ ~TeammatesAmong(0))
BY DEF AbsenceCondition

\* A list for the other side: none he was in, and over a career those of his time there.
LEMMA AcrossIsTrue ==
  ASSUME DaysInv, NEW scope \in {0} \cup {DayYears[d] : d \in DOMAIN pastDays},
         NEW opponent \in {{}} \cup {{t} : t \in DOMAIN GameDaysOf},
         AbsenceCondition(scope, opponent).side = "opponent", NEW d \in ToldWithout(scope, opponent)
  PROVE  ~Played("mate", d) /\ (scope = 0 => \E t \in opponent : OnTeam("mate", t, d))
<1> DEFINE condition == AbsenceCondition(scope, opponent)
<1>1. condition.side = "opponent" /\ condition.bounded = (scope = 0) /\ ~TeammatesAmong(scope) /\ opponent # {}
  BY TheCondition
<1>2. d \in BaseGames(scope) /\ opponent \cap Facing(d) # {} /\ AbsenceHolds(condition, d, scope)
  BY <1>1 DEF ToldWithout
<1> HIDE DEF condition
<1>3. /\ d \in DOMAIN pastDays /\ InSpan(d, scope) /\ d \in RowDays("other")
      /\ \A t \in Facing(d), u \in Facing(d) : t = u
  BY <1>2, BaseGame
<1>4. CASE scope = 0
  <2>1. condition.bounded = TRUE
    BY <1>1, <1>4
  <2>2. InTenure(d, scope, "opponent") /\ ~Played("mate", d)
    BY <1>1, <1>2, <2>1 DEF AbsenceHolds
  <2>3. PICK t \in SideTeams("opponent", d) : OnTeam("mate", t, d)
    BY <1>3, <2>2, TenureIs
  <2>4. t \in Facing(d)
    BY <2>3 DEF SideTeams
  <2>5. QED
    BY <1>2, <1>3, <2>2, <2>3, <2>4
<1>5. CASE scope # 0
  <2>1. condition.bounded = FALSE
    BY <1>1, <1>5
  <2>2. ~(Played("mate", d) /\ RowOn("mate", d).team \in Facing(d))
    BY <1>1, <1>2, <2>1 DEF AbsenceHolds, SideTeams
  <2>3. ASSUME Played("mate", d) PROVE FALSE
    <3>1. d \in RowDays("mate") /\ "mate" \in Players
      BY <1>3, <2>3 DEF Played, RowDays, Players
    <3>2. RowOn("mate", d).team \in DOMAIN GameDaysOf /\ d \in GamesBy(RowOn("mate", d).team)
      BY <3>1, TheDays
    <3>3. RowOn("mate", d).team # HisTeam(d)
      BY <1>1, <1>3, <3>1 DEF TeammatesAmong, HisTeam
    <3>4. RowOn("mate", d).team \in Facing(d)
      BY <3>2, <3>3 DEF Facing, GamesBy
    <3>5. QED
      BY <2>2, <2>3, <3>4
  <2>4. QED
    BY <1>5, <2>3
<1>6. QED
  BY <1>4, <1>5

\* A list for his own side: the games missed and no game he was in; over a
\* career, and where the two were never teammates, just those missed; else all
\* those he was not in.
LEMMA OwnIsTrue ==
  ASSUME DaysInv, NEW scope \in {0} \cup {DayYears[d] : d \in DOMAIN pastDays}, NEW opponent,
         AbsenceCondition(scope, opponent).side # "opponent"
  PROVE  /\ scope = 0 \/ ~TeammatesAmong(0) => ToldWithout(scope, opponent) = Missed(scope, opponent)
         /\ ~(scope = 0 \/ ~TeammatesAmong(0)) =>
              ToldWithout(scope, opponent) = {d \in Versus(scope, opponent) : ~PlayedFor(d)}
<1> DEFINE condition == AbsenceCondition(scope, opponent)
           versus == Versus(scope, opponent)
<1>1. condition.side = "own" /\ condition.bounded = (scope = 0 \/ ~TeammatesAmong(0))
  BY TheCondition
<1>2. ToldWithout(scope, opponent) = {d \in versus : AbsenceHolds(condition, d, scope)}
  BY DEF ToldWithout, Versus
<1>3. \A d \in versus : d \in BaseGames(scope)
  BY DEF Versus
<1> HIDE DEF condition, versus
<1>4. CASE scope = 0 \/ ~TeammatesAmong(0)
  <2>1. condition.bounded = TRUE
    BY <1>1, <1>4
  <2>2. ASSUME NEW d \in versus
        PROVE  AbsenceHolds(condition, d, scope) <=> OnTeam("mate", HisTeam(d), d) /\ ~PlayedFor(d)
    <3>1. d \in DOMAIN pastDays /\ InSpan(d, scope)
      BY <1>3, <2>2, BaseGame
    <3>2. InTenure(d, scope, "own") <=> OnTeam("mate", HisTeam(d), d)
      <4>1. SideTeams("own", d) = {HisTeam(d)}
        BY DEF SideTeams
      <4>2. QED
        BY <3>1, <4>1, TenureIs
    <3>3. OnTeam("mate", HisTeam(d), d) => (Played("mate", d) <=> PlayedFor(d))
      <4>1. "mate" \in Players /\ (Played("mate", d) => d \in RowDays("mate"))
        BY <3>1 DEF Players, Played, RowDays
      <4>2. QED
        BY <3>1, <4>1, OnTeamHasARow DEF PlayedFor
    <3>4. QED
      BY <1>1, <2>1, <3>2, <3>3 DEF AbsenceHolds
  <2>3. QED
    BY <1>2, <1>4, <2>2 DEF Missed, versus
<1>5. CASE ~(scope = 0 \/ ~TeammatesAmong(0))
  <2>1. condition.bounded = FALSE
    BY <1>1, <1>5
  <2>2. \A d : AbsenceHolds(condition, d, scope) <=> ~PlayedFor(d)
    BY <1>1, <2>1 DEF AbsenceHolds, SideTeams, PlayedFor
  <2>3. QED
    BY <1>2, <1>5, <2>2 DEF versus
<1>6. QED
  BY <1>4, <1>5

\* The split's games without are the list's.
LEMMA SplitAgrees ==
  ASSUME DaysInv, role = "subject", NEW scope \in {0} \cup {DayYears[d] : d \in DOMAIN pastDays}, NEW opponent,
         AbsenceCondition(scope, opponent).side # "opponent",
         "out" \in DOMAIN ReadWithWithout(scope, TRUE, "played")
  PROVE  ToldWithout(scope, opponent)
           = {d \in Versus(scope, opponent) : << HisTeam(d), d >> \in ReadWithWithout(scope, TRUE, "played").out}
<1> DEFINE split == ReadWithWithout(scope, TRUE, "played")
           seen == {g \in TheirGames(scope) : SeenGame(g)}
           versus == Versus(scope, opponent)
<1>1. seen # {} /\ split.out = {g \in seen : ~CountsAsPlayed(g, TRUE, "played")}
  BY TheSplit
<1>2. Mates = {"mate"}
  BY MatesAre
<1>3. \A g : CountsAsPlayed(g, TRUE, "played") <=> Held("mate", g[1], g[2], "played")
  BY <1>2, HowMany
<1> HIDE DEF split
<1>4. ASSUME NEW d \in versus
      PROVE  << HisTeam(d), d >> \in split.out <=> Theirs(HisTeam(d), d, scope) /\ ~PlayedFor(d)
  <2> DEFINE g == << HisTeam(d), d >>
  <2>1. d \in BaseGames(scope)
    BY DEF Versus
  <2>2. /\ d \in DOMAIN pastDays /\ InSpan(d, scope) /\ HisTeam(d) \in DOMAIN GameDaysOf
        /\ d \in GamesBy(HisTeam(d)) /\ HisTeam(d) \in pastDays[d].seen
    BY <2>1, BaseGame
  <2>3. g[1] = HisTeam(d) /\ g[2] = d /\ g \in (DOMAIN GameDaysOf) \X (DOMAIN pastDays)
    BY <2>2
  <2>4. SeenGame(g)
    BY <2>2, <2>3 DEF SeenGame
  <2>5. Held("mate", HisTeam(d), d, "played") <=> PlayedFor(d)
    <3>1. "mate" \in Players /\ (RowOn("mate", d) # NoBoxRow => d \in RowDays("mate"))
      BY <2>2 DEF Players, RowDays
    <3>2. RowOn("mate", d) # NoBoxRow => RowOn("mate", d).did \in {"sat", "bench", "started"}
      BY <3>1, TheDays
    <3>3. QED
      BY <3>2 DEF Held, PlayedFor, Played
  <2> HIDE DEF g
  <2>6. g \in TheirGames(scope) <=> Theirs(HisTeam(d), d, scope)
    <3>1. scope = 0 \/ DayYears[d] = scope
      BY <2>2 DEF InSpan
    <3>2. role # "beside"
      OBVIOUS
    <3>3. QED
      BY <2>2, <2>3, <3>1, <3>2 DEF TheirGames
  <2>7. g \in split.out <=> Theirs(HisTeam(d), d, scope) /\ ~PlayedFor(d)
    BY <1>1, <1>3, <2>3, <2>4, <2>5, <2>6
  <2>8. QED
    BY <2>7 DEF g
<1>5. ASSUME NEW d \in versus
      PROVE  /\ scope = 0 => (Theirs(HisTeam(d), d, scope) <=> OnTeam("mate", HisTeam(d), d))
             /\ scope # 0 => (Theirs(HisTeam(d), d, scope)
                                <=> \E t \in DOMAIN GameDaysOf, e \in DOMAIN pastDays : Shared(t, e))
  <2>1. d \in BaseGames(scope)
    BY DEF Versus
  <2>2. OnTeam("other", HisTeam(d), d)
    BY <2>1, BaseGame
  <2>3. Shared(HisTeam(d), d) <=> OnTeam("mate", HisTeam(d), d)
    BY <1>2, <2>2 DEF Shared
  <2>4. QED
    BY <2>2, <2>3 DEF Theirs
<1>6. scope # 0 => \E t \in DOMAIN GameDaysOf, e \in DOMAIN pastDays : Shared(t, e)
  <2>1. PICK g \in TheirGames(scope) : TRUE
    BY <1>1
  <2>2. Theirs(g[1], g[2], scope)
    BY <2>1 DEF TheirGames
  <2>3. QED
    BY <2>2 DEF Theirs
<1>7. scope # 0 => TeammatesAmong(0)
  <2>1. ASSUME NEW t, NEW e \in DOMAIN pastDays, Shared(t, e) PROVE TeammatesAmong(0)
    <3>1. "mate" \in Players /\ "other" \in Players /\ OnTeam("mate", t, e) /\ OnTeam("other", t, e)
      BY <1>2, <2>1 DEF Players, Shared
    <3>2. PICK x \in RowDays("mate") : RowOn("mate", x).team = t /\ DayYears[x] = DayYears[e]
      BY <3>1, OnTeamHasARow
    <3>3. PICK z \in RowDays("other") : RowOn("other", z).team = t /\ DayYears[z] = DayYears[e]
      BY <3>1, OnTeamHasARow
    <3>4. InSpan(z, 0)
      BY DEF InSpan
    <3>5. QED
      BY <3>2, <3>3, <3>4 DEF TeammatesAmong
  <2>2. QED
    BY <1>6, <2>1
<1> HIDE DEF versus, seen
<1>8. CASE scope = 0
  <2>1. ToldWithout(scope, opponent) = {d \in versus : OnTeam("mate", HisTeam(d), d) /\ ~PlayedFor(d)}
    BY <1>8, OwnIsTrue DEF Missed, versus
  <2>2. \A d \in versus : << HisTeam(d), d >> \in split.out <=> OnTeam("mate", HisTeam(d), d) /\ ~PlayedFor(d)
    BY <1>4, <1>5, <1>8
  <2>3. QED
    BY <2>1, <2>2 DEF versus, split
<1>9. CASE scope # 0
  <2>1. ToldWithout(scope, opponent) = {d \in versus : ~PlayedFor(d)}
    BY <1>7, <1>9, OwnIsTrue DEF versus
  <2>2. \A d \in versus : << HisTeam(d), d >> \in split.out <=> ~PlayedFor(d)
    BY <1>4, <1>5, <1>6, <1>9
  <2>3. QED
    BY <2>1, <2>2 DEF versus, split
<1>10. QED
  BY <1>8, <1>9

\* What is told of any days there can be is one reading of the words.
LEMMA WithoutAnswers == ASSUME DaysInv PROVE WithoutIsOneReading
<1>1. ASSUME role = "subject", NEW scope \in {0} \cup {DayYears[d] : d \in DOMAIN pastDays},
             NEW opponent \in {{}} \cup {{t} : t \in DOMAIN GameDaysOf}
      PROVE  LET answer == ReadWithout(scope, opponent)
                 split == ReadWithWithout(scope, TRUE, "played")
                 told == IF "games" \in DOMAIN answer THEN answer.games ELSE {}
                 versus == {d \in BaseGames(scope) : opponent = {} \/ opponent \cap Facing(d) # {}}
                 playedFor(d) == Played("mate", d) /\ RowOn("mate", d).team = HisTeam(d)
                 missed == {d \in versus : OnTeam("mate", HisTeam(d), d) /\ ~playedFor(d)}
                 across == AbsenceCondition(scope, opponent).side = "opponent"
             IN  /\ across => \A d \in told : ~Played("mate", d) /\ (scope = 0 => \E t \in opponent : OnTeam("mate", t, d))
                 /\ ~across => told \subseteq {d \in versus : ~playedFor(d)} /\ missed \subseteq told
                 /\ ~across /\ scope = 0 => told = missed
                 /\ ~across /\ "out" \in DOMAIN split => told = {d \in versus : << HisTeam(d), d >> \in split.out}
                 /\ answer = [refused |-> "not_teammates_then"] => \A d \in BaseGames(scope) : ~OnTeam("mate", HisTeam(d), d)
  <2> DEFINE answer == ReadWithout(scope, opponent)
             split == ReadWithWithout(scope, TRUE, "played")
             told == IF "games" \in DOMAIN answer THEN answer.games ELSE {}
             versus == {d \in BaseGames(scope) : opponent = {} \/ opponent \cap Facing(d) # {}}
             playedFor(d) == Played("mate", d) /\ RowOn("mate", d).team = HisTeam(d)
             missed == {d \in versus : OnTeam("mate", HisTeam(d), d) /\ ~playedFor(d)}
             across == AbsenceCondition(scope, opponent).side = "opponent"
  <2>1. told = ToldWithout(scope, opponent) /\ versus = Versus(scope, opponent) /\ missed = Missed(scope, opponent)
        /\ \A d : playedFor(d) <=> PlayedFor(d)
    BY TheList DEF Versus, Missed, PlayedFor
  <2>2. across => \A d \in told : ~Played("mate", d) /\ (scope = 0 => \E t \in opponent : OnTeam("mate", t, d))
    <3> HIDE DEF told
    <3>1. QED
      BY <2>1, AcrossIsTrue
  <2>3. ~across => told \subseteq {d \in versus : ~playedFor(d)} /\ missed \subseteq told
    <3> HIDE DEF told, versus, missed, playedFor
    <3>1. Missed(scope, opponent) \subseteq {d \in Versus(scope, opponent) : ~PlayedFor(d)}
      BY DEF Missed
    <3>2. {d \in versus : ~playedFor(d)} = {d \in Versus(scope, opponent) : ~PlayedFor(d)}
      BY <2>1
    <3>3. QED
      BY <2>1, <3>1, <3>2, OwnIsTrue
  <2>4. ~across /\ scope = 0 => told = missed
    <3> HIDE DEF told, versus, missed, playedFor
    <3>1. QED
      BY <2>1, OwnIsTrue
  <2>5. ~across /\ "out" \in DOMAIN split => told = {d \in versus : << HisTeam(d), d >> \in split.out}
    <3> HIDE DEF told, versus, missed, playedFor
    <3>1. QED
      BY <1>1, <2>1, SplitAgrees
  <2>6. ASSUME answer = [refused |-> "not_teammates_then"], NEW d \in BaseGames(scope)
        PROVE  ~OnTeam("mate", HisTeam(d), d)
    <3>1. ~InTenure(d, scope, "own")
      BY <2>6, TheList
    <3>2. d \in DOMAIN pastDays /\ InSpan(d, scope) /\ SideTeams("own", d) = {HisTeam(d)}
      BY BaseGame DEF SideTeams
    <3>3. QED
      BY <3>1, <3>2, TenureIs
  <2>7. QED
    BY <2>2, <2>3, <2>4, <2>5, <2>6
<1>2. QED
  BY <1>1, Zenon DEF WithoutIsOneReading

\* Whatever the calendar, the teams and the rows, the games without a man are, over
\* a career, those he missed of their time on one team; over a season those and any
\* other he was not in, as the split tells them; and, of a man with the named
\* opponent, those he missed over there: the conditions of the readers of an
\* absence (presence.py, compose) agree with the split's.
THEOREM WithoutIsTrue == PresenceSpec => []WithoutIsOneReading
<1>1. PresenceInit => DaysInv
  BY DaysInvIsKept
<1>2. DaysInv /\ [PresenceNext]_presenceVars => DaysInv'
  BY DaysInvIsKept
<1>3. DaysInv => WithoutIsOneReading
  BY WithoutAnswers
<1>4. QED
  BY <1>1, <1>2, <1>3, PTL DEF PresenceSpec
==============================================================================
