----------------------------- MODULE DataProofs -----------------------------
(***************************************************************************)
(* The parts of the pull that work alone, whatever their constants.         *)
(***************************************************************************)
EXTENDS Client, NetPoints, Notes, Storage, Warehouse, SetLemmas, SequenceTheorems

-----------------------------------------------------------------------------
(***************************************************************************)
(* The daily NetPoints files.                                               *)
(***************************************************************************)

\* The days a pull may ask for, and the ones beside them.
Dates == 0..LastDay + 1

\* A day of one game means that game, a day of none or of several none.
LEMMA OnlyGameMeans ==
  ASSUME NEW S, IsFiniteSet(S)
  PROVE  /\ \A g : S = {g} => OnlyGame(S) = g
         /\ S = {} => OnlyGame(S) = NoEvent
         /\ \A g, h \in S : g # h => OnlyGame(S) = NoEvent
         /\ OnlyGame(S) \in S \cup {NoEvent}
<1>1. ASSUME NEW g, S = {g} PROVE OnlyGame(S) = g
  <2>1. Cardinality(S) = 1
    BY <1>1, FS_Singleton
  <2>2. QED
    BY <1>1, <2>1 DEF OnlyGame
<1>2. ASSUME S = {} PROVE OnlyGame(S) = NoEvent
  <2>1. Cardinality(S) = 0
    BY <1>2, FS_EmptySet
  <2>2. QED
    BY <2>1 DEF OnlyGame
<1>3. ASSUME NEW g \in S, NEW h \in S, g # h PROVE OnlyGame(S) = NoEvent
  <2>1. Cardinality(S) # 1
    BY <1>3, FS_Singleton
  <2>2. QED
    BY <2>1 DEF OnlyGame
<1>4. OnlyGame(S) \in S \cup {NoEvent}
  <2>1. CASE Cardinality(S) = 1
    <3>1. \E g : S = {g}
      BY <2>1, FS_Singleton
    <3>2. QED
      BY <1>1, <3>1
  <2>2. CASE Cardinality(S) # 1
    BY <2>2 DEF OnlyGame
  <2>3. QED
    BY <2>1, <2>2
<1>5. QED
  BY <1>1, <1>2, <1>3, <1>4

\* What no step changes of the calendar.
CalendarInv ==
  /\ calendar \in [Days -> Tips \cup {NoEvent}]
  /\ \A d, e \in Days : calendar[d] = "junk" /\ calendar[e] = "junk" => d = e
  /\ NeverThreeRunning

\* The stored games that could be meant by a date.
EasternGames(d) == {g \in Played : EasternDay(g) = d}
UtcGames(d) == {g \in Played : UtcDay(g) = d}

\* There are finitely many days.
LEMMA DaysAreFinite == \A S \in SUBSET Days : IsFiniteSet(S)
<1>1. 1 \in Int /\ LastDay \in Int
  BY NetPointsAssumption DEF NetPointsAssumption
<1>2. IsFiniteSet(Days)
  BY <1>1, FS_Interval DEF Days
<1>3. QED
  BY <1>2, FS_Subset

\* A day's game is found by its Eastern date unless a junk tip is in the way;
\* of the three days around it one is then without a game, and the UTC dates
\* tell the others apart.
LEMMA CalendarIsEnough == CalendarInv => RowsNameTheirGame
<1> SUFFICES ASSUME CalendarInv, NEW d \in Played PROVE Resolve(Played, d) \in {d, NoEvent}
  BY DEF RowsNameTheirGame
<1> USE DEF CalendarInv
<1>1. LastDay \in Nat /\ Days = 1..LastDay /\ Played \subseteq Days /\ d \in Nat
  BY NetPointsAssumption DEF NetPointsAssumption, Days, Played
<1>2. d - 1 \in Played => d + 1 \notin Played
  <2>1. SUFFICES ASSUME d - 1 \in Played, d + 1 \in Played PROVE FALSE
    OBVIOUS
  <2>2. d - 1 \in 1..(LastDay - 2) /\ {d - 1, (d - 1) + 1, (d - 1) + 2} = {d - 1, d, d + 1}
    BY <1>1, <2>1
  <2>3. QED
    BY <2>1, <2>2 DEF NeverThreeRunning
<1>3. \A g \in Played : /\ g \in Nat /\ EasternDay(g) = (IF calendar[g] = "junk" THEN g + 1 ELSE g)
                        /\ UtcDay(g) = (IF calendar[g] = "afternoon" THEN g ELSE g + 1)
  BY <1>1 DEF EasternDay, UtcDay
<1>4. \A g \in Played : calendar[g] = "junk" /\ calendar[d] = "junk" => g = d
  BY <1>1
<1>5. /\ ByEastern(Played, d) = OnlyGame(EasternGames(d))
      /\ ByUtc(Played, d) = OnlyGame(UtcGames(d)) /\ ByUtc(Played, d + 1) = OnlyGame(UtcGames(d + 1))
  BY DEF ByEastern, ByUtc, EasternGames, UtcGames
<1>6. \A x : IsFiniteSet(EasternGames(x)) /\ IsFiniteSet(UtcGames(x))
  BY <1>1, DaysAreFinite DEF EasternGames, UtcGames
<1>7. EasternGames(d) \subseteq {d - 1, d} /\ UtcGames(d) \subseteq {d - 1, d} /\ UtcGames(d + 1) \subseteq {d, d + 1}
  <2>1. \A g \in Played : EasternDay(g) = d => g \in {d - 1, d}
    BY <1>1, <1>3
  <2>2. \A g \in Played : (UtcDay(g) = d => g \in {d - 1, d}) /\ (UtcDay(g) = d + 1 => g \in {d, d + 1})
    BY <1>1, <1>3
  <2>3. QED
    BY <2>1, <2>2 DEF EasternGames, UtcGames
<1>8. CASE calendar[d] # "junk" /\ ~(d - 1 \in Played /\ calendar[d - 1] = "junk")
  <2>1. EasternGames(d) = {d}
    BY <1>1, <1>3, <1>7, <1>8 DEF EasternGames
  <2>2. ByEastern(Played, d) = d
    BY <1>5, <1>6, <2>1, OnlyGameMeans
  <2>3. QED
    BY <1>1, <2>2, NetPointsAssumption DEF Resolve, NetPointsAssumption
<1>9. CASE calendar[d] # "junk" /\ d - 1 \in Played /\ calendar[d - 1] = "junk"
  <2>1. d - 1 \in EasternGames(d) /\ d \in EasternGames(d) /\ d - 1 # d
    BY <1>1, <1>3, <1>9 DEF EasternGames
  <2>2. ByEastern(Played, d) = NoEvent
    BY <1>5, <1>6, <2>1, OnlyGameMeans
  <2>3. UtcGames(d + 1) \subseteq {d}
    BY <1>2, <1>7, <1>9 DEF UtcGames
  <2>4. ByUtc(Played, d + 1) \in {d, NoEvent}
    BY <1>5, <1>6, <2>3, OnlyGameMeans
  <2>5. d \notin UtcGames(d + 1) => ByUtc(Played, d) = NoEvent
    <3>1. d - 1 \in UtcGames(d)
      BY <1>1, <1>3, <1>9 DEF UtcGames
    <3>2. d \notin UtcGames(d + 1) => d \in UtcGames(d)
      BY <1>1, <1>3 DEF UtcGames
    <3>3. QED
      BY <1>1, <1>5, <1>6, <3>1, <3>2, OnlyGameMeans
  <2>6. d \in UtcGames(d + 1) => ByUtc(Played, d + 1) = d
    BY <1>5, <1>6, <2>3, OnlyGameMeans
  <2>7. QED
    BY <1>1, <2>2, <2>4, <2>5, <2>6, NetPointsAssumption DEF Resolve, NetPointsAssumption
<1>10. CASE calendar[d] = "junk"
  <2>1. EasternGames(d) = {}
    BY <1>1, <1>3, <1>4, <1>7, <1>10 DEF EasternGames
  <2>2. ByEastern(Played, d) = NoEvent
    BY <1>5, <1>6, <2>1, OnlyGameMeans
  <2>3. d \in UtcGames(d + 1) /\ d \notin UtcGames(d)
    BY <1>1, <1>3, <1>10 DEF UtcGames
  <2>4. CASE UtcGames(d + 1) = {d}
    <3>1. ByUtc(Played, d + 1) = d
      BY <1>5, <1>6, <2>4, OnlyGameMeans
    <3>2. QED
      BY <1>1, <2>2, <3>1, NetPointsAssumption DEF Resolve, NetPointsAssumption
  <2>5. CASE UtcGames(d + 1) # {d}
    <3>1. d + 1 \in UtcGames(d + 1)
      BY <1>7, <2>3, <2>5
    <3>2. ByUtc(Played, d + 1) = NoEvent
      BY <1>1, <1>5, <1>6, <2>3, <3>1, OnlyGameMeans
    <3>3. UtcGames(d) = {}
      BY <1>2, <1>7, <2>3, <3>1 DEF UtcGames
    <3>4. ByUtc(Played, d) = NoEvent
      BY <1>5, <1>6, <3>3, OnlyGameMeans
    <3>5. QED
      BY <2>2, <3>2, <3>4 DEF Resolve
  <2>6. QED
    BY <2>4, <2>5
<1>11. QED
  BY <1>8, <1>9, <1>10

\* It holds before the first pull.
LEMMA CalendarInit == NetPointsInit => CalendarInv
<1> SUFFICES ASSUME NetPointsInit PROVE CalendarInv
  OBVIOUS
<1> DEFINE J == {d \in Days : calendar[d] = "junk"}
<1>1. IsFiniteSet(J)
  BY DaysAreFinite
<1>2. Cardinality(J) = 0 \/ Cardinality(J) = 1
  BY <1>1, FS_CardinalityType DEF NetPointsInit
<1>3. J = {} \/ \E d : J = {d}
  BY <1>1, <1>2, FS_EmptySet, FS_Singleton
<1>4. QED
  BY <1>3 DEF CalendarInv, NetPointsInit

\* The calendar is what it is.
LEMMA CalendarStays == [NetPointsNext]_netPointsVars => calendar' = calendar
BY DEF NetPointsNext, netPointsVars, StoreGames, Publish, BeginDaily, EndDaily, DailyOver, PassHalf,
       GetHalf, WriteHalf, MarkHalf

\* With every game of a team on disk a date's rows are its own game's or no
\* game's, over any number of days: NetPointsGameIndex.
THEOREM NetPointsRowsNameTheirGame == NetPointsSpec => []RowsNameTheirGame
<1>1. CalendarInv /\ [NetPointsNext]_netPointsVars => CalendarInv'
  BY CalendarStays DEF CalendarInv, NeverThreeRunning, Played
<1>2. QED
  BY <1>1, CalendarInit, CalendarIsEnough, PTL DEF NetPointsSpec

-----------------------------------------------------------------------------

\* Where a day's pull may be.
Steps == {"over", "box", "skills", "write box", "write skills", "mark box", "mark skills"}

\* The types of what a pull of daily files keeps.
DailyTypeOK ==
  /\ onDate \in [Dates -> Steps]
  /\ fetched \in [Dates -> Days \cup {NoEvent}]
  /\ rows \in [DailyHalves -> [Dates -> Days \cup {NoEvent}]]
  /\ marked \in [DailyHalves -> SUBSET Dates]
  /\ absent \in [DailyHalves -> SUBSET Dates]
  /\ dates \in SUBSET Dates /\ local \in SUBSET Days /\ index \in SUBSET Days

\* A half about to be marked was written, or there was nothing to write.
ToMarkInv ==
  \A d \in Dates : onDate[d] \in {"mark box", "mark skills"} =>
    fetched[d] = NoEvent \/ rows[Half(d)][d] # NoEvent

\* The inductive invariant of the daily files.
DailyInv == CalendarInv /\ DailyTypeOK /\ ToMarkInv /\ MarkedHalvesAreWritten

\* It holds before the first pull.
LEMMA DailyInit == NetPointsInit => DailyInv
BY CalendarInit DEF NetPointsInit, DailyInv, DailyTypeOK, ToMarkInv, MarkedHalvesAreWritten, Dates, Steps

\* A day resolves to a day, or to none.
LEMMA ResolveType ==
  ASSUME NEW S \in SUBSET Days, NEW d
  PROVE  Resolve(S, d) \in Days \cup {NoEvent}
<1>1. \A T \in SUBSET Days : OnlyGame(T) \in Days \cup {NoEvent}
  BY DaysAreFinite, OnlyGameMeans
<1>2. \A x : ByEastern(S, x) \in Days \cup {NoEvent} /\ ByUtc(S, x) \in Days \cup {NoEvent}
  BY <1>1 DEF ByEastern, ByUtc
<1>3. QED
  BY <1>2 DEF Resolve

\* A marker is laid down after its half was read, and after whatever it held was
\* written; rows are never taken away.
LEMMA DailyStep == DailyInv /\ [NetPointsNext]_netPointsVars => DailyInv'
<1> SUFFICES ASSUME DailyInv, [NetPointsNext]_netPointsVars PROVE DailyInv'
  OBVIOUS
<1> USE DEF DailyInv, DailyTypeOK
<1>0. CalendarInv'
  BY CalendarStays DEF CalendarInv, NeverThreeRunning, Played
<1>1. CASE StoreGames \/ Publish \/ UNCHANGED netPointsVars
  BY <1>0, <1>1 DEF StoreGames, Publish, netPointsVars, ToMarkInv, MarkedHalvesAreWritten, Half, Played
<1>2. CASE BeginDaily
  <2>1. \A g \in Days : UtcDay(g) \in Dates /\ UtcDay(g) - 1 \in Dates
    BY NetPointsAssumption DEF NetPointsAssumption, UtcDay, Days, Dates
  <2>2. dates' \in SUBSET Dates
    BY <1>2, <2>1 DEF BeginDaily
  <2>3. onDate' = [d \in Dates |-> IF d \in dates' THEN "box" ELSE "over"]
    BY <1>2 DEF BeginDaily
  <2>4. UNCHANGED << fetched, rows, marked, absent, local >> /\ index' = local
    BY <1>2 DEF BeginDaily
  <2>5. QED
    BY <1>0, <2>2, <2>3, <2>4 DEF ToMarkInv, MarkedHalvesAreWritten, Steps
<1>3. CASE EndDaily
  <2>1. /\ dates' = {} /\ onDate' = [d \in Dates |-> "over"] /\ fetched' = [d \in Dates |-> NoEvent]
        /\ UNCHANGED << local, index, rows, marked, absent >>
    BY <1>3 DEF EndDaily
  <2>2. QED
    BY <1>0, <2>1 DEF ToMarkInv, MarkedHalvesAreWritten, Steps
<1>4. ASSUME NEW d \in Dates, PassHalf(d) PROVE DailyInv'
  <2>1. /\ dates' \in SUBSET Dates /\ UNCHANGED << local, index, fetched, rows, marked, absent >>
        /\ \E to \in {"skills", "over"} : onDate' = [onDate EXCEPT ![d] = to]
    BY <1>4 DEF PassHalf, Moved, After
  <2>2. QED
    BY <1>0, <2>1 DEF ToMarkInv, MarkedHalvesAreWritten, Steps, Half
<1>5. ASSUME NEW d \in Dates, GetHalf(d) PROVE DailyInv'
  <2>1. /\ dates' \in SUBSET Dates /\ UNCHANGED << local, index, rows, marked, absent >>
        /\ \E to \in {"write box", "write skills"} : onDate' = [onDate EXCEPT ![d] = to]
        /\ \E g \in Days \cup {NoEvent} : fetched' = [fetched EXCEPT ![d] = g]
    BY <1>5, ResolveType DEF GetHalf, Moved
  <2>2. QED
    BY <1>0, <2>1, ZenonT(60) DEF ToMarkInv, MarkedHalvesAreWritten, Steps, Half
<1>6. ASSUME NEW d \in Dates, WriteHalf(d) PROVE DailyInv'
  <2> DEFINE h == Half(d)
  <2>1. /\ h \in DailyHalves /\ dates' \in SUBSET Dates
        /\ UNCHANGED << local, index, fetched, marked, absent >>
        /\ onDate' = [onDate EXCEPT ![d] = IF h = "box" THEN "mark box" ELSE "mark skills"]
        /\ rows' = IF fetched[d] = NoEvent THEN rows ELSE [rows EXCEPT ![h] = [rows[h] EXCEPT ![d] = fetched[d]]]
    BY <1>6 DEF WriteHalf, Moved, Half, DailyHalves
  <2>2. onDate'[d] \in {"mark box", "mark skills"} => Half(d)' = h
    BY <2>1 DEF Half, DailyHalves
  <2>3. \A e \in Dates \ {d} : Half(e)' = Half(e)
    BY <2>1 DEF Half
  <2> HIDE DEF h
  <2>4. rows' \in [DailyHalves -> [Dates -> Days \cup {NoEvent}]]
    BY <2>1
  <2>5. /\ \A k \in DailyHalves, e \in Dates : rows[k][e] # NoEvent => rows'[k][e] # NoEvent
        /\ fetched[d] = NoEvent \/ rows'[h][d] # NoEvent
    BY <2>1
  <2>6. onDate' \in [Dates -> Steps]
    BY <2>1 DEF Steps
  <2>7. ToMarkInv'
    <3>1. \A e \in Dates : Half(e) \in DailyHalves
      BY DEF Half, DailyHalves
    <3>2. \A e \in Dates \ {d} : onDate'[e] = onDate[e]
      BY <2>1
    <3>3. fetched' = fetched
      BY <2>1
    <3>4. ASSUME NEW e \in Dates \ {d}, onDate'[e] \in {"mark box", "mark skills"}
          PROVE  fetched'[e] = NoEvent \/ rows'[Half(e)'][e] # NoEvent
      <4>1. fetched[e] = NoEvent \/ rows[Half(e)][e] # NoEvent
        BY <3>2, <3>4 DEF ToMarkInv
      <4> HIDE DEF ToMarkInv
      <4>2. QED
        BY <2>3, <2>5, <3>1, <3>3, <4>1
    <3>5. onDate'[d] \in {"mark box", "mark skills"} => fetched'[d] = NoEvent \/ rows'[Half(d)'][d] # NoEvent
      BY <2>2, <2>5, <3>3
    <3>6. QED
      BY <3>4, <3>5 DEF ToMarkInv
  <2>8. MarkedHalvesAreWritten'
    BY <2>1, <2>5 DEF MarkedHalvesAreWritten
  <2>9. QED
    BY <1>0, <2>1, <2>4, <2>6, <2>7, <2>8
<1>7. ASSUME NEW d \in Dates, MarkHalf(d) PROVE DailyInv'
  <2> DEFINE h == Half(d)
  <2>1. /\ h \in DailyHalves /\ dates' \in SUBSET Dates
        /\ UNCHANGED << local, index, rows >>
        /\ onDate' = [onDate EXCEPT ![d] = IF h = "box" THEN "skills" ELSE "over"]
        /\ fetched' = [fetched EXCEPT ![d] = NoEvent]
        /\ marked' = [marked EXCEPT ![h] = @ \cup {d}]
        /\ absent' = [absent EXCEPT ![h] = IF fetched[d] = NoEvent THEN @ \cup {d} ELSE @]
        /\ onDate[d] \in {"mark box", "mark skills"}
    BY <1>7 DEF MarkHalf, Moved, Half, DailyHalves
  <2>2. fetched[d] = NoEvent \/ rows[h][d] # NoEvent
    BY <2>1 DEF ToMarkInv
  <2>3. \A e \in Dates \ {d} : Half(e)' = Half(e)
    BY <2>1 DEF Half
  <2> HIDE DEF h
  <2>4. MarkedHalvesAreWritten'
    BY <2>1, <2>2 DEF MarkedHalvesAreWritten
  <2>5. ToMarkInv'
    BY <2>1, <2>3 DEF ToMarkInv
  <2>6. QED
    BY <1>0, <2>1, <2>4, <2>5 DEF Steps
<1>8. dates # {} => Min(dates) \in Dates
  <2>1. Dates \subseteq Nat
    BY DEF Dates
  <2>2. dates \in SUBSET Nat
    BY <2>1
  <2>3. QED
    BY <2>2, MinIs
<1>9. QED
  BY <1>1, <1>2, <1>3, <1>4, <1>5, <1>6, <1>7, <1>8
  DEF NetPointsNext, DailyOver, PassHalf, GetHalf, WriteHalf, MarkHalf

\* A marked half of a date has its rows on disk, unless nothing could be read of
\* it when it was marked, whatever is killed between a write and its marker
\* (fetch_net_points_daily's one_date).
THEOREM NetPointsMarkedAreWritten == NetPointsSpec => []MarkedHalvesAreWritten
<1>1. NetPointsSpec => []DailyInv
  BY DailyInit, DailyStep, PTL DEF NetPointsSpec
<1>2. DailyInv => MarkedHalvesAreWritten
  BY DEF DailyInv
<1>3. QED
  BY <1>1, <1>2, PTL

-----------------------------------------------------------------------------
(***************************************************************************)
(* The notes of one answer.                                                 *)
(***************************************************************************)
FileLines == Posters \cup {RunLine}

\* The types of an answer's notes.
NoteTypeOK ==
  /\ history \in Seq(FileLines)
  /\ note \in [Posters -> {"new", "appending", "reading", "read", "truncated", "done", "killed"}]
  /\ replaces \in [Posters -> Posters \cup {NoLine}]
  /\ lines \in [Posters -> Seq(FileLines)]
  /\ saved \in SUBSET Posters

\* The line a correction is about is in the copy it read, and a saved note no
\* correction could miss is on file and in every such copy.
NotesInv ==
  /\ NoteTypeOK
  /\ \A v \in Posters : Correcting(v) => Contains(lines[v], replaces[v])
  /\ ~torn => \A w \in saved \ (corrected \cup overlapped) :
       /\ ~Truncated => Contains(history, w)
       /\ \A v \in Posters : Correcting(v) => Contains(lines[v], w)

\* The first place of a line in a copy that has it.
LEMMA FirstPlace ==
  ASSUME NEW S, NEW s \in Seq(S), NEW r, Contains(s, r)
  PROVE  LET k == SelectInSeq(s, LAMBDA l : l = r) IN k \in 1..Len(s) /\ s[k] = r
<1> DEFINE I == {i \in 1..Len(s) : s[i] = r}
<1>1. I # {} /\ I \in SUBSET Nat
  BY DEF Contains
<1>2. Min(I) \in I
  BY <1>1, MinIs
<1>3. SelectInSeq(s, LAMBDA l : l = r) = Min(I)
  BY <1>1 DEF SelectInSeq
<1>4. QED
  BY <1>2, <1>3

\* A correction puts its note in the place of one line and keeps the others.
LEMMA CorrectionKeeps ==
  ASSUME NEW v \in Posters, lines[v] \in Seq(FileLines), Contains(lines[v], replaces[v]), history \in Seq(FileLines)
  PROVE  LET h == CorrectedLines(v) \o SubSeq(history, Len(lines[v]) + 1, Len(history)) IN
         /\ h \in Seq(FileLines)
         /\ Contains(h, v)
         /\ \A l : Contains(lines[v], l) /\ l # replaces[v] => Contains(h, l)
<1> DEFINE s == lines[v]
           k == SelectInSeq(s, LAMBDA l : l = replaces[v])
           c == [s EXCEPT ![k] = v]
           t == SubSeq(history, Len(s) + 1, Len(history))
<1>1. k \in 1..Len(s) /\ s[k] = replaces[v]
  BY FirstPlace
<1>2. CorrectedLines(v) = c
  BY DEF CorrectedLines, ReplaceAt
<1> HIDE DEF k
<1>3. c \in Seq(FileLines) /\ Len(c) = Len(s) /\ c[k] = v /\ \A i \in 1..Len(s) : i # k => c[i] = s[i]
  BY <1>1 DEF FileLines
<1>4. t \in Seq(FileLines)
  BY SubSeqProperties
<1> HIDE DEF c, t
<1>5. c \o t \in Seq(FileLines) /\ \A i \in 1..Len(c) : i \in 1..Len(c \o t) /\ (c \o t)[i] = c[i]
  BY <1>3, <1>4
<1>6. Contains(c \o t, v)
  BY <1>1, <1>3, <1>5 DEF Contains
<1>7. ASSUME NEW l, Contains(s, l), l # replaces[v] PROVE Contains(c \o t, l)
  <2>1. PICK i \in 1..Len(s) : s[i] = l
    BY <1>7 DEF Contains
  <2>2. i # k
    BY <1>1, <1>7, <2>1
  <2>3. QED
    BY <1>3, <1>5, <2>1, <2>2 DEF Contains
<1>8. QED
  BY <1>2, <1>5, <1>6, <1>7 DEF t

\* It holds before any note is posted.
LEMMA NotesInvInit == NotesInit => NotesInv
BY DEF NotesInit, NotesInv, NoteTypeOK, Correcting, FileLines

\* No step of a poster breaks them, nor does a killed server.
LEMMA NotesStep == NotesInv /\ [NotesNext]_noteVars => NotesInv'
<1> SUFFICES ASSUME NotesInv, [NotesNext]_noteVars PROVE NotesInv'
  OBVIOUS
<1>t. NoteTypeOK
  BY DEF NotesInv
<1>1. ASSUME NEW w \in Posters, RequestNote(w) PROVE NotesInv'
  <2>1. /\ UNCHANGED << history, lines, saved, corrected, overlapped, torn >> /\ note[w] = "new"
        /\ \E line \in Posters \cup {NoLine} : replaces' = [replaces EXCEPT ![w] = line]
        /\ \E to \in {"appending", "reading"} : note' = [note EXCEPT ![w] = to]
    BY <1>1, <1>t DEF RequestNote, Step, NoteTypeOK
  <2>2. \A v \in Posters : Correcting(v)' = Correcting(v) /\ (Correcting(v) => replaces'[v] = replaces[v])
    BY <1>t, <2>1 DEF Correcting, NoteTypeOK
  <2>3. Truncated' = Truncated
    BY <1>t, <2>1 DEF Truncated, NoteTypeOK
  <2>4. NoteTypeOK'
    BY <1>t, <2>1 DEF NoteTypeOK
  <2>5. QED
    BY <2>1, <2>2, <2>3, <2>4 DEF NotesInv
<1>2. ASSUME NEW w \in Posters, ReadLines(w) PROVE NotesInv'
  <2>1. /\ UNCHANGED << history, replaces, saved, corrected, overlapped >> /\ note[w] = "reading"
        /\ lines' = [lines EXCEPT ![w] = history] /\ torn' = (torn \/ Truncated)
        /\ note' = [note EXCEPT ![w] = IF Contains(history, replaces[w]) THEN "read" ELSE "appending"]
    BY <1>2 DEF ReadLines, Step
  <2>2. /\ \A v \in Posters \ {w} : Correcting(v)' = Correcting(v) /\ lines'[v] = lines[v]
        /\ lines'[w] = history /\ (Correcting(w)' => Contains(history, replaces[w]))
    BY <1>t, <2>1 DEF Correcting, NoteTypeOK
  <2>3. Truncated' = Truncated
    BY <1>t, <2>1 DEF Truncated, NoteTypeOK
  <2>4. NoteTypeOK'
    BY <1>t, <2>1 DEF NoteTypeOK
  <2>5. QED
    BY <2>1, <2>2, <2>3, <2>4 DEF NotesInv
<1>3. ASSUME NEW w \in Posters, Truncate(w) PROVE NotesInv'
  <2>1. /\ UNCHANGED << replaces, lines, saved, corrected, overlapped, torn >>
        /\ note[w] = "read" /\ note' = [note EXCEPT ![w] = "truncated"] /\ history' = << >>
    BY <1>3 DEF Truncate, Step
  <2>2. (\A v \in Posters : Correcting(v)' = Correcting(v)) /\ Truncated'
    BY <1>t, <2>1 DEF Correcting, Truncated, NoteTypeOK
  <2>3. NoteTypeOK'
    BY <1>t, <2>1 DEF NoteTypeOK
  <2>4. QED
    BY <2>1, <2>2, <2>3 DEF NotesInv
<1>4. ASSUME NEW w \in Posters, WriteBack(w) PROVE NotesInv'
  <2>1. /\ UNCHANGED << replaces, lines, torn >>
        /\ note[w] = "truncated" /\ note' = [note EXCEPT ![w] = "done"]
        /\ history' = CorrectedLines(w) \o SubSeq(history, Len(lines[w]) + 1, Len(history))
        /\ corrected' = corrected \cup {replaces[w]} /\ saved' = saved \cup {w}
        /\ overlapped \subseteq overlapped'
        /\ \A v \in Posters \ {w} : Correcting(v) => w \in overlapped'
    BY <1>4 DEF WriteBack, Step, Save
  <2>2. Correcting(w) /\ Contains(lines[w], replaces[w])
    BY <2>1 DEF Correcting, NotesInv
  <2>3. /\ history' \in Seq(FileLines) /\ Contains(history', w)
        /\ \A l : Contains(lines[w], l) /\ l # replaces[w] => Contains(history', l)
    BY <1>t, <2>1, <2>2, CorrectionKeeps DEF NoteTypeOK
  <2>4. (\A v \in Posters : Correcting(v)' => Correcting(v) /\ v # w)
    BY <1>t, <2>1 DEF Correcting, NoteTypeOK
  <2>5. NoteTypeOK'
    BY <1>t, <2>1, <2>3 DEF NoteTypeOK
  <2>6. ASSUME ~torn', NEW x \in saved' \ (corrected' \cup overlapped')
        PROVE  Contains(history', x) /\ \A v \in Posters : Correcting(v)' => Contains(lines'[v], x)
    <3>1. CASE x = w
      BY <2>1, <2>3, <2>4, <2>6, <3>1
    <3>2. CASE x # w
      <4>1. x \in saved \ (corrected \cup overlapped) /\ x # replaces[w] /\ ~torn
        BY <2>1, <2>6, <3>2
      <4>2. \A v \in Posters : Correcting(v) => Contains(lines[v], x)
        BY <4>1 DEF NotesInv
      <4>3. QED
        BY <2>1, <2>2, <2>3, <2>4, <4>1, <4>2
    <3>3. QED
      BY <3>1, <3>2
  <2>7. \A v \in Posters : Correcting(v)' => Contains(lines'[v], replaces'[v])
    BY <2>1, <2>4 DEF NotesInv
  <2>8. QED
    BY <2>5, <2>6, <2>7 DEF NotesInv
<1>5. ASSUME NEW w \in Posters, AppendNote(w) PROVE NotesInv'
  <2>1. /\ UNCHANGED << replaces, lines, corrected, torn >>
        /\ note[w] = "appending" /\ note' = [note EXCEPT ![w] = "done"]
        /\ history' = Append(history, w) /\ saved' = saved \cup {w}
        /\ overlapped \subseteq overlapped'
        /\ \A v \in Posters \ {w} : Correcting(v) => w \in overlapped'
    BY <1>5 DEF AppendNote, Step, Save
  <2>2. (\A v \in Posters : Correcting(v)' = Correcting(v)) /\ Truncated' = Truncated /\ ~Correcting(w)
    BY <1>t, <2>1 DEF Correcting, Truncated, NoteTypeOK
  <2>3. /\ history' \in Seq(FileLines) /\ Contains(history', w)
        /\ \A l : Contains(history, l) => Contains(history', l)
    BY <1>t, <2>1 DEF NoteTypeOK, FileLines, Contains
  <2>4. NoteTypeOK'
    BY <1>t, <2>1, <2>3 DEF NoteTypeOK
  <2>5. QED
    BY <2>1, <2>2, <2>3, <2>4 DEF NotesInv
<1>6. CASE KillServer
  <2>1. /\ UNCHANGED << history, replaces, lines, saved, corrected, overlapped >>
        /\ note' = [w \in Posters |-> IF note[w] \in {"new", "done"} THEN note[w] ELSE "killed"]
        /\ torn' = (torn \/ Truncated)
    BY <1>6 DEF KillServer
  <2>2. (\A v \in Posters : ~Correcting(v)')
    BY <2>1 DEF Correcting
  <2>3. NoteTypeOK'
    BY <1>t, <2>1 DEF NoteTypeOK
  <2>4. QED
    BY <2>1, <2>2, <2>3 DEF NotesInv
<1>7. CASE UNCHANGED noteVars
  BY <1>7 DEF noteVars, NotesInv, NoteTypeOK, Correcting, Truncated
<1>8. QED
  BY <1>1, <1>2, <1>3, <1>4, <1>5, <1>6, <1>7 DEF NotesNext, NotesOver

\* Among any number of requests, a saved note nobody corrected is on file unless
\* it was saved while a correction was between its read and its write, or one
\* read a file another had emptied (append_note).
THEOREM NotesAreLostOnlyToOverlap == NotesSpec => []NotesLostOnlyToOverlap
<1>1. NotesSpec => []NotesInv
  BY NotesInvInit, NotesStep, PTL DEF NotesSpec
<1>2. NotesInv => NotesLostOnlyToOverlap
  BY DEF NotesInv, NotesLostOnlyToOverlap, Onfile
<1>3. QED
  BY <1>1, <1>2, PTL

-----------------------------------------------------------------------------
(***************************************************************************)
(* The client.                                                              *)
(***************************************************************************)
Places == {"idle", "request", "throttled", "send", "replied", "counted", "returned", "raised", "gave up", "refused"}
InLoop == {"idle", "request", "throttled", "send"}
Passing == Retryable \cup {"broken"}

\* The types of the client's state.
ClientTypeOK ==
  /\ collection \in Seq(Nat)
  /\ age \in 0..Interval /\ gap \in Nat /\ turn \in Threads \cup {NoOne}
  /\ sleep \in [Threads -> Nat]
  /\ call \in [Threads -> Places]
  /\ asks \in [Threads -> {"json", "collection"}]
  /\ seen \in [Threads -> Seq(Replies)]
  /\ lastExc \in [Threads -> {NoOne, "broken"}]
  /\ reply \in [Threads -> Body \cup {NoOne}]
  /\ page \in [Threads -> Nat \ {0}]
  /\ items \in [Threads -> Seq(Nat)] /\ first \in [Threads -> Seq(Nat)]
  /\ expected \in [Threads -> Nat \cup {NoOne}]
  /\ still \in [Threads -> BOOLEAN] /\ warned \in [Threads -> BOOLEAN]
  /\ size \in [Threads -> Nat] /\ shrunk \in [Threads -> BOOLEAN]

\* Who is in the throttle holds its lock, and sleeps until the last turn is old
\* enough.
ThrottleInv ==
  /\ gap >= Interval
  /\ \A t \in Threads : call[t] = "throttled" => turn = t /\ sleep[t] + age >= Interval

\* What a request has met so far, and what it ended with.
RequestOK(t) ==
  /\ lastExc[t] = "broken" <=> "broken" \in ToSet(seen[t])
  /\ call[t] \in InLoop => ToSet(seen[t]) \subseteq Passing /\ Len(seen[t]) <= MaxRetries
  /\ call[t] \in {"raised", "gave up"} =>
       /\ Len(seen[t]) = MaxRetries + 1 /\ ToSet(seen[t]) \subseteq Passing
       /\ call[t] = "raised" <=> "broken" \in ToSet(seen[t])
  /\ call[t] \in {"replied", "returned", "counted"} =>
       /\ reply[t] = NoOne <=> Last(seen[t]) \in {"missing", "empty"}
       /\ ToSet(Front(seen[t])) \subseteq Passing
       /\ Len(seen[t]) <= MaxRetries + 1

\* A page of a collection, when pages are of size n, and how many there are.
PageIn(s, p, n) == SubSeq(s, (p - 1) * n + 1, Min({p * n, Len(s)}))
PagesIn(s, n) == (Len(s) + n - 1) \div n

\* No more than the first k items of s, and if as many those; no more than all
\* of s, and if as many s.
UpTo(got, s, k) == Len(got) <= k /\ (Len(got) = k => got = SubSeq(s, 1, k))
PartOf(got, s) == Len(got) <= Len(s) /\ (Len(got) = Len(s) => got = s)

\* A reader whose collection stood still, of pages that did not shrink.
Steady(t) == still[t] /\ ~shrunk[t]

\* What a reader holds of the collection.
ReadOK(t) ==
  /\ still[t] => first[t] = collection
  /\ asks[t] = "json" \/ call[t] = "idle" => page[t] = 1
  /\ call[t] \in InLoop \cup {"replied"} /\ page[t] = 1 => items[t] = <<>> /\ expected[t] = NoOne
  /\ expected[t] = NoOne \/ expected[t] = Len(first[t])
  /\ call[t] \in InLoop \cup {"replied"} /\ page[t] # 1 /\ Steady(t) =>
       UpTo(items[t], first[t], (page[t] - 1) * size[t]) /\ PartOf(items[t], first[t])

\* What it is about to read.
ReplyOK(t) ==
  call[t] = "replied" /\ IsPage(reply[t]) =>
    /\ size[t] # 0
    /\ expected[t] = NoOne => reply[t].count \in {NoOne, Len(first[t])}
    /\ page[t] = 1 \/ still[t] => /\ reply[t].items = PageIn(first[t], page[t], size[t])
                                  /\ reply[t].pages \in {NoOne, PagesIn(first[t], size[t])}

\* What it has read.
EndOK(t) ==
  /\ call[t] = "counted" => asks[t] = "collection"
  /\ call[t] \in {"counted", "returned"} /\ asks[t] = "collection" /\ Steady(t) => PartOf(items[t], first[t])
  /\ call[t] = "returned" /\ ~warned[t] /\ asks[t] = "collection" =>
       expected[t] = NoOne \/ Len(items[t]) = expected[t]
  /\ call[t] = "returned" /\ ~warned[t] /\ asks[t] = "json" /\ IsPage(reply[t]) =>
       items[t] = first[t] \/ reply[t].pages = NoOne

\* What is held of a thread: of what it reads, of its reply, and of how it ends.
Held(t) == ReadOK(t) /\ ReplyOK(t) /\ EndOK(t)
ClientInv == ClientTypeOK /\ ThrottleInv /\ \A t \in Threads : RequestOK(t) /\ Held(t)

-----------------------------------------------------------------------------
\* Pages.
LEMMA LesserOf ==
  ASSUME NEW m \in Nat, NEW n \in Nat
  PROVE  Min({m, n}) = IF m <= n THEN m ELSE n
BY DEF Min

\* A page holds some, and there are only so many retries.
LEMMA SettingsAre == /\ \A n \in PageSizes : n \in Nat /\ n > 0
                     /\ MaxRetries \in Nat /\ Interval \in Nat
BY ClientAssumption DEF ClientAssumption

\* Where a page begins and ends.
LEMMA PageBounds ==
  ASSUME NEW p \in Nat \ {0}, NEW n \in Nat
  PROVE  /\ (p - 1) * n \in Nat /\ p * n \in Nat
         /\ p * n = (p - 1) * n + n
         /\ \A m \in Nat : m <= n => (p - 1) * m <= (p - 1) * n
OBVIOUS

\* A page is of the collection's items, and as many as lie between its bounds.
LEMMA PageIs ==
  ASSUME NEW s \in Seq(Nat), NEW p \in Nat \ {0}, NEW n \in Nat
  PROVE  LET k == (p - 1) * n
             m == Min({p * n, Len(s)})
         IN  /\ PageIn(s, p, n) \in Seq(Nat)
             /\ m \in Nat /\ m <= Len(s) /\ m <= p * n
             /\ k > Len(s) => PageIn(s, p, n) = <<>>
             /\ k <= Len(s) => /\ k <= m
                               /\ Len(PageIn(s, p, n)) = m - k
                               /\ SubSeq(s, 1, k) \o PageIn(s, p, n) = SubSeq(s, 1, m)
<1> DEFINE k == (p - 1) * n
           m == Min({p * n, Len(s)})
<1>1. k \in Nat /\ p * n \in Nat /\ p * n = k + n /\ Len(s) \in Nat
  BY PageBounds
<1>2. m = IF p * n <= Len(s) THEN p * n ELSE Len(s)
  BY <1>1, LesserOf
<1>3. PageIn(s, p, n) = SubSeq(s, k + 1, m)
  BY DEF PageIn
<1> HIDE DEF k, m
<1>4. m \in Nat /\ m <= Len(s) /\ m <= p * n
  BY <1>1, <1>2
<1>5. \A i \in k + 1..m : s[i] \in Nat
  BY <1>1, <1>4
<1>6. /\ SubSeq(s, k + 1, m) \in Seq(Nat)
      /\ Len(SubSeq(s, k + 1, m)) = IF k + 1 <= m THEN m - (k + 1) + 1 ELSE 0
  BY <1>1, <1>4, <1>5, SubSeqProperties
<1>7. ASSUME k > Len(s) PROVE SubSeq(s, k + 1, m) = <<>>
  BY <1>1, <1>4, <1>6, <1>7
<1>8. ASSUME k <= Len(s)
      PROVE  /\ k <= m /\ Len(SubSeq(s, k + 1, m)) = m - k
             /\ SubSeq(s, 1, k) \o SubSeq(s, k + 1, m) = SubSeq(s, 1, m)
  <2>1. k <= m
    BY <1>1, <1>2, <1>8
  <2>2. m \in k..Len(s) /\ k \in (1 - 1)..Len(s) /\ 1 \in 1..(Len(s) + 1)
    BY <1>1, <1>4, <1>8, <2>1
  <2>3. SubSeq(s, 1, k) \o SubSeq(s, k + 1, m) = SubSeq(s, 1, m)
    BY <2>2, ConcatAdjacentSubSeq
  <2>4. Len(SubSeq(s, k + 1, m)) = m - k
    BY <1>1, <1>4, <1>6, <2>1
  <2>5. QED
    BY <2>1, <2>3, <2>4
<1>9. QED
  BY <1>3, <1>4, <1>6, <1>7, <1>8 DEF k, m

\* All of a collection, none of it.
LEMMA Beginnings ==
  ASSUME NEW s \in Seq(Nat)
  PROVE  SubSeq(s, 1, 0) = <<>> /\ SubSeq(s, 1, Len(s)) = s
<1>1. Len(s) \in Nat
  OBVIOUS
<1>2. SubSeq(s, 1, 0) = <<>>
  BY <1>1, SubSeqProperties
<1>3. SubSeq(s, 1, Len(s)) = s
  OBVIOUS
<1>4. QED
  BY <1>2, <1>3

\* A page read behind the pages before it, none of them larger: what is held is
\* too few, or just the items up to this page's end.
LEMMA PageRead ==
  ASSUME NEW s \in Seq(Nat), NEW p \in Nat \ {0}, NEW n \in Nat, n > 0, NEW got \in Seq(Nat),
         UpTo(got, s, (p - 1) * n), PartOf(got, s)
  PROVE  UpTo(got \o PageIn(s, p, n), s, p * n) /\ PartOf(got \o PageIn(s, p, n), s)
<1> DEFINE k == (p - 1) * n
           m == Min({p * n, Len(s)})
           more == PageIn(s, p, n)
<1>1. k \in Nat /\ p * n \in Nat /\ p * n = k + n /\ Len(s) \in Nat /\ Len(got) \in Nat
  BY PageBounds
<1>2. /\ more \in Seq(Nat) /\ m \in Nat /\ m <= Len(s) /\ m <= p * n
      /\ k > Len(s) => more = <<>>
      /\ k <= Len(s) => k <= m /\ Len(more) = m - k /\ SubSeq(s, 1, k) \o more = SubSeq(s, 1, m)
  BY PageIs
<1>3. UpTo(got, s, k)
  OBVIOUS
<1> HIDE DEF k, m, more
<1>4. Len(got \o more) = Len(got) + Len(more) /\ got \o more \in Seq(Nat)
  BY <1>2, ConcatProperties
<1>5. CASE k > Len(s)
  <2>1. got \o more = got
    BY <1>2, <1>5
  <2>2. Len(got) < p * n
    BY <1>1, <1>5 DEF PartOf
  <2>3. QED
    BY <2>1, <2>2 DEF UpTo, PartOf, more
<1>6. CASE k <= Len(s)
  <2>1. Len(got) <= k /\ k <= m /\ Len(got \o more) = Len(got) + (m - k)
    BY <1>2, <1>3, <1>4, <1>6 DEF UpTo
  <2>2. Len(got \o more) <= m
    BY <1>1, <1>2, <2>1
  <2>3. ASSUME Len(got \o more) = m PROVE got \o more = SubSeq(s, 1, m)
    <3>1. Len(got) = k
      BY <1>1, <1>2, <2>1, <2>3
    <3>2. QED
      BY <1>2, <1>3, <1>6, <3>1 DEF UpTo
  <2>4. Len(got \o more) \in Nat
    BY <1>4
  <2>5. Len(got \o more) <= p * n /\ Len(got \o more) <= Len(s)
    BY <1>1, <1>2, <2>2, <2>4
  <2>6. ASSUME Len(got \o more) = p * n PROVE got \o more = SubSeq(s, 1, p * n)
    <3>1. p * n = m
      BY <1>1, <1>2, <2>2, <2>6
    <3>2. QED
      BY <2>3, <2>6, <3>1
  <2>7. ASSUME Len(got \o more) = Len(s) PROVE got \o more = s
    <3>1. m \in Nat /\ m <= Len(s) /\ Len(s) \in Nat
      BY <1>1, <1>2
    <3>2. Len(s) = m
      BY <2>2, <2>7, <3>1
    <3>3. QED
      BY <2>3, <2>7, <3>2, Beginnings
  <2>8. QED
    BY <2>5, <2>6, <2>7 DEF UpTo, PartOf, more
<1>7. QED
  BY <1>1, <1>5, <1>6

\* A collection said to be of one page is that page.
LEMMA OnePage ==
  ASSUME NEW s \in Seq(Nat), NEW n \in Nat, n > 0, ~(PagesIn(s, n) > 1)
  PROVE  PageIn(s, 1, n) = s
<1>1. Len(s) \in Nat
  OBVIOUS
<1>2. Len(s) <= n
  <2>1. (Len(s) + n - 1) \div n <= 1
    BY <1>1 DEF PagesIn
  <2>2. QED
    BY <1>1, <2>1
<1>3. Min({1 * n, Len(s)}) = Len(s)
  BY <1>1, <1>2, LesserOf
<1>4. PageIn(s, 1, n) = SubSeq(s, 1, Len(s))
  <2>1. (1 - 1) * n + 1 = 1
    OBVIOUS
  <2>2. PageIn(s, 1, n) = SubSeq(s, (1 - 1) * n + 1, Min({1 * n, Len(s)}))
    BY DEF PageIn
  <2>3. QED
    BY <1>3, <2>1, <2>2
<1>5. QED
  BY <1>4, Beginnings

\* One more reply.
LEMMA OneMore ==
  ASSUME NEW S, NEW s \in Seq(S), NEW r \in S
  PROVE  LET u == Append(s, r) IN
         /\ u \in Seq(S) /\ Len(u) = Len(s) + 1
         /\ ToSet(u) = ToSet(s) \cup {r} /\ Front(u) = s /\ Last(u) = r
<1> DEFINE u == Append(s, r)
<1>1. u \in Seq(S) /\ Len(u) = Len(s) + 1 /\ (\A i \in 1..Len(s) : u[i] = s[i]) /\ u[Len(s) + 1] = r
  BY AppendProperties
<1>2. Len(s) \in Nat /\ DOMAIN s = 1..Len(s) /\ DOMAIN u = 1..Len(s) + 1
  BY <1>1
<1>3. ToSet(u) = ToSet(s) \cup {r}
  BY <1>1, <1>2 DEF ToSet
<1>4. Front(u) = s
  BY <1>1, <1>2 DEF Front
<1>5. QED
  BY <1>1, <1>2, <1>3, <1>4 DEF Last

-----------------------------------------------------------------------------
\* What ESPN may answer with.
LEMMA BodiesAre ==
  ASSUME ClientTypeOK, NEW t \in Threads, NEW n \in PageSizes, NEW b \in Bodies(t, n)
  PROVE  /\ b \in Body /\ b # NoOne
         /\ IsPage(b) => /\ b.items = PageIn(collection, page[t], n)
                         /\ b.count \in {NoOne, Len(collection)}
                         /\ b.pages \in {NoOne, PagesIn(collection, n)}
<1>1. collection \in Seq(Nat) /\ Len(collection) \in Nat /\ page[t] \in Nat \ {0} /\ n \in Nat /\ n > 0
  BY SettingsAre DEF ClientTypeOK
<1>2. PageOf(page[t], n) = PageIn(collection, page[t], n) /\ PagesOf(n) = PagesIn(collection, n)
  BY DEF PageOf, PageIn, PagesOf, PagesIn
<1>3. PageIn(collection, page[t], n) \in Seq(Nat) /\ PagesIn(collection, n) \in Nat
  <2>1. PageIn(collection, page[t], n) \in Seq(Nat)
    BY <1>1, PageIs
  <2>2. (Len(collection) + n - 1) \div n \in Nat
    BY <1>1
  <2>3. QED
    BY <2>1, <2>2 DEF PagesIn
<1>4. <<>> \in Seq(Nat)
  OBVIOUS
<1>5. CASE b = [kind |-> "other", items |-> <<>>, count |-> NoOne, pages |-> NoOne]
  <2>1. b \in Body
    BY <1>4, <1>5 DEF Body
  <2>2. b.kind = "other"
    BY <1>5
  <2>3. QED
    BY <2>1, <2>2, ClientAssumption DEF ClientAssumption, IsPage
<1>6. ASSUME NEW says \in Envelopes,
             b = [kind |-> "page", items |-> PageOf(page[t], n),
                  count |-> IF "count" \in says THEN Len(collection) ELSE NoOne,
                  pages |-> IF "pageCount" \in says THEN PagesOf(n) ELSE NoOne]
      PROVE  /\ b \in Body /\ b.items = PageOf(page[t], n)
             /\ b.count \in {NoOne, Len(collection)} /\ b.pages \in {NoOne, PagesOf(n)}
  <2>1. b \in Body
    BY <1>1, <1>2, <1>3, <1>6 DEF Body
  <2>2. QED
    BY <1>6, <2>1
<1>7. CASE b # [kind |-> "other", items |-> <<>>, count |-> NoOne, pages |-> NoOne]
  <2>1. /\ b \in Body /\ b.items = PageOf(page[t], n)
        /\ b.count \in {NoOne, Len(collection)} /\ b.pages \in {NoOne, PagesOf(n)}
    BY <1>6, <1>7 DEF Bodies
  <2>2. QED
    BY <1>2, <2>1, ClientAssumption DEF ClientAssumption
<1>8. QED
  BY <1>5, <1>7

\* A page of some size, or what is no page.
PageGiven(t, n) ==
  /\ \E b \in Bodies(t, n) : reply' = [reply EXCEPT ![t] = b]
  /\ size' = [size EXCEPT ![t] = n]
  /\ shrunk' = [shrunk EXCEPT ![t] = page[t] # 1 /\ (@ \/ n < size[t])]

\* An attempt, by what it was told.
AttemptWith(t, r) ==
  /\ seen' = [seen EXCEPT ![t] = Append(@, r)]
  /\ lastExc' = [lastExc EXCEPT ![t] = IF r = "broken" THEN r ELSE @]
  /\ \/ r \in Passing /\ UNCHANGED <<reply, pageVars>>
        /\ Goes(t, "send", IF ~Spent(t) THEN "request"
                            ELSE IF lastExc'[t] # NoOne THEN "raised" ELSE "gave up")
     \/ r = "refused" /\ Goes(t, "send", "refused") /\ UNCHANGED <<reply, pageVars>>
     \/ /\ r = "body" /\ Goes(t, "send", "replied")
        /\ \E n \in PageSizes : PageGiven(t, n)
        /\ first' = [first EXCEPT ![t] = IF expected[t] = NoOne THEN collection ELSE @]
        /\ still' = [still EXCEPT ![t] = page[t] = 1 \/ @]
     \/ /\ r \in {"missing", "empty"} /\ Goes(t, "send", "replied")
        /\ reply' = [reply EXCEPT ![t] = NoOne] /\ UNCHANGED pageVars

\* An attempt is one with some reply.
LEMMA AttemptIs ==
  ASSUME NEW t \in Threads, Attempt(t)
  PROVE  \E r \in Replies : AttemptWith(t, r)
BY DEF Attempt, AttemptWith, PageGiven, Replies, NotFound, Retryable, Passing

\* It is its own thread's: nothing of another moves.
LEMMA AttemptMoves ==
  ASSUME ClientTypeOK, NEW t \in Threads, Attempt(t)
  PROVE  /\ call[t] = "send" /\ call'[t] \in {"request", "raised", "gave up", "refused", "replied"}
         /\ UNCHANGED <<collection, throttleVars, asks, page, items, expected, warned>>
         /\ \A u \in Threads : u # t => UNCHANGED <<call[u], seen[u], lastExc[u], reply[u], first[u], still[u], size[u], shrunk[u]>>
<1>1. PICK r \in Replies : AttemptWith(t, r)
  BY AttemptIs
<1>2. /\ call \in [Threads -> Places] /\ seen \in [Threads -> Seq(Replies)]
      /\ lastExc \in [Threads -> {NoOne, "broken"}] /\ reply \in [Threads -> Body \cup {NoOne}]
      /\ first \in [Threads -> Seq(Nat)] /\ still \in [Threads -> BOOLEAN]
      /\ size \in [Threads -> Nat] /\ shrunk \in [Threads -> BOOLEAN]
  BY DEF ClientTypeOK
<1>3. call[t] = "send" /\ call'[t] \in {"request", "raised", "gave up", "refused", "replied"}
      /\ \A u \in Threads : u # t => call'[u] = call[u]
  BY <1>1, <1>2 DEF AttemptWith, Goes
<1>4. \A u \in Threads : u # t => UNCHANGED <<seen[u], lastExc[u]>>
  BY <1>1, <1>2 DEF AttemptWith
<1>5. \A u \in Threads : u # t => UNCHANGED <<reply[u]>>
  BY <1>1, <1>2 DEF AttemptWith, PageGiven, pageVars
<1>6. \A u \in Threads : u # t => UNCHANGED <<first[u], still[u], size[u], shrunk[u]>>
  BY <1>1, <1>2 DEF AttemptWith, PageGiven, pageVars
<1>7. QED
  BY <1>3, <1>4, <1>5, <1>6 DEF Attempt

\* Every step is of a thread, or of the clock, or of ESPN.
LEMMA ClientTypes == ClientTypeOK /\ [ClientNext]_clientVars => ClientTypeOK'
<1> SUFFICES ASSUME ClientTypeOK, [ClientNext]_clientVars PROVE ClientTypeOK'
  OBVIOUS
<1> USE DEF ClientTypeOK, callVars, throttleVars, pageVars
<1>1. ASSUME NEW t \in Threads, BeginCall(t) PROVE ClientTypeOK'
  <2>1. asks' \in [Threads -> {"json", "collection"}]
    BY <1>1, ClientAssumption DEF ClientAssumption, BeginCall
  <2>2. call' \in [Threads -> Places]
    BY <1>1 DEF BeginCall, Goes, Places
  <2>3. QED
    BY <1>1, <2>1, <2>2 DEF BeginCall
<1>2. ASSUME NEW t \in Threads, Throttle(t) PROVE ClientTypeOK'
  <2>1. sleep' \in [Threads -> Nat] /\ turn' \in Threads \cup {NoOne}
    BY <1>2, SettingsAre DEF Throttle
  <2>2. call' \in [Threads -> Places]
    BY <1>2 DEF Throttle, Goes, Places
  <2>3. QED
    BY <1>2, <2>1, <2>2 DEF Throttle
<1>3. ASSUME NEW t \in Threads, TakeTurn(t) PROVE ClientTypeOK'
  <2>1. age' \in 0..Interval /\ gap' \in Nat /\ turn' \in Threads \cup {NoOne}
    BY <1>3, SettingsAre DEF TakeTurn
  <2>2. call' \in [Threads -> Places]
    BY <1>3 DEF TakeTurn, Goes, Places
  <2>3. QED
    BY <1>3, <2>1, <2>2 DEF TakeTurn
<1>4. ASSUME NEW t \in Threads, Attempt(t) PROVE ClientTypeOK'
  <2>1. PICK r \in Replies : AttemptWith(t, r)
    BY <1>4, AttemptIs
  <2> USE DEF AttemptWith
  <2>2. seen' \in [Threads -> Seq(Replies)] /\ lastExc' \in [Threads -> {NoOne, "broken"}]
    <3>1. seen \in [Threads -> Seq(Replies)] /\ lastExc \in [Threads -> {NoOne, "broken"}]
      OBVIOUS
    <3> HIDE DEF ClientTypeOK
    <3>2. Append(seen[t], r) \in Seq(Replies)
      BY <3>1, OneMore
    <3>3. seen' \in [Threads -> Seq(Replies)]
      BY <2>1, <3>1, <3>2
    <3>4. lastExc' \in [Threads -> {NoOne, "broken"}]
      BY <2>1, <3>1
    <3>5. QED
      BY <3>3, <3>4
  <2>3. call' \in [Threads -> Places]
    BY <2>1, ZenonT(60) DEF Goes, Places
  <2>4. reply' \in [Threads -> Body \cup {NoOne}]
    <3>1. reply \in [Threads -> Body \cup {NoOne}]
      OBVIOUS
    <3>2. \A n \in PageSizes : \A b \in Bodies(t, n) : b \in Body
      BY BodiesAre
    <3> HIDE DEF ClientTypeOK
    <3>3. QED
      BY <2>1, <3>1, <3>2 DEF PageGiven
  <2>4a. size' \in [Threads -> Nat] /\ shrunk' \in [Threads -> BOOLEAN]
    <3>1. size \in [Threads -> Nat] /\ shrunk \in [Threads -> BOOLEAN]
      OBVIOUS
    <3> HIDE DEF ClientTypeOK
    <3>2. ASSUME NEW n \in PageSizes, PageGiven(t, n)
          PROVE  size' \in [Threads -> Nat] /\ shrunk' \in [Threads -> BOOLEAN]
      <4>1. n \in Nat
        BY SettingsAre
      <4>2. QED
        BY <3>1, <3>2, <4>1 DEF PageGiven
    <3>3. QED
      BY <2>1, <3>1, <3>2
  <2>5. first' \in [Threads -> Seq(Nat)] /\ still' \in [Threads -> BOOLEAN]
    <3>1. first \in [Threads -> Seq(Nat)] /\ still \in [Threads -> BOOLEAN] /\ collection \in Seq(Nat)
      OBVIOUS
    <3> HIDE DEF ClientTypeOK
    <3>2. QED
      BY <2>1, <3>1
  <2>6. QED
    BY <1>4, <2>2, <2>3, <2>4, <2>4a, <2>5 DEF Attempt
<1>5. ASSUME NEW t \in Threads, GetJson(t) PROVE ClientTypeOK'
  <2>1. items' \in [Threads -> Seq(Nat)]
    BY <1>5 DEF GetJson, IsPage, Body
  <2>2. QED
    BY <1>5, <2>1 DEF GetJson, Goes, Places
<1>6. ASSUME NEW t \in Threads, UnreadablePage(t) PROVE ClientTypeOK'
  BY <1>6 DEF UnreadablePage, Goes, Places
<1>7. ASSUME NEW t \in Threads, ReadPage(t) PROVE ClientTypeOK'
  <2>1. reply[t].items \in Seq(Nat) /\ reply[t].count \in Nat \cup {NoOne}
    BY <1>7 DEF ReadPage, IsPage, Body
  <2>2. items' \in [Threads -> Seq(Nat)] /\ expected' \in [Threads -> Nat \cup {NoOne}]
    BY <1>7, <2>1, SMTT(60) DEF ReadPage
  <2>3. call' \in [Threads -> Places] /\ page' \in [Threads -> Nat \ {0}]
        /\ seen' \in [Threads -> Seq(Replies)] /\ lastExc' \in [Threads -> {NoOne, "broken"}]
    <3>1. call \in [Threads -> Places] /\ page \in [Threads -> Nat \ {0}]
          /\ seen \in [Threads -> Seq(Replies)] /\ lastExc \in [Threads -> {NoOne, "broken"}]
          /\ <<>> \in Seq(Replies)
      BY SMTT(60)
    <3> HIDE DEF ClientTypeOK
    <3>2. call' \in [Threads -> Places]
      BY <1>7, <3>1 DEF ReadPage, Goes, Places
    <3>3. page' \in [Threads -> Nat \ {0}]
      BY <1>7, <3>1, SMTT(60) DEF ReadPage
    <3>4. seen' \in [Threads -> Seq(Replies)] /\ lastExc' \in [Threads -> {NoOne, "broken"}]
      BY <1>7, <3>1 DEF ReadPage
    <3>5. QED
      BY <3>2, <3>3, <3>4
  <2>4. QED
    BY <1>7, <2>2, <2>3 DEF ReadPage
<1>8. ASSUME NEW t \in Threads, CountItems(t) PROVE ClientTypeOK'
  BY <1>8 DEF CountItems, Goes, Places
<1>9. ASSUME TimePasses PROVE ClientTypeOK'
  <2>1. age' \in 0..Interval
    BY <1>9, SettingsAre DEF TimePasses
  <2>2. sleep' \in [Threads -> Nat]
    BY <1>9, SMTT(60) DEF TimePasses
  <2>3. QED
    BY <1>9, <2>1, <2>2 DEF TimePasses
<1>10. ASSUME EspnCollection PROVE ClientTypeOK'
  <2>1. collection' \in Seq(Nat)
    <3>1. collection \in Seq(Nat) /\ <<0>> \in Seq(Nat)
      OBVIOUS
    <3> HIDE DEF ClientTypeOK
    <3>2. collection # <<>> => Tail(collection) \in Seq(Nat)
      BY <3>1
    <3>3. <<0>> \o collection \in Seq(Nat)
      BY <3>1, ConcatProperties
    <3>4. QED
      BY <1>10, <3>2, <3>3 DEF EspnCollection
  <2>2. still' \in [Threads -> BOOLEAN]
    BY <1>10 DEF EspnCollection
  <2>3. QED
    BY <1>10, <2>1, <2>2 DEF EspnCollection
<1>11. ASSUME UNCHANGED clientVars PROVE ClientTypeOK'
  BY <1>11 DEF clientVars
<1>12. QED
  BY <1>1, <1>2, <1>3, <1>4, <1>5, <1>6, <1>7, <1>8, <1>9, <1>10, <1>11
     DEF ClientNext, CallStep, ClientOver

\* Two turns are apart because whoever sleeps holds the lock, and nobody else
\* can make the last turn younger meanwhile.
LEMMA ThrottleStep == ClientTypeOK /\ ThrottleInv /\ [ClientNext]_clientVars => ThrottleInv'
<1> SUFFICES ASSUME ClientTypeOK, ThrottleInv, [ClientNext]_clientVars PROVE ThrottleInv'
  OBVIOUS
<1> USE DEF ThrottleInv, callVars, throttleVars, pageVars
<1>1. ASSUME NEW t \in Threads, Throttle(t) PROVE ThrottleInv'
  <2>1. NoOne \notin Threads /\ age \in Nat /\ Interval \in Nat
    BY SettingsAre, ClientAssumption DEF ClientAssumption, ClientTypeOK
  <2>2. \A u \in Threads : call'[u] = IF u = t THEN "throttled" ELSE call[u]
    BY <1>1 DEF Throttle, Goes, ClientTypeOK
  <2>3. sleep'[t] = Interval - age /\ turn' = t /\ age' = age /\ gap' = gap /\ turn = NoOne
    BY <1>1 DEF Throttle, ClientTypeOK
  <2>4. QED
    BY <2>1, <2>2, <2>3
<1>2. ASSUME NEW t \in Threads, TakeTurn(t) PROVE ThrottleInv'
  <2>1. gap' >= Interval
    BY <1>2, SettingsAre DEF ClientTypeOK, TakeTurn, Goes
  <2>2. \A u \in Threads : call'[u] # "throttled"
    BY <1>2, ClientAssumption DEF ClientTypeOK, TakeTurn, Goes
  <2>3. QED
    BY <2>1, <2>2
<1>3. ASSUME TimePasses PROVE ThrottleInv'
  <2>1. age \in 0..Interval /\ Interval \in Nat /\ \A u \in Threads : sleep[u] \in Nat
    BY SettingsAre DEF ClientTypeOK
  <2>2. age' = (IF age < Interval THEN age + 1 ELSE age) /\ gap' = gap /\ turn' = turn /\ call' = call
        /\ \A u \in Threads : sleep'[u] = IF sleep[u] > 0 THEN sleep[u] - 1 ELSE 0
    BY <1>3 DEF TimePasses
  <2>3. QED
    BY <2>1, <2>2
<1>4. ASSUME UNCHANGED throttleVars,
             \A u \in Threads : call'[u] = "throttled" => call[u] = "throttled"
      PROVE  ThrottleInv'
  BY <1>4
<1>5. ASSUME NEW t \in Threads, BeginCall(t) \/ GetJson(t) \/ UnreadablePage(t) \/ ReadPage(t) \/ CountItems(t)
      PROVE  ThrottleInv'
  BY <1>4, <1>5, ZenonT(60) DEF BeginCall, GetJson, UnreadablePage, ReadPage, CountItems, Goes, ClientTypeOK
<1>6. ASSUME NEW t \in Threads, Attempt(t) PROVE ThrottleInv'
  <2>1. UNCHANGED throttleVars
    BY <1>6 DEF Attempt
  <2>2. \A u \in Threads : call'[u] = "throttled" => call[u] = "throttled"
    BY <1>6, AttemptMoves
  <2>3. QED
    BY <1>4, <2>1, <2>2
<1>7. ASSUME EspnCollection \/ UNCHANGED clientVars PROVE ThrottleInv'
  BY <1>4, <1>7 DEF EspnCollection, clientVars
<1>8. QED
  BY <1>1, <1>2, <1>3, <1>5, <1>6, <1>7 DEF ClientNext, CallStep, ClientOver

\* A request ends with what it was last told.
LEMMA RequestStep ==
  ASSUME ClientTypeOK, [ClientNext]_clientVars, NEW u \in Threads, RequestOK(u)
  PROVE  RequestOK(u)'
<1> USE DEF callVars, throttleVars, pageVars
<1>1. ASSUME UNCHANGED <<seen[u], lastExc[u], reply[u]>>,
             \/ call'[u] = call[u]
             \/ call[u] \in InLoop /\ call'[u] \in InLoop
             \/ call[u] \in {"replied", "counted"} /\ call'[u] \in {"counted", "returned"}
      PROVE  RequestOK(u)'
  BY <1>1 DEF RequestOK, InLoop
<1>2. ASSUME NEW t \in Threads,
             BeginCall(t) \/ Throttle(t) \/ TakeTurn(t) \/ GetJson(t) \/ UnreadablePage(t) \/ CountItems(t)
      PROVE  RequestOK(u)'
  <2>1. UNCHANGED <<seen[u], lastExc[u], reply[u]>>
    BY <1>2 DEF BeginCall, Throttle, TakeTurn, GetJson, UnreadablePage, CountItems
  <2>2. \/ call'[u] = call[u]
        \/ call[u] \in InLoop /\ call'[u] \in InLoop
        \/ call[u] \in {"replied", "counted"} /\ call'[u] \in {"counted", "returned"}
    BY <1>2 DEF BeginCall, Throttle, TakeTurn, GetJson, UnreadablePage, CountItems, Goes, ClientTypeOK, InLoop
  <2>3. QED
    BY <1>1, <2>1, <2>2
<1>3. ASSUME NEW t \in Threads, ReadPage(t) PROVE RequestOK(u)'
  <2>1. CASE seen'[u] = seen[u] /\ lastExc'[u] = lastExc[u]
             /\ (call'[u] = call[u] \/ (call[u] = "replied" /\ call'[u] = "counted"))
    BY <1>1, <1>3, <2>1 DEF ReadPage
  <2>2. CASE seen'[u] = <<>> /\ lastExc'[u] = NoOne /\ call'[u] = "request"
    <3>1. NoOne # "broken" /\ ToSet(<<>>) = {} /\ Len(<<>>) = 0
      BY ClientAssumption DEF ClientAssumption, ToSet
    <3>2. ToSet(seen'[u]) = {} /\ Len(seen'[u]) = 0
      BY <2>2, <3>1
    <3>3. ToSet(seen'[u]) \subseteq Passing /\ Len(seen'[u]) <= MaxRetries
      BY <3>2, SettingsAre
    <3>4. lastExc'[u] = "broken" <=> "broken" \in ToSet(seen'[u])
      BY <2>2, <3>1, <3>2
    <3>5. QED
      BY <2>2, <3>3, <3>4 DEF RequestOK, InLoop
  <2>3. CASE t = u
    <3>1. \/ call'[u] = "counted" /\ call[u] = "replied" /\ seen'[u] = seen[u] /\ lastExc'[u] = lastExc[u]
          \/ call'[u] = "request" /\ seen'[u] = <<>> /\ lastExc'[u] = NoOne
      BY <1>3, <2>3 DEF ReadPage, Goes, ClientTypeOK
    <3>2. QED
      BY <2>1, <2>2, <3>1
  <2>4. CASE t # u
    <3>1. call'[u] = call[u] /\ seen'[u] = seen[u] /\ lastExc'[u] = lastExc[u]
      BY <1>3, <2>4 DEF ReadPage, Goes, ClientTypeOK
    <3>2. reply'[u] = reply[u]
      BY <1>3 DEF ReadPage
    <3>3. QED
      BY <1>1, <3>1, <3>2
  <2>5. QED
    BY <2>3, <2>4
<1>4. ASSUME NEW t \in Threads, Attempt(t), t # u PROVE RequestOK(u)'
  <2>1. UNCHANGED <<seen[u], lastExc[u], reply[u]>> /\ call'[u] = call[u]
    BY <1>4, AttemptMoves
  <2>2. QED
    BY <1>1, <2>1
<1>5. ASSUME Attempt(u) PROVE RequestOK(u)'
  <2>1. PICK r \in Replies : AttemptWith(u, r)
    BY <1>5, AttemptIs
  <2> USE DEF AttemptWith
  <2>2. /\ seen'[u] = Append(seen[u], r) /\ Len(seen'[u]) = Len(seen[u]) + 1
        /\ ToSet(seen'[u]) = ToSet(seen[u]) \cup {r} /\ Front(seen'[u]) = seen[u] /\ Last(seen'[u]) = r
        /\ Len(seen[u]) \in Nat
    <3>1. seen \in [Threads -> Seq(Replies)]
      BY DEF ClientTypeOK
    <3>2. seen'[u] = Append(seen[u], r) /\ seen[u] \in Seq(Replies)
      BY <2>1, <3>1
    <3>3. QED
      BY <3>2, OneMore
  <2>3. ToSet(seen[u]) \subseteq Passing /\ Len(seen[u]) <= MaxRetries
    BY <2>1 DEF RequestOK, InLoop, Goes
  <2>4. lastExc'[u] = "broken" <=> "broken" \in ToSet(seen'[u])
    BY <2>1, <2>2 DEF RequestOK, ClientTypeOK
  <2>5. CASE r \in Passing
             /\ Goes(u, "send", IF ~Spent(u) THEN "request"
                                 ELSE IF lastExc'[u] # NoOne THEN "raised" ELSE "gave up")
    <3>1. ToSet(seen'[u]) \subseteq Passing
      BY <2>2, <2>3, <2>5
    <3>2. lastExc'[u] \in {NoOne, "broken"}
      BY <2>1 DEF ClientTypeOK
    <3>3. CASE ~Spent(u) /\ call'[u] = "request"
      <4>1. Len(seen'[u]) <= MaxRetries
        BY <2>2, <2>3, <3>3, SettingsAre DEF Spent, Attempts
      <4>2. QED
        BY <2>4, <3>1, <3>3, <4>1 DEF RequestOK, InLoop
    <3>4. CASE Spent(u) /\ call'[u] = IF lastExc'[u] # NoOne THEN "raised" ELSE "gave up"
      <4>1. Len(seen'[u]) = MaxRetries + 1
        BY <3>4 DEF Spent, Attempts
      <4>2. call'[u] = "raised" <=> "broken" \in ToSet(seen'[u])
        BY <2>4, <3>2, <3>4, ClientAssumption DEF ClientAssumption
      <4>3. QED
        BY <2>4, <3>1, <3>4, <4>1, <4>2 DEF RequestOK, InLoop
    <3>5. QED
      BY <2>5, <3>3, <3>4 DEF Goes, ClientTypeOK
  <2>6. CASE r = "refused" /\ Goes(u, "send", "refused")
    BY <2>4, <2>6 DEF RequestOK, InLoop, Goes, ClientTypeOK
  <2>7. CASE Goes(u, "send", "replied") /\ (reply'[u] = NoOne <=> r \in {"missing", "empty"})
    <3>1. call'[u] = "replied"
      BY <2>7 DEF Goes, ClientTypeOK
    <3>2. Len(seen'[u]) <= MaxRetries + 1
      BY <2>2, <2>3, SettingsAre
    <3>3. QED
      BY <2>2, <2>3, <2>4, <2>7, <3>1, <3>2 DEF RequestOK, InLoop
  <2>8. ASSUME NEW n \in PageSizes, PageGiven(u, n) PROVE reply'[u] # NoOne
    <3>1. PICK b \in Bodies(u, n) : reply' = [reply EXCEPT ![u] = b]
      BY <2>8 DEF PageGiven
    <3>2. reply'[u] = b
      BY <3>1 DEF ClientTypeOK
    <3>3. QED
      BY <3>2, BodiesAre
  <2>9. ASSUME reply' = [reply EXCEPT ![u] = NoOne] PROVE reply'[u] = NoOne
    BY <2>9 DEF ClientTypeOK
  <2>10. QED
    BY <2>1, <2>5, <2>6, <2>7, <2>8, <2>9
<1>6. ASSUME TimePasses \/ EspnCollection \/ UNCHANGED clientVars PROVE RequestOK(u)'
  BY <1>1, <1>6 DEF TimePasses, EspnCollection, clientVars
<1>7. QED
  BY <1>2, <1>3, <1>4, <1>5, <1>6 DEF ClientNext, CallStep, ClientOver

-----------------------------------------------------------------------------
\* What a reader holds, whose thread does not move: of the collection it is told
\* only that it moved.
LEMMA HeldStays ==
  ASSUME NEW u \in Threads, Held(u),
         UNCHANGED <<asks[u], page[u], items[u], expected[u], first[u], size[u], shrunk[u], warned[u]>>,
         call'[u] = call[u] \/ (call[u] \in InLoop /\ call'[u] \in InLoop \ {"idle"}),
         reply'[u] = reply[u],
         still'[u] => still[u] /\ collection' = collection
  PROVE  Held(u)'
<1>1. ReadOK(u)'
  BY DEF Held, ReadOK, InLoop, Steady
<1>2. ReplyOK(u)'
  BY DEF Held, ReplyOK, InLoop, IsPage
<1>3. EndOK(u)'
  BY DEF Held, EndOK, InLoop, IsPage, Steady
<1>4. QED
  BY <1>1, <1>2, <1>3 DEF Held

\* No more than so many items is no more than as many or more.
LEMMA FurtherOn ==
  ASSUME NEW s \in Seq(Nat), NEW got \in Seq(Nat), NEW p \in Nat \ {0}, NEW m \in Nat, NEW n \in Nat, m <= n,
         UpTo(got, s, (p - 1) * m)
  PROVE  UpTo(got, s, (p - 1) * n)
<1> DEFINE k == (p - 1) * m
           l == (p - 1) * n
<1>1. k \in Nat /\ l \in Nat /\ k <= l /\ Len(got) \in Nat
  BY PageBounds
<1>2. UpTo(got, s, k)
  OBVIOUS
<1> HIDE DEF k, l
<1>3. Len(got) <= l
  BY <1>1, <1>2 DEF UpTo
<1>4. ASSUME Len(got) = l PROVE got = SubSeq(s, 1, l)
  <2>1. k = l
    BY <1>1, <1>2, <1>4 DEF UpTo
  <2>2. QED
    BY <1>2, <1>4, <2>1 DEF UpTo
<1>5. UpTo(got, s, l)
  BY <1>3, <1>4 DEF UpTo
<1>6. QED
  BY <1>5 DEF l

\* A page is a page of what the first one found, as long as nothing moved.
LEMMA AttemptHolds ==
  ASSUME ClientTypeOK, NEW t \in Threads, Attempt(t), Held(t)
  PROVE  Held(t)'
<1>1. PICK r \in Replies : AttemptWith(t, r)
  BY AttemptIs
<1>2. /\ call[t] = "send" /\ call'[t] \in {"request", "raised", "gave up", "refused", "replied"}
      /\ UNCHANGED <<collection, asks[t], page[t], items[t], expected[t], warned[t]>>
  BY AttemptMoves
<1>3. CASE UNCHANGED <<first[t], still[t], size[t], shrunk[t]>> /\ (call'[t] # "replied" \/ reply'[t] = NoOne)
  <2>1. ReadOK(t)'
    BY <1>2, <1>3 DEF Held, ReadOK, InLoop, Steady
  <2>2. ReplyOK(t)'
    BY <1>2, <1>3 DEF ReplyOK, IsPage
  <2>3. EndOK(t)'
    BY <1>2 DEF EndOK
  <2>4. QED
    BY <2>1, <2>2, <2>3 DEF Held
<1>4. ASSUME call'[t] = "replied", NEW n \in PageSizes, NEW b \in Bodies(t, n), reply'[t] = b,
             size'[t] = n, shrunk'[t] = (page[t] # 1 /\ (shrunk[t] \/ n < size[t])),
             first'[t] = (IF expected[t] = NoOne THEN collection ELSE first[t]),
             still'[t] = (page[t] = 1 \/ still[t])
      PROVE  Held(t)'
  <2>1. /\ collection \in Seq(Nat) /\ Len(collection) \in Nat /\ NoOne \notin Nat /\ n \in Nat /\ n > 0
        /\ size[t] \in Nat /\ page[t] \in Nat \ {0} /\ first[t] \in Seq(Nat) /\ items[t] \in Seq(Nat)
    BY ClientAssumption, SettingsAre DEF ClientTypeOK, ClientAssumption
  <2>2. /\ still[t] => first[t] = collection
        /\ page[t] = 1 => items[t] = <<>> /\ expected[t] = NoOne
        /\ expected[t] = NoOne \/ expected[t] = Len(first[t])
        /\ page[t] # 1 /\ Steady(t) => UpTo(items[t], first[t], (page[t] - 1) * size[t]) /\ PartOf(items[t], first[t])
        /\ asks[t] = "json" => page[t] = 1
    BY <1>2 DEF Held, ReadOK, InLoop
  <2>3. still'[t] => first'[t] = collection
    BY <1>4, <2>2
  <2>4. ASSUME page[t] # 1, Steady(t)'
        PROVE  UpTo(items[t], first'[t], (page[t] - 1) * n) /\ PartOf(items[t], first'[t])
    <3>1. Steady(t) /\ ~(n < size[t])
      BY <1>4, <2>4 DEF Steady
    <3>2. first'[t] = first[t] /\ size[t] <= n
      BY <1>4, <2>1, <2>2, <3>1 DEF Steady
    <3>3. UpTo(items[t], first[t], (page[t] - 1) * n)
      BY <2>1, <2>2, <2>4, <3>1, <3>2, FurtherOn
    <3>4. QED
      BY <2>2, <2>4, <3>1, <3>2, <3>3
  <2>5. expected[t] = NoOne \/ expected[t] = Len(first'[t])
    BY <1>4, <2>2
  <2>6. ReadOK(t)'
    BY <1>2, <1>4, <2>2, <2>3, <2>4, <2>5 DEF ReadOK, InLoop
  <2>7. IsPage(b) => /\ b.items = PageIn(collection, page[t], n)
                     /\ b.count \in {NoOne, Len(collection)}
                     /\ b.pages \in {NoOne, PagesIn(collection, n)}
    BY BodiesAre
  <2>8. page[t] = 1 \/ still'[t] => first'[t] = collection
    BY <1>4, <2>2
  <2>9. ReplyOK(t)'
    <3>1. size'[t] # 0 /\ page'[t] = page[t] /\ expected'[t] = expected[t] /\ reply'[t] = b
      BY <1>2, <1>4, <2>1
    <3>2. IsPage(b) /\ (page[t] = 1 \/ still'[t]) =>
            /\ b.items = PageIn(first'[t], page'[t], size'[t])
            /\ b.pages \in {NoOne, PagesIn(first'[t], size'[t])}
      BY <1>4, <2>7, <2>8, <3>1
    <3>3. IsPage(b) /\ expected[t] = NoOne => b.count \in {NoOne, Len(first'[t])}
      BY <1>4, <2>7
    <3>4. QED
      BY <3>1, <3>2, <3>3 DEF ReplyOK, IsPage, PageIn, PagesIn
  <2>10. EndOK(t)'
    BY <1>4 DEF EndOK
  <2>11. QED
    BY <2>6, <2>9, <2>10 DEF Held
<1>5. CASE call'[t] # "replied" /\ UNCHANGED pageVars
  BY <1>3, <1>5 DEF pageVars
<1>6. CASE reply' = [reply EXCEPT ![t] = NoOne] /\ UNCHANGED pageVars
  <2>1. reply'[t] = NoOne
    BY <1>6 DEF ClientTypeOK
  <2>2. QED
    BY <1>3, <1>6, <2>1 DEF pageVars
<1>7. CASE /\ Goes(t, "send", "replied")
           /\ \E n \in PageSizes : PageGiven(t, n)
           /\ first' = [first EXCEPT ![t] = IF expected[t] = NoOne THEN collection ELSE @]
           /\ still' = [still EXCEPT ![t] = page[t] = 1 \/ @]
  <2>1. PICK n \in PageSizes : PageGiven(t, n)
    BY <1>7
  <2>2. PICK b \in Bodies(t, n) : reply' = [reply EXCEPT ![t] = b]
    BY <2>1 DEF PageGiven
  <2>3. reply'[t] = b /\ call'[t] = "replied"
    BY <1>7, <2>2 DEF ClientTypeOK, Goes
  <2>4. first'[t] = (IF expected[t] = NoOne THEN collection ELSE first[t])
    BY <1>7 DEF ClientTypeOK
  <2>5. still'[t] = (page[t] = 1 \/ still[t])
    BY <1>7 DEF ClientTypeOK
  <2>6. size'[t] = n /\ shrunk'[t] = (page[t] # 1 /\ (shrunk[t] \/ n < size[t]))
    BY <2>1 DEF PageGiven, ClientTypeOK
  <2>7. QED
    BY <1>4, <2>3, <2>4, <2>5, <2>6
<1>8. QED
  <2>1. \/ call'[t] # "replied" /\ UNCHANGED pageVars
        \/ reply' = [reply EXCEPT ![t] = NoOne] /\ UNCHANGED pageVars
        \/ /\ Goes(t, "send", "replied")
           /\ \E n \in PageSizes : PageGiven(t, n)
           /\ first' = [first EXCEPT ![t] = IF expected[t] = NoOne THEN collection ELSE @]
           /\ still' = [still EXCEPT ![t] = page[t] = 1 \/ @]
    BY <1>1 DEF AttemptWith, Goes, ClientTypeOK
  <2>2. QED
    BY <1>5, <1>6, <1>7, <2>1

\* get_json: the one page it is warned of no other is the whole collection.
LEMMA JsonHolds ==
  ASSUME ClientTypeOK, NEW t \in Threads, GetJson(t), Held(t)
  PROVE  Held(t)'
<1>1. /\ asks[t] = "json" /\ call[t] = "replied" /\ call'[t] = "returned"
      /\ UNCHANGED <<collection, reply, asks, page, expected, first, still, size, shrunk>>
      /\ first[t] \in Seq(Nat) /\ page[t] = 1 /\ NoOne \notin Nat /\ size[t] \in Nat
  BY ClientAssumption DEF GetJson, Goes, ClientTypeOK, Held, ReadOK, ClientAssumption, pageVars
<1>2. IsPage(reply[t]) => /\ items'[t] = reply[t].items
                          /\ warned'[t] = (reply[t].pages # NoOne /\ reply[t].pages > 1)
  BY DEF GetJson, ClientTypeOK
<1>3. IsPage(reply[t]) => /\ size[t] # 0
                          /\ reply[t].items = PageIn(first[t], 1, size[t])
                          /\ reply[t].pages \in {NoOne, PagesIn(first[t], size[t])}
  BY <1>1 DEF Held, ReplyOK
<1>4. ASSUME IsPage(reply[t]), ~warned'[t] PROVE items'[t] = first[t] \/ reply[t].pages = NoOne
  <2>1. SUFFICES ASSUME reply[t].pages # NoOne PROVE items'[t] = first[t]
    OBVIOUS
  <2>2. ~(PagesIn(first[t], size[t]) > 1)
    <3>1. reply[t].pages = PagesIn(first[t], size[t])
      BY <1>3, <1>4, <2>1
    <3>2. ~(reply[t].pages > 1)
      BY <1>2, <1>4, <2>1
    <3>3. QED
      BY <3>1, <3>2
  <2>3. PageIn(first[t], 1, size[t]) = first[t]
    BY <1>1, <1>3, <1>4, <2>2, OnePage
  <2>4. QED
    BY <1>2, <1>3, <1>4, <2>3
<1>5. ReadOK(t)'
  BY <1>1 DEF Held, ReadOK, InLoop
<1>6. ReplyOK(t)'
  BY <1>1 DEF ReplyOK
<1>7. EndOK(t)'
  BY <1>1, <1>4 DEF EndOK, IsPage
<1>8. QED
  BY <1>5, <1>6, <1>7 DEF Held

\* A page that cannot be read ends the reading with what was read before it.
LEMMA UnreadableHolds ==
  ASSUME ClientTypeOK, NEW t \in Threads, UnreadablePage(t), Held(t)
  PROVE  Held(t)'
<1>1. /\ asks[t] = "collection" /\ call[t] = "replied" /\ call'[t] = "counted"
      /\ UNCHANGED <<collection, reply, asks, page, items, expected, first, still, size, shrunk>>
      /\ first[t] \in Seq(Nat)
  BY DEF UnreadablePage, Goes, ClientTypeOK, pageVars
<1>2. ASSUME Steady(t) PROVE PartOf(items[t], first[t])
  <2>1. CASE page[t] = 1
    <3>1. items[t] = <<>> /\ Len(items[t]) = 0
      BY <1>1, <2>1 DEF Held, ReadOK
    <3>2. QED
      BY <1>1, <3>1 DEF PartOf
  <2>2. CASE page[t] # 1
    BY <1>1, <1>2, <2>2 DEF Held, ReadOK
  <2>3. QED
    BY <2>1, <2>2
<1>3. ReadOK(t)'
  BY <1>1 DEF Held, ReadOK, InLoop
<1>4. ReplyOK(t)'
  BY <1>1 DEF ReplyOK
<1>5. EndOK(t)'
  BY <1>1, <1>2 DEF EndOK, Steady
<1>6. QED
  BY <1>3, <1>4, <1>5 DEF Held

\* A page that is read is put behind the ones before it.
LEMMA ReadPageHolds ==
  ASSUME ClientTypeOK, NEW t \in Threads, ReadPage(t), Held(t)
  PROVE  Held(t)'
<1> DEFINE b == reply[t]
<1>1. /\ asks[t] = "collection" /\ call[t] = "replied" /\ IsPage(b)
      /\ UNCHANGED <<collection, reply, asks, first, still, size, shrunk, warned>>
      /\ items'[t] = items[t] \o b.items
      /\ expected'[t] = IF expected[t] = NoOne THEN b.count ELSE expected[t]
      /\ first[t] \in Seq(Nat) /\ items[t] \in Seq(Nat) /\ page[t] \in Nat \ {0} /\ size[t] \in Nat
  BY DEF ReadPage, Goes, ClientTypeOK, pageVars
<1>2. \/ call'[t] = "counted" /\ page'[t] = page[t]
      \/ call'[t] = "request" /\ page'[t] = page[t] + 1
  BY DEF ReadPage, Goes, ClientTypeOK
<1>3. /\ size[t] # 0
      /\ expected[t] = NoOne => b.count \in {NoOne, Len(first[t])}
      /\ page[t] = 1 \/ still[t] => b.items = PageIn(first[t], page[t], size[t])
  BY <1>1 DEF Held, ReplyOK
<1>4. /\ still[t] => first[t] = collection
      /\ page[t] = 1 => items[t] = <<>>
      /\ expected[t] = NoOne \/ expected[t] = Len(first[t])
      /\ page[t] # 1 /\ Steady(t) => UpTo(items[t], first[t], (page[t] - 1) * size[t]) /\ PartOf(items[t], first[t])
  BY <1>1 DEF Held, ReadOK
<1> HIDE DEF b
<1>5. expected'[t] = NoOne \/ expected'[t] = Len(first[t])
  BY <1>1, <1>3, <1>4
<1>6. ASSUME Steady(t)
      PROVE  UpTo(items'[t], first[t], page[t] * size[t]) /\ PartOf(items'[t], first[t])
  <2>1. UpTo(items[t], first[t], (page[t] - 1) * size[t]) /\ PartOf(items[t], first[t])
    <3>1. CASE page[t] = 1
      <4>1. items[t] = <<>> /\ Len(items[t]) = 0 /\ (page[t] - 1) * size[t] = 0
        BY <1>1, <1>4, <3>1
      <4>2. SubSeq(first[t], 1, 0) = <<>> /\ Len(first[t]) \in Nat /\ (Len(first[t]) = 0 => first[t] = <<>>)
        BY <1>1, Beginnings
      <4>3. UpTo(items[t], first[t], 0) /\ PartOf(items[t], first[t])
        BY <4>1, <4>2 DEF UpTo, PartOf
      <4>4. QED
        BY <4>1, <4>3
    <3>2. CASE page[t] # 1
      BY <1>4, <1>6, <3>2
    <3>3. QED
      BY <3>1, <3>2
  <2>2. b.items = PageIn(first[t], page[t], size[t])
    BY <1>3, <1>6 DEF Steady
  <2>3. /\ UpTo(items[t] \o PageIn(first[t], page[t], size[t]), first[t], page[t] * size[t])
        /\ PartOf(items[t] \o PageIn(first[t], page[t], size[t]), first[t])
    <3>1. /\ first[t] \in Seq(Nat) /\ items[t] \in Seq(Nat)
          /\ page[t] \in Nat \ {0} /\ size[t] \in Nat /\ size[t] > 0
      BY <1>1, <1>3
    <3>2. QED
      BY <2>1, <3>1, PageRead
  <2>4. QED
    BY <1>1, <2>2, <2>3
<1>7. CASE call'[t] = "counted" /\ page'[t] = page[t]
  <2>1. ReadOK(t)'
    BY <1>1, <1>4, <1>5, <1>7 DEF ReadOK, InLoop
  <2>2. ReplyOK(t)'
    BY <1>7 DEF ReplyOK
  <2>3. EndOK(t)'
    BY <1>1, <1>6, <1>7 DEF EndOK, Steady
  <2>4. QED
    BY <2>1, <2>2, <2>3 DEF Held
<1>8. CASE call'[t] = "request" /\ page'[t] = page[t] + 1
  <2>1. page'[t] # 1 /\ page'[t] - 1 = page[t]
    <3>1. page[t] \in Nat /\ page[t] # 0
      BY <1>1
    <3>2. QED
      BY <1>8, <3>1
  <2>2. Steady(t)' => UpTo(items'[t], first'[t], (page'[t] - 1) * size'[t]) /\ PartOf(items'[t], first'[t])
    BY <1>1, <1>6, <2>1 DEF Steady
  <2>3. ReadOK(t)'
    BY <1>1, <1>4, <1>5, <1>8, <2>1, <2>2 DEF ReadOK, InLoop
  <2>4. ReplyOK(t)'
    BY <1>8 DEF ReplyOK
  <2>5. EndOK(t)'
    BY <1>8 DEF EndOK
  <2>6. QED
    BY <2>3, <2>4, <2>5 DEF Held
<1>9. QED
  BY <1>2, <1>7, <1>8

\* What a reader holds is kept by every step.
LEMMA HeldStep ==
  ASSUME ClientTypeOK, [ClientNext]_clientVars, NEW u \in Threads, Held(u)
  PROVE  Held(u)'
<1> USE DEF callVars, throttleVars, pageVars
<1>1. ASSUME BeginCall(u) PROVE Held(u)'
  <2>1. /\ call[u] = "idle" /\ call'[u] = "request"
        /\ UNCHANGED <<collection, page, items, expected, first, still, size, shrunk>>
    BY <1>1 DEF BeginCall, Goes, ClientTypeOK
  <2>2. ReadOK(u)'
    BY <2>1 DEF Held, ReadOK, InLoop
  <2>3. ReplyOK(u)' /\ EndOK(u)'
    BY <2>1 DEF ReplyOK, EndOK
  <2>4. QED
    BY <2>2, <2>3 DEF Held
<1>2. ASSUME CountItems(u) PROVE Held(u)'
  <2>1. /\ call[u] = "counted" /\ call'[u] = "returned" /\ asks[u] = "collection"
        /\ UNCHANGED <<collection, asks, page, items, expected, first, still, size, shrunk, reply>>
        /\ warned'[u] = (warned[u] \/ (expected[u] # NoOne /\ Len(items[u]) # expected[u]))
    BY <1>2 DEF CountItems, Goes, ClientTypeOK, Held, EndOK
  <2>2. ReadOK(u)' /\ ReplyOK(u)'
    BY <2>1 DEF Held, ReadOK, ReplyOK, InLoop, IsPage
  <2>3. EndOK(u)'
    BY <2>1 DEF Held, EndOK, Steady
  <2>4. QED
    BY <2>2, <2>3 DEF Held
<1>3. ASSUME NEW t \in Threads, BeginCall(t) \/ CallStep(t), t # u PROVE Held(u)'
  <2>1. UNCHANGED <<asks[u], page[u], items[u], expected[u], first[u], still[u], size[u], shrunk[u], warned[u]>>
        /\ call'[u] = call[u] /\ reply'[u] = reply[u] /\ collection' = collection
    <3>1. CASE Attempt(t)
      BY <1>3, <3>1, AttemptMoves
    <3>2. CASE BeginCall(t) \/ Throttle(t) \/ TakeTurn(t)
      BY <1>3, <3>2 DEF BeginCall, Throttle, TakeTurn, Goes, ClientTypeOK
    <3>3. CASE GetJson(t) \/ UnreadablePage(t) \/ CountItems(t)
      BY <1>3, <3>3 DEF GetJson, UnreadablePage, CountItems, Goes, ClientTypeOK
    <3>4. CASE ReadPage(t)
      BY <1>3, <3>4 DEF ReadPage, Goes, ClientTypeOK
    <3>5. QED
      BY <1>3, <3>1, <3>2, <3>3, <3>4 DEF CallStep
  <2>2. QED
    BY <2>1, HeldStays
<1>4. ASSUME Throttle(u) \/ TakeTurn(u) PROVE Held(u)'
  <2>1. UNCHANGED <<asks[u], page[u], items[u], expected[u], first[u], still[u], size[u], shrunk[u], warned[u]>>
        /\ call[u] \in InLoop /\ call'[u] \in InLoop \ {"idle"} /\ reply'[u] = reply[u] /\ collection' = collection
    BY <1>4 DEF Throttle, TakeTurn, Goes, ClientTypeOK, InLoop
  <2>2. QED
    BY <2>1, HeldStays
<1>5. ASSUME TimePasses \/ UNCHANGED clientVars PROVE Held(u)'
  <2>1. UNCHANGED <<asks[u], page[u], items[u], expected[u], first[u], still[u], size[u], shrunk[u], warned[u]>>
        /\ call'[u] = call[u] /\ reply'[u] = reply[u] /\ collection' = collection
    BY <1>5 DEF TimePasses, clientVars
  <2>2. QED
    BY <2>1, HeldStays
<1>6. ASSUME EspnCollection PROVE Held(u)'
  <2>1. UNCHANGED <<asks[u], page[u], items[u], expected[u], first[u], size[u], shrunk[u], warned[u]>>
        /\ call'[u] = call[u] /\ reply'[u] = reply[u] /\ still'[u] = FALSE
    BY <1>6 DEF EspnCollection
  <2>2. QED
    BY <2>1, HeldStays
<1>7. ASSUME CallStep(u) PROVE Held(u)'
  BY <1>2, <1>4, <1>7, AttemptHolds, JsonHolds, UnreadableHolds, ReadPageHolds DEF CallStep
<1>8. QED
  BY <1>1, <1>3, <1>5, <1>6, <1>7 DEF ClientNext, ClientOver

\* Nothing is held of a thread that has not begun.
LEMMA ClientStarts == ClientInit => ClientInv
<1> SUFFICES ASSUME ClientInit PROVE ClientInv
  OBVIOUS
<1> USE DEF ClientInit
<1>1. ClientTypeOK
  <2>1. collection \in Seq(Nat) /\ <<>> \in Seq(Nat) /\ <<>> \in Seq(Replies)
    BY ClientAssumption DEF ClientAssumption
  <2>2. age \in 0..Interval /\ gap \in Nat /\ turn \in Threads \cup {NoOne}
    BY SettingsAre
  <2>3. call \in [Threads -> Places] /\ sleep \in [Threads -> Nat] /\ asks \in [Threads -> {"json", "collection"}]
    BY DEF Places
  <2>4. QED
    BY <2>1, <2>2, <2>3 DEF ClientTypeOK
<1>2. ThrottleInv
  BY SettingsAre DEF ThrottleInv
<1>3. ASSUME NEW t \in Threads PROVE RequestOK(t)
  <2>1. ToSet(<<>>) = {} /\ Len(<<>>) = 0 /\ NoOne # "broken"
    BY ClientAssumption DEF ClientAssumption, ToSet
  <2>2. seen[t] = <<>> /\ lastExc[t] = NoOne /\ call[t] = "idle"
    OBVIOUS
  <2>3. ToSet(seen[t]) = {} /\ Len(seen[t]) = 0
    BY <2>1, <2>2
  <2>4. ToSet(seen[t]) \subseteq Passing /\ Len(seen[t]) <= MaxRetries
    BY <2>3, SettingsAre
  <2>5. lastExc[t] = "broken" <=> "broken" \in ToSet(seen[t])
    BY <2>1, <2>2, <2>3
  <2> HIDE DEF ClientInit
  <2>6. QED
    BY <2>2, <2>4, <2>5 DEF RequestOK, InLoop
<1>4. ASSUME NEW t \in Threads PROVE Held(t)
  <2>1. /\ call[t] = "idle" /\ page[t] = 1 /\ items[t] = <<>> /\ expected[t] = NoOne
        /\ ~still[t] /\ asks[t] = "json"
    OBVIOUS
  <2> HIDE DEF ClientInit
  <2>2. ReadOK(t)
    BY <2>1 DEF ReadOK
  <2>3. ReplyOK(t) /\ EndOK(t)
    BY <2>1 DEF ReplyOK, EndOK
  <2>4. QED
    BY <2>2, <2>3 DEF Held
<1>5. QED
  BY <1>1, <1>2, <1>3, <1>4 DEF ClientInv

\* Every step keeps what is held.
LEMMA ClientStep == ClientInv /\ [ClientNext]_clientVars => ClientInv'
BY ClientTypes, ThrottleStep, RequestStep, HeldStep DEF ClientInv

\* So it is held throughout.
LEMMA ClientHolds == ClientSpec => []ClientInv
BY ClientStarts, ClientStep, PTL DEF ClientSpec

\* Whatever threads there are and however fast they ask, ESPN is never asked
\* sooner than Interval after it was asked before.
THEOREM ClientTurnsAreSpaced == ClientSpec => []TurnsAreSpaced
<1>1. ClientInv => TurnsAreSpaced
  BY DEF ClientInv, ThrottleInv, TurnsAreSpaced
<1>2. QED
  BY <1>1, ClientHolds, PTL

\* Whatever ESPN answers and however many attempts are allowed, a request ends
\* with what it was told last, and gives up only after all of them.
THEOREM ClientRequestsEndTruly == ClientSpec => []RequestsEndTruly
<1>1. ClientInv => RequestsEndTruly
  BY DEF ClientInv, RequestOK, RequestsEndTruly, Passing
<1>2. QED
  BY <1>1, ClientHolds, PTL

\* Whatever the sizes of the pages, the collection and what the answers leave
\* out, and however it moves while it is read, nobody comes away unwarned with
\* another number of items than he was told of, nor with other items when it
\* stood still and its pages did not shrink.
THEOREM ClientShortReadsAreSaid == ClientSpec => []ShortReadsAreSaid
<1>1. ASSUME ClientTypeOK, NEW t \in Threads, Held(t), call[t] = "returned", ~warned[t]
      PROVE  IF asks[t] = "json"
               THEN IsPage(reply[t]) => items[t] = first[t] \/ reply[t].pages = NoOne
               ELSE expected[t] # NoOne => /\ Len(items[t]) = Len(first[t])
                                           /\ still[t] /\ ~shrunk[t] => items[t] = first[t]
  <2>1. CASE asks[t] = "json"
    BY <1>1, <2>1 DEF Held, EndOK
  <2>2. CASE asks[t] = "collection"
    <3>1. SUFFICES ASSUME expected[t] # NoOne
                   PROVE  Len(items[t]) = Len(first[t]) /\ (Steady(t) => items[t] = first[t])
      BY <2>2 DEF Steady
    <3>2. Len(items[t]) = expected[t] /\ expected[t] = Len(first[t])
      BY <1>1, <2>2, <3>1 DEF Held, ReadOK, EndOK
    <3>3. Steady(t) => PartOf(items[t], first[t])
      BY <1>1, <2>2 DEF Held, EndOK
    <3>4. QED
      BY <3>2, <3>3 DEF PartOf
  <2>3. QED
    BY <1>1, <2>1, <2>2 DEF ClientTypeOK
<1>2. ClientInv => ShortReadsAreSaid
  BY <1>1 DEF ClientInv, ShortReadsAreSaid
<1>3. QED
  BY <1>2, ClientHolds, PTL

-----------------------------------------------------------------------------
(***************************************************************************)
(* Storage's two writes, for any number of files, threads, processes and    *)
(* process ids.  A temporary name is one thread's alone in its process, so  *)
(* what the thread has written so far is what is in it, whatever a killed   *)
(* process of the same pid left there.                                      *)
(***************************************************************************)

\* A table as it is written, in two parts.
Whole(w) == << <<w, 1>>, <<w, 2>> >>

\* Where a thread may be, and with which of the files.
PlaceInv ==
  /\ pid \in Pids
  /\ DOMAIN files = Paths \cup Markers /\ DOMAIN scratch = TmpNames
  /\ at \in [Writers -> {Idle} \cup [step : {"open", "first", "second", "replace"}, path : Paths \cup Markers]]
  /\ \A w \in Writers : at[w].step \in {"open", "first", "second"} => at[w].path \in Paths

\* What a thread's own temporary file holds of the table it writes.
ScratchInv ==
  \A w \in Writers, p \in Paths :
    at[w].path = p =>
      /\ at[w].step = "first" => scratch[TmpName(p, w)] = <<>>
      /\ at[w].step = "second" => scratch[TmpName(p, w)] = << <<w, 1>> >>
      /\ at[w].step = "replace" => scratch[TmpName(p, w)] = Whole(w)

\* The inductive invariant of the writes.
StorageInv == PlaceInv /\ ScratchInv /\ StoredIsWhole

\* No thread's temporary name is another's, or another file's.
LEMMA NamesAreOwn ==
  ASSUME NEW p, NEW w, NEW q, NEW v, TmpName(p, w) = TmpName(q, v)
  PROVE  p = q /\ w = v
BY DEF TmpName

\* A thread's temporary name is one of those there may be.
LEMMA NameIsOne ==
  ASSUME PlaceInv, NEW p \in Paths \cup Markers, NEW w \in Writers
  PROVE  TmpName(p, w) \in DOMAIN scratch
BY DEF PlaceInv, TmpName, TmpNames

\* A file that is there holds something else than NoFile.
LEMMA PiecesAreFiles ==
  ASSUME NEW w \in Writers
  PROVE  <<>> # NoFile /\ << <<w, 1>> >> # NoFile /\ Whole(w) # NoFile
<1>1. {<<>>, << <<w, 1>> >>, Whole(w)} \subseteq Seq(Writers \X {1, 2})
  BY DEF Whole
<1>2. QED
  BY <1>1, StorageAssumption

\* The two pieces, one after the other, are the table.
LEMMA PiecesMakeATable ==
  ASSUME NEW w \in Writers
  PROVE  Append(<<>>, <<w, 1>>) = << <<w, 1>> >> /\ Append(<< <<w, 1>> >>, <<w, 2>>) = Whole(w)
<1> DEFINE Piece == Writers \X {1, 2}
<1>1. <<>> \in Seq(Piece) /\ << <<w, 1>> >> \in Seq(Piece) /\ <<w, 1>> \in Piece /\ <<w, 2>> \in Piece
  OBVIOUS
<1>2. Append(<<>>, <<w, 1>>) = << <<w, 1>> >>
  BY <1>1
<1>3. Append(<< <<w, 1>> >>, <<w, 2>>) = << <<w, 1>>, <<w, 2>> >>
  <2> DEFINE s == Append(<< <<w, 1>> >>, <<w, 2>>)
             t == << <<w, 1>>, <<w, 2>> >>
  <2>1. s \in Seq(Piece) /\ Len(s) = 2 /\ s[1] = <<w, 1>> /\ s[2] = <<w, 2>>
    BY <1>1, AppendProperties
  <2>2. t \in Seq(Piece) /\ Len(t) = 2 /\ t[1] = <<w, 1>> /\ t[2] = <<w, 2>>
    BY <1>1
  <2> HIDE DEF s, t, Piece
  <2>3. Len(s) = Len(t) /\ s[1] = t[1] /\ s[2] = t[2]
    BY <2>1, <2>2, Zenon
  <2>4. 1..Len(s) = {1, 2}
    BY <2>1
  <2>5. \A i \in 1..Len(s) : s[i] = t[i]
    BY <2>3, <2>4, Zenon
  <2>6. s = t
    BY <2>1, <2>2, <2>3, <2>5, SeqEqual, Zenon
  <2>7. QED
    BY <2>6 DEF s, t
<1>4. QED
  BY <1>2, <1>3 DEF Whole

\* Nothing is on file and every thread is idle at first.
LEMMA StorageInitInv == StorageInit => StorageInv
BY StorageAssumption DEF StorageInit, StorageInv, PlaceInv, ScratchInv, StoredIsWhole, Idle

\* A thread's step touches its own temporary file, and leaves the others'
\* where their threads need them.
LEMMA ScratchStep ==
  ASSUME StorageInv, NEW w \in Writers, NEW q \in Paths \cup Markers, pid' = pid,
         \A v \in Writers \ {w} : at'[v] = at[v],
         \A n \in TmpNames \ {TmpName(q, w)} : scratch'[n] = scratch[n],
         at'[w].path \in Paths =>
           /\ at'[w].step = "first" => at'[w].path = q /\ scratch'[TmpName(q, w)] = <<>>
           /\ at'[w].step = "second" => at'[w].path = q /\ scratch'[TmpName(q, w)] = << <<w, 1>> >>
           /\ at'[w].step = "replace" => at'[w].path = q /\ scratch'[TmpName(q, w)] = Whole(w)
  PROVE  ScratchInv'
<1> SUFFICES ASSUME NEW v \in Writers, NEW p \in Paths, at'[v].path = p
             PROVE  /\ at'[v].step = "first" => scratch'[TmpName(p, v)'] = <<>>
                    /\ at'[v].step = "second" => scratch'[TmpName(p, v)'] = << <<v, 1>> >>
                    /\ at'[v].step = "replace" => scratch'[TmpName(p, v)'] = Whole(v)
  BY DEF ScratchInv, Whole
<1>1. TmpName(p, v)' = TmpName(p, v)
  BY DEF TmpName
<1>2. CASE v # w
  <2>1. scratch'[TmpName(p, v)] = scratch[TmpName(p, v)]
    BY <1>2, NamesAreOwn, NameIsOne DEF StorageInv, PlaceInv
  <2>2. QED
    BY <1>1, <1>2, <2>1 DEF StorageInv, ScratchInv
<1>3. CASE v = w
  BY <1>1, <1>3
<1>4. QED
  BY <1>2, <1>3

\* Each step of a thread writes what the next step of that thread finds, and
\* only a whole table is put under its name.
LEMMA StorageStep == StorageInv /\ [StorageNext]_storageVars => StorageInv'
<1> SUFFICES ASSUME StorageInv, [StorageNext]_storageVars PROVE StorageInv'
  OBVIOUS
<1>t. PlaceInv /\ ScratchInv /\ StoredIsWhole
  BY DEF StorageInv
<1>1. ASSUME NEW w \in Writers, NEW p \in Paths \cup Markers, SeeMissing(w, p) PROVE StorageInv'
  <2>1. PlaceInv'
    BY <1>t, <1>1 DEF PlaceInv, SeeMissing, Idle
  <2>2. /\ \A v \in Writers \ {w} : at'[v] = at[v]
        /\ at'[w].step = "open"
    BY <1>t, <1>1 DEF PlaceInv, SeeMissing
  <2>3. ScratchInv'
    BY <1>t, <1>1, <2>2 DEF ScratchInv, SeeMissing, TmpName, Whole
  <2>4. QED
    BY <1>t, <1>1, <2>1, <2>3 DEF StorageInv, SeeMissing, StoredIsWhole
<1>2. ASSUME NEW w \in Writers, NEW p \in Paths, OpenTable(w, p) PROVE StorageInv'
  <2>1. PlaceInv'
    BY <1>t, <1>2 DEF PlaceInv, OpenTable, WriterMoves, Idle
  <2>2. /\ \A v \in Writers \ {w} : at'[v] = at[v]
        /\ at'[w] = [step |-> "first", path |-> p]
        /\ pid' = pid
    BY <1>t, <1>2 DEF PlaceInv, OpenTable, WriterMoves
  <2>3. /\ \A n \in TmpNames \ {TmpName(p, w)} : scratch'[n] = scratch[n]
        /\ scratch'[TmpName(p, w)] = <<>>
    BY <1>t, <1>2, NameIsOne DEF PlaceInv, OpenTable
  <2>5. ScratchInv'
    BY <2>2, <2>3, ScratchStep
  <2>4. QED
    BY <1>t, <1>2, <2>1, <2>5 DEF StorageInv, OpenTable, StoredIsWhole
<1>3. ASSUME NEW w \in Writers, NEW p \in Paths, NEW i \in {1, 2}, WritePiece(w, p, i) PROVE StorageInv'
  <2>1. PlaceInv'
    BY <1>t, <1>3 DEF PlaceInv, WritePiece, WriterMoves, Idle
  <2>2. /\ \A v \in Writers \ {w} : at'[v] = at[v]
        /\ at[w].step = (IF i = 1 THEN "first" ELSE "second") /\ at[w].path = p
        /\ at'[w] = [step |-> IF i = 1 THEN "second" ELSE "replace", path |-> p]
        /\ pid' = pid
    BY <1>t, <1>3 DEF PlaceInv, WritePiece, WriterMoves
  <2>3. scratch[TmpName(p, w)] = IF i = 1 THEN <<>> ELSE << <<w, 1>> >>
    BY <1>t, <2>2 DEF ScratchInv
  <2>4. /\ \A n \in TmpNames \ {TmpName(p, w)} : scratch'[n] = scratch[n]
        /\ scratch'[TmpName(p, w)] = Append(scratch[TmpName(p, w)], <<w, i>>)
    BY <1>t, <1>3, <2>3, NameIsOne, PiecesAreFiles DEF PlaceInv, WritePiece
  <2>5. scratch'[TmpName(p, w)] = IF i = 1 THEN << <<w, 1>> >> ELSE Whole(w)
    BY <2>3, <2>4, PiecesMakeATable
  <2>6. ScratchInv'
    BY <2>2, <2>4, <2>5, ScratchStep
  <2>7. QED
    BY <1>t, <1>3, <2>1, <2>6 DEF StorageInv, WritePiece, StoredIsWhole
<1>4. ASSUME NEW w \in Writers, NEW p \in Paths \cup Markers, Replace(w, p) PROVE StorageInv'
  <2>1. PlaceInv'
    BY <1>t, <1>4 DEF PlaceInv, Replace, WriterMoves, Idle
  <2>2. /\ \A v \in Writers \ {w} : at'[v] = at[v]
        /\ at[w] = [step |-> "replace", path |-> p] /\ at'[w] = Idle
        /\ pid' = pid
    BY <1>t, <1>4 DEF PlaceInv, Replace, WriterMoves
  <2>8. \A n \in TmpNames \ {TmpName(p, w)} : scratch'[n] = scratch[n]
    BY <1>t, <1>4 DEF PlaceInv, Replace
  <2>3. ScratchInv'
    BY <2>2, <2>8, ScratchStep DEF Idle
  <2>4. \A q \in Paths : q # p => files'[q] = files[q]
    BY <1>t, <1>4 DEF PlaceInv, Replace
  <2>5. p \in Paths => files'[p] = Whole(w)
    BY <1>t, <1>4, <2>2 DEF PlaceInv, ScratchInv, Replace
  <2>6. StoredIsWhole'
    BY <1>t, <2>4, <2>5 DEF StoredIsWhole, Whole
  <2>7. QED
    BY <2>1, <2>3, <2>6 DEF StorageInv
<1>5. ASSUME NEW w \in Writers, NEW p \in Paths \cup Markers, FailWrite(w, p) \/ FailMarker(w, p)
      PROVE  StorageInv'
  <2>1. /\ UNCHANGED files /\ pid' = pid /\ at' = [at EXCEPT ![w] = Idle]
        /\ scratch' = [scratch EXCEPT ![TmpName(p, w)] = NoFile] \/ scratch' = scratch
    BY <1>5 DEF FailWrite, FailMarker, WriterMoves
  <2>2. PlaceInv'
    BY <1>t, <2>1 DEF PlaceInv, Idle
  <2>3. /\ \A v \in Writers \ {w} : at'[v] = at[v]
        /\ at'[w].step = "idle"
    BY <1>t, <2>1 DEF PlaceInv, Idle
  <2>4. ScratchInv'
    <3>1. \A n \in TmpNames \ {TmpName(p, w)} : scratch'[n] = scratch[n]
      BY <1>t, <2>1 DEF PlaceInv
    <3>2. QED
      BY <2>1, <2>3, <3>1, ScratchStep
  <2>5. QED
    BY <1>t, <2>1, <2>2, <2>4 DEF StorageInv, StoredIsWhole
<1>6. ASSUME NEW w \in Writers, NEW p \in Paths \cup Markers, TouchMarker(w, p) PROVE StorageInv'
  <2>1. /\ p \in Markers /\ p \notin Paths /\ UNCHANGED files /\ pid' = pid
        /\ at' = [at EXCEPT ![w] = [step |-> "replace", path |-> p]]
        /\ scratch' = [scratch EXCEPT ![TmpName(p, w)] = <<>>]
    BY <1>6, StorageAssumption DEF TouchMarker
  <2>2. PlaceInv'
    BY <1>t, <2>1 DEF PlaceInv, Idle
  <2>3. /\ \A v \in Writers \ {w} : at'[v] = at[v]
        /\ at'[w] = [step |-> "replace", path |-> p]
    BY <1>t, <2>1 DEF PlaceInv
  <2>4. \A n \in TmpNames \ {TmpName(p, w)} : scratch'[n] = scratch[n]
    BY <1>t, <2>1 DEF PlaceInv
  <2>5. ScratchInv'
    BY <2>1, <2>3, <2>4, ScratchStep
  <2>6. QED
    BY <1>t, <2>1, <2>2, <2>5 DEF StorageInv, StoredIsWhole
<1>7. CASE KillPull
  BY <1>t, <1>7 DEF KillPull, StorageInv, PlaceInv, ScratchInv, StoredIsWhole, Idle
<1>8. CASE UNCHANGED storageVars
  BY <1>t, <1>8 DEF storageVars, StorageInv, PlaceInv, ScratchInv, StoredIsWhole, TmpName, TmpNames, Whole
<1>9. QED
  <2>1. CASE \E w \in Writers, p \in Paths \cup Markers :
               \/ SeeMissing(w, p) \/ OpenTable(w, p) \/ (\E i \in {1, 2} : p \in Paths /\ WritePiece(w, p, i))
               \/ Replace(w, p) \/ FailWrite(w, p) \/ TouchMarker(w, p) \/ FailMarker(w, p)
    BY <1>1, <1>2, <1>3, <1>4, <1>5, <1>6, <2>1 DEF OpenTable
  <2>2. CASE StorageOver
    BY <1>8, <2>2 DEF StorageOver
  <2>3. QED
    BY <1>7, <1>8, <2>1, <2>2 DEF StorageNext

\* A Parquet file under its own name is one thread's whole table (write_rows):
\* two threads that cache one player at once, errors, kills and a pid dealt out
\* again leave no half of one and no mixture.
THEOREM StorageWhole == StorageSpec => []StoredIsWhole
<1>1. StorageSpec => []StorageInv
  BY StorageInitInv, StorageStep, PTL DEF StorageSpec
<1>2. StorageInv => StoredIsWhole
  BY DEF StorageInv
<1>3. QED
  BY <1>1, <1>2, PTL

\* One file changes at a time, and what is new there is whole: to a reader, and
\* to the pull, a write is one step.
WritesAreAtomic ==
  \E p \in Paths \cup Markers :
    /\ \A q \in Paths \cup Markers : q # p => files'[q] = files[q]
    /\ p \in Paths /\ files'[p] # files[p] => \E w \in Writers : files'[p] = Whole(w)

\* What write_rows and mark_complete look like from outside (storage's module
\* docstring: an interrupted write leaves a complete file or none).
THEOREM StorageWritesAreAtomic ==
  StorageSpec => [][UNCHANGED files \/ WritesAreAtomic]_storageVars
<1>1. StorageInv /\ [StorageNext]_storageVars => [UNCHANGED files \/ WritesAreAtomic]_storageVars
  <2> SUFFICES ASSUME StorageInv, StorageNext, files' # files PROVE WritesAreAtomic
    BY DEF storageVars
  <2>1. PICK w \in Writers, p \in Paths \cup Markers : Replace(w, p)
    BY DEF StorageNext, SeeMissing, OpenTable, WritePiece, FailWrite, TouchMarker, FailMarker, KillPull,
           StorageOver, storageVars
  <2>2. /\ \A q \in Paths \cup Markers : q # p => files'[q] = files[q]
        /\ files'[p] = scratch[TmpName(p, w)]
        /\ at[w].step = "replace" /\ at[w].path = p
    BY <2>1 DEF StorageInv, PlaceInv, Replace, WriterMoves
  <2>3. p \in Paths => files'[p] = Whole(w)
    BY <2>2 DEF StorageInv, ScratchInv
  <2>4. QED
    BY <2>2, <2>3 DEF WritesAreAtomic
<1>2. StorageSpec => []StorageInv
  BY StorageInitInv, StorageStep, PTL DEF StorageSpec
<1>3. QED
  BY <1>1, <1>2, PTL DEF StorageSpec

-----------------------------------------------------------------------------
(***************************************************************************)
(* warehouse.build, for any number of builds, queries, tables and files.    *)
(* That no query ever meets a writer holds of any builds; what the queries  *)
(* then read is promised of builds of which one at a time is a full one: two*)
(* of them share the name .building.                                        *)
(***************************************************************************)

\* What the constants are; and that one process makes full builds.
WarehouseSetting == NoDb \notin File /\ MaxVersion \in Nat
OneFullBuilder == \A b, c \in Builder : "full" \in Kinds[b] /\ "full" \in Kinds[c] => b = c

\* DuckDB's lock: a file is open to one writer, or to readers.
LockInv ==
  /\ \A b, c \in Builder : open[b] # NoDb /\ open[b] = open[c] => b = c
  /\ \A b \in Builder, r \in Reader : open[b] # NoDb => open[b] # reading[r]

\* What one full builder's step says of the file beside the warehouse.
BuildingInv ==
  /\ db = NoDb \/ db # building
  /\ \A b \in Builder : pc[b] # "idle" => kind[b] \in Kinds[b]
  /\ \A b \in Builder : pc[b] \in {"unlink", "replace"} => kind[b] = "full"
  /\ \A b \in Builder : kind[b] = "full" =>
       /\ pc[b] = "connect" => building = NoDb
       /\ pc[b] \in {"load", "close"} => open[b] = building
       /\ pc[b] = "replace" => building # NoDb /\ raw[building] = {}
  /\ \A b \in Builder : kind[b] = "partial" /\ open[b] # NoDb => open[b] # building
  /\ \A b \in Builder : pc[b] = "close" => raw[open[b]] = {}

\* A warehouse nobody is loading into is repaired, or a load into it was killed.
RepairedInv ==
  /\ db # NoDb /\ WritersOf(db) = {} => raw[db] = {} \/ db \in cut
  /\ ReadersSeeRepaired

\* At first there is no file.
LEMMA WarehouseStarts == ASSUME WarehouseSetting, WarehouseInit PROVE WarehouseTypeOK /\ LockInv /\ BuildingInv /\ RepairedInv
<1>1. WarehouseTypeOK
  BY DEF WarehouseSetting, WarehouseInit, WarehouseTypeOK, NoTables
<1>2. LockInv /\ BuildingInv
  BY DEF WarehouseInit, LockInv, BuildingInv
<1>3. RepairedInv
  BY DEF WarehouseInit, RepairedInv, ReadersSeeRepaired
<1>4. QED
  BY <1>1, <1>2, <1>3

\* A connect opens a file that is there, or a new one.
LEMMA TypeStep == ASSUME WarehouseSetting, WarehouseTypeOK, [WarehouseNext]_warehouseVars PROVE WarehouseTypeOK'
<1> USE DEF WarehouseSetting, WarehouseTypeOK, dbFiles
<1>1. ASSUME NEW t \in Table, TreeGrows(t) PROVE WarehouseTypeOK'
  BY <1>1 DEF TreeGrows
<1>2. ASSUME NEW b \in Builder, NEW k \in {"full", "partial"}, NEW tables \in SUBSET Table, BeginBuild(b, k, tables)
      PROVE  WarehouseTypeOK'
  <2>1. /\ kind' \in [Builder -> {"full", "partial"}] /\ todo' \in [Builder -> SUBSET Table]
        /\ UNCHANGED << tree, db, building, held, raw, open, reading, cut >>
    BY <1>2 DEF BeginBuild
  <2>2. /\ pc' \in [Builder -> {"idle", "unlink", "connect", "load", "close", "replace"}]
        /\ pc'[b] \notin {"load", "close"} /\ pc[b] \notin {"load", "close"}
        /\ \A c \in Builder \ {b} : pc'[c] = pc[c]
    BY <1>2 DEF BeginBuild, BuildGoes
  <2>3. QED
    BY <2>1, <2>2
<1>3. ASSUME NEW b \in Builder, Unlink(b) PROVE WarehouseTypeOK'
  BY <1>3 DEF Unlink, BuildGoes
<1>4. ASSUME NEW b \in Builder, NEW f \in File, Connect(b, f) PROVE WarehouseTypeOK'
  <2>1. /\ held' = held \/ held' = [held EXCEPT ![f] = NoTables]
        /\ raw' = raw \/ raw' = [raw EXCEPT ![f] = {}]
        /\ cut' = cut \/ cut' = cut \ {f}
    BY <1>4 DEF Connect, Opens
  <2>5. NoTables \in [Table -> 0..MaxVersion]
    BY DEF NoTables
  <2>2. /\ db' \in File \cup {NoDb} /\ building' \in File \cup {NoDb}
        /\ open' = [open EXCEPT ![b] = f] /\ pc' = [pc EXCEPT ![b] = "load"]
        /\ UNCHANGED << tree, kind, todo, reading >>
    BY <1>4 DEF Connect, Opens, BuildGoes
  <2>3. \A c \in Builder : open'[c] # NoDb <=> pc'[c] \in {"load", "close"}
    BY <2>2
  <2>4. held' \in [File -> [Table -> 0..MaxVersion]]
    <3>1. CASE held' = held
      BY <3>1
    <3>2. CASE held' = [held EXCEPT ![f] = NoTables]
      BY <3>2, <2>5
    <3>3. QED
      BY <3>1, <3>2, <2>1
  <2>6. raw' \in [File -> SUBSET Table] /\ cut' \subseteq File
    BY <2>1
  <2>7. open' \in [Builder -> File \cup {NoDb}] /\ pc' \in [Builder -> {"idle", "unlink", "connect", "load", "close", "replace"}]
    BY <2>2
  <2>8. QED
    BY <2>2, <2>3, <2>4, <2>6, <2>7
<1>5. ASSUME NEW b \in Builder, ConnectFails(b) PROVE WarehouseTypeOK'
  <2>1. /\ pc[b] = "connect" /\ pc' = [pc EXCEPT ![b] = "idle"]
        /\ UNCHANGED << tree, db, building, held, raw, kind, open, todo, reading, cut >>
    BY <1>5 DEF ConnectFails, BuildGoes
  <2>2. QED
    BY <2>1
<1>6. ASSUME NEW b \in Builder, NEW t \in Table, LoadTable(b, t) PROVE WarehouseTypeOK'
  <2>1. open[b] \in File
    BY <1>6 DEF LoadTable
  <2>2. held' \in [File -> [Table -> 0..MaxVersion]]
    BY <1>6, <2>1 DEF LoadTable
  <2>3. raw' \in [File -> SUBSET Table] /\ todo' \in [Builder -> SUBSET Table]
    BY <1>6, <2>1 DEF LoadTable
  <2>4. QED
    BY <1>6, <2>2, <2>3 DEF LoadTable
<1>7. ASSUME NEW b \in Builder, RunRepairs(b) PROVE WarehouseTypeOK'
  <2>1. open[b] \in File /\ pc[b] = "load"
    BY <1>7 DEF RunRepairs
  <2>2. pc' = [pc EXCEPT ![b] = "close"] /\ UNCHANGED << tree, db, building, held, kind, open, todo, reading, cut >>
    BY <1>7 DEF RunRepairs, BuildGoes
  <2>3. raw' \in [File -> SUBSET Table]
    BY <1>7, <2>1 DEF RunRepairs
  <2>4. \A c \in Builder : open'[c] # NoDb <=> pc'[c] \in {"load", "close"}
    BY <2>1, <2>2
  <2>5. QED
    BY <2>2, <2>3, <2>4
<1>8. ASSUME NEW b \in Builder, Close(b) PROVE WarehouseTypeOK'
  BY <1>8 DEF Close, BuildGoes
<1>9. ASSUME NEW b \in Builder, RenameOver(b) PROVE WarehouseTypeOK'
  BY <1>9 DEF RenameOver, BuildGoes
<1>10. ASSUME NEW b \in Builder, KillBuild(b) PROVE WarehouseTypeOK'
  BY <1>10 DEF KillBuild, BuildGoes
<1>11. ASSUME NEW r \in Reader, OpenRead(r) \/ CloseRead(r) PROVE WarehouseTypeOK'
  BY <1>11 DEF OpenRead, CloseRead
<1>12. CASE UNCHANGED warehouseVars
  BY <1>12 DEF warehouseVars
<1>13. QED
  BY <1>1, <1>2, <1>3, <1>4, <1>5, <1>6, <1>7, <1>8, <1>9, <1>10, <1>11, <1>12 DEF WarehouseNext

\* Only a connect takes a lock, and it takes a free one.
LEMMA LockStep == ASSUME WarehouseSetting, WarehouseTypeOK, LockInv, [WarehouseNext]_warehouseVars PROVE LockInv'
<1>1. CASE UNCHANGED << open, reading >>
  BY <1>1 DEF LockInv
<1>2. ASSUME NEW b \in Builder, NEW f \in File, Connect(b, f) PROVE LockInv'
  BY <1>2 DEF WarehouseSetting, WarehouseTypeOK, LockInv, Connect, Opens, Fresh, WritersOf, Readers
<1>3. ASSUME NEW b \in Builder, Close(b) \/ KillBuild(b) PROVE LockInv'
  <2>1. open' = [open EXCEPT ![b] = NoDb] /\ reading' = reading /\ open \in [Builder -> File \cup {NoDb}]
    BY <1>3 DEF Close, KillBuild, WarehouseTypeOK
  <2>2. QED
    BY <2>1 DEF LockInv
<1>4. ASSUME NEW r \in Reader, OpenRead(r) \/ CloseRead(r) PROVE LockInv'
  BY <1>4 DEF WarehouseSetting, WarehouseTypeOK, LockInv, OpenRead, CloseRead, WritersOf
<1>5. ASSUME NEW t \in Table, TreeGrows(t) PROVE LockInv'
  BY <1>1, <1>5 DEF TreeGrows
<1>6. ASSUME NEW b \in Builder, NEW k \in {"full", "partial"}, NEW tables \in SUBSET Table, BeginBuild(b, k, tables)
      PROVE  LockInv'
  BY <1>1, <1>6 DEF BeginBuild
<1>7. ASSUME NEW b \in Builder, Unlink(b) \/ ConnectFails(b) \/ RunRepairs(b) \/ RenameOver(b) PROVE LockInv'
  BY <1>1, <1>7 DEF Unlink, ConnectFails, RunRepairs, RenameOver
<1>8. ASSUME NEW b \in Builder, NEW t \in Table, LoadTable(b, t) PROVE LockInv'
  BY <1>1, <1>8 DEF LoadTable
<1>9. CASE UNCHANGED warehouseVars
  BY <1>1, <1>9 DEF warehouseVars
<1>10. QED
  BY <1>1, <1>2, <1>3, <1>4, <1>5, <1>6, <1>7, <1>8, <1>9 DEF WarehouseNext

-----------------------------------------------------------------------------
\* The builds' part of a step keeps what is said of the file beside the warehouse.
LEMMA BuildingStep == ASSUME WarehouseSetting, OneFullBuilder, WarehouseTypeOK, LockInv, BuildingInv, [WarehouseNext]_warehouseVars PROVE BuildingInv'
<1> USE DEF WarehouseSetting, WarehouseTypeOK, dbFiles
<1>1. CASE UNCHANGED << db, building, raw, pc, kind, open >>
  BY <1>1 DEF BuildingInv
<1>2. ASSUME NEW b \in Builder, NEW k \in {"full", "partial"}, NEW tables \in SUBSET Table, BeginBuild(b, k, tables)
      PROVE  BuildingInv'
  BY <1>2 DEF BeginBuild, BuildGoes, BuildingInv
<1>3. ASSUME NEW b \in Builder, Unlink(b) PROVE BuildingInv'
  <2>1. /\ pc[b] = "unlink" /\ building' = NoDb /\ pc'[b] \in {"idle", "connect"}
        /\ \A c \in Builder \ {b} : pc'[c] = pc[c]
        /\ UNCHANGED << db, raw, kind, open >>
    BY <1>3 DEF Unlink, BuildGoes
  <2>2. \A c \in Builder : kind[c] = "full" /\ pc[c] # "idle" => c = b
    BY <2>1 DEF BuildingInv, OneFullBuilder
  <2>3. QED
    BY <2>1, <2>2 DEF BuildingInv
<1>4. ASSUME NEW b \in Builder, NEW f \in File, Connect(b, f) PROVE BuildingInv'
  <2>1. /\ pc[b] = "connect" /\ kind[b] \in {"full", "partial"}
        /\ open' = [open EXCEPT ![b] = f] /\ pc' = [pc EXCEPT ![b] = "load"] /\ kind' = kind
        /\ \A c \in Builder : open[c] # f
    BY <1>4 DEF Connect, Opens, BuildGoes, Fresh, WritersOf
  <2>2. CASE kind[b] = "full"
    <3>1. /\ f # db /\ building = NoDb
          /\ db' = db /\ building' = f /\ raw' = [raw EXCEPT ![f] = {}]
      BY <1>4, <2>1, <2>2 DEF Connect, Opens, Fresh, NamedFiles, BuildingInv
    <3>2. \A c \in Builder : kind[c] = "full" /\ pc[c] # "idle" => c = b
      BY <2>1, <2>2 DEF BuildingInv, OneFullBuilder
    <3>3. QED
      BY <2>1, <2>2, <3>1, <3>2 DEF BuildingInv
  <2>3. CASE kind[b] = "partial"
    <3>1. /\ f # building /\ db' = f /\ building' = building
          /\ raw' = IF db = NoDb THEN [raw EXCEPT ![f] = {}] ELSE raw
      BY <1>4, <2>1, <2>3 DEF Connect, Opens, Fresh, NamedFiles, BuildingInv
    <3>2. /\ pc'[b] = "load" /\ open'[b] = f
          /\ \A c \in Builder \ {b} : pc'[c] = pc[c] /\ open'[c] = open[c]
          /\ \A g \in File \ {f} : raw'[g] = raw[g]
      BY <2>1, <3>1
    <3>3. \A c \in Builder \ {b} : pc[c] = "close" => open[c] \in File \ {f}
      BY <2>1
    <3>4. building = NoDb \/ building \in File \ {f}
      BY <3>1
    <3>5. \A c \in Builder : kind[c] = "full" => c # b
      BY <2>3
    <3>6. db' = NoDb \/ db' # building'
      BY <3>1
    <3>7. /\ \A c \in Builder : pc'[c] # "idle" => kind'[c] \in Kinds[c]
          /\ \A c \in Builder : pc'[c] \in {"unlink", "replace"} => kind'[c] = "full"
      BY <2>1, <3>2 DEF BuildingInv
    <3>8. ASSUME NEW c \in Builder, kind'[c] = "full"
          PROVE  /\ pc'[c] = "connect" => building' = NoDb
                 /\ pc'[c] \in {"load", "close"} => open'[c] = building'
                 /\ pc'[c] = "replace" => building' # NoDb /\ raw'[building'] = {}
      <4>1. kind[c] = "full" /\ c # b
        BY <2>1, <3>5, <3>8
      <4>2. pc'[c] = pc[c] /\ open'[c] = open[c] /\ building' = building
        BY <3>1, <3>2, <4>1
      <4>3. QED
        BY <3>2, <3>4, <4>1, <4>2 DEF BuildingInv
    <3>9. \A c \in Builder : kind'[c] = "partial" /\ open'[c] # NoDb => open'[c] # building'
      BY <2>1, <3>1, <3>2 DEF BuildingInv
    <3>10. \A c \in Builder : pc'[c] = "close" => raw'[open'[c]] = {}
      BY <3>2, <3>3 DEF BuildingInv
    <3>11. QED
      BY <3>6, <3>7, <3>8, <3>9, <3>10 DEF BuildingInv
  <2>4. QED
    BY <2>1, <2>2, <2>3
<1>5. ASSUME NEW b \in Builder, ConnectFails(b) PROVE BuildingInv'
  BY <1>5 DEF ConnectFails, BuildGoes, BuildingInv
<1>6. ASSUME NEW b \in Builder, NEW t \in Table, LoadTable(b, t) PROVE BuildingInv'
  <2>1. /\ pc[b] = "load" /\ open[b] \in File /\ UNCHANGED << db, building, pc, kind, open >>
        /\ \A g \in File \ {open[b]} : raw'[g] = raw[g]
    BY <1>6 DEF LoadTable
  <2>2. ASSUME NEW c \in Builder, pc[c] = "close" PROVE open[c] \in File \ {open[b]}
    BY <2>1, <2>2 DEF LockInv
  <2>3. ASSUME NEW c \in Builder, kind[c] = "full", pc[c] = "replace" PROVE building \in File \ {open[b]}
    <3>1. kind[b] = "partial"
      BY <2>1, <2>3 DEF BuildingInv, OneFullBuilder
    <3>2. QED
      BY <2>1, <2>3, <3>1 DEF BuildingInv
  <2>4. \A c \in Builder : pc'[c] = "close" => raw'[open'[c]] = {}
    BY <2>1, <2>2 DEF BuildingInv
  <2>5. \A c \in Builder : kind'[c] = "full" /\ pc'[c] = "replace" => building' # NoDb /\ raw'[building'] = {}
    BY <2>1, <2>3 DEF BuildingInv
  <2>6. QED
    BY <2>1, <2>4, <2>5 DEF BuildingInv
<1>7. ASSUME NEW b \in Builder, RunRepairs(b) PROVE BuildingInv'
  BY <1>7 DEF RunRepairs, BuildGoes, BuildingInv, LockInv
<1>8. ASSUME NEW b \in Builder, Close(b) PROVE BuildingInv'
  BY <1>8 DEF Close, BuildGoes, BuildingInv, LockInv
<1>9. ASSUME NEW b \in Builder, RenameOver(b) PROVE BuildingInv'
  <2>1. /\ pc[b] = "replace" /\ building' = NoDb /\ UNCHANGED << raw, kind, open >>
        /\ \A c \in Builder : pc'[c] = (IF c = b THEN "idle" ELSE pc[c])
    BY <1>9 DEF RenameOver, BuildGoes, WarehouseTypeOK
  <2>2. \A c \in Builder : pc'[c] # "idle" => c # b /\ pc'[c] = pc[c]
    BY <2>1
  <2>3. kind[b] = "full" /\ "full" \in Kinds[b]
    BY <2>1 DEF BuildingInv
  <2>4. ASSUME NEW c \in Builder, kind'[c] = "full" PROVE pc'[c] = "idle"
    <3>1. SUFFICES ASSUME pc'[c] # "idle" PROVE FALSE
      OBVIOUS
    <3>2. c # b /\ "full" \in Kinds[c]
      BY <2>1, <2>2, <2>4, <3>1 DEF BuildingInv
    <3>3. QED
      BY <2>3, <3>2 DEF OneFullBuilder
  <2>5. /\ \A c \in Builder : pc'[c] # "idle" => kind'[c] \in Kinds[c]
        /\ \A c \in Builder : pc'[c] \in {"unlink", "replace"} => kind'[c] = "full"
        /\ \A c \in Builder : pc'[c] = "close" => raw'[open'[c]] = {}
    BY <2>1, <2>2 DEF BuildingInv
  <2>6. QED
    BY <2>1, <2>4, <2>5 DEF BuildingInv
<1>10. ASSUME NEW b \in Builder, KillBuild(b) PROVE BuildingInv'
  BY <1>10 DEF KillBuild, BuildGoes, BuildingInv
<1>11. ASSUME NEW r \in Reader, OpenRead(r) \/ CloseRead(r) PROVE BuildingInv'
  BY <1>1, <1>11 DEF OpenRead, CloseRead
<1>12. ASSUME NEW t \in Table, TreeGrows(t) PROVE BuildingInv'
  BY <1>1, <1>12 DEF TreeGrows
<1>13. CASE UNCHANGED warehouseVars
  BY <1>1, <1>13 DEF warehouseVars
<1>14. QED
  BY <1>2, <1>3, <1>4, <1>5, <1>6, <1>7, <1>8, <1>9, <1>10, <1>11, <1>12, <1>13 DEF WarehouseNext

\* A build leaves the name to a file it has repaired, or to one its own death marks.
LEMMA RepairedStep ==
  ASSUME WarehouseSetting, OneFullBuilder, WarehouseTypeOK, LockInv, BuildingInv, RepairedInv, [WarehouseNext]_warehouseVars
  PROVE  RepairedInv'
<1> USE DEF WarehouseSetting, WarehouseTypeOK, dbFiles, RepairedInv, ReadersSeeRepaired, WritersOf
<1>1. CASE UNCHANGED << db, raw, open, reading, cut >>
  BY <1>1
<1>2. ASSUME NEW b \in Builder, NEW f \in File, Connect(b, f) PROVE RepairedInv'
  BY <1>2 DEF Connect, Opens, Fresh, NamedFiles, Readers, BuildingInv
<1>3. ASSUME NEW b \in Builder, NEW t \in Table, LoadTable(b, t) PROVE RepairedInv'
  BY <1>3 DEF LoadTable, LockInv
<1>4. ASSUME NEW b \in Builder, RunRepairs(b) PROVE RepairedInv'
  BY <1>4 DEF RunRepairs
<1>5. ASSUME NEW b \in Builder, Close(b) PROVE RepairedInv'
  BY <1>5 DEF Close, BuildingInv
<1>6. ASSUME NEW b \in Builder, RenameOver(b) PROVE RepairedInv'
  BY <1>6 DEF RenameOver, BuildingInv
<1>7. ASSUME NEW b \in Builder, KillBuild(b) PROVE RepairedInv'
  BY <1>7 DEF KillBuild, BuildingInv
<1>8. ASSUME NEW r \in Reader, OpenRead(r) \/ CloseRead(r) PROVE RepairedInv'
  BY <1>8, ZenonT(60) DEF OpenRead, CloseRead
<1>9. ASSUME NEW t \in Table, TreeGrows(t) PROVE RepairedInv'
  BY <1>1, <1>9 DEF TreeGrows
<1>10. ASSUME NEW b \in Builder, NEW k \in {"full", "partial"}, NEW tables \in SUBSET Table, BeginBuild(b, k, tables)
       PROVE  RepairedInv'
  BY <1>1, <1>10 DEF BeginBuild
<1>11. ASSUME NEW b \in Builder, Unlink(b) \/ ConnectFails(b) PROVE RepairedInv'
  BY <1>1, <1>11 DEF Unlink, ConnectFails
<1>12. CASE UNCHANGED warehouseVars
  BY <1>1, <1>12 DEF warehouseVars
<1>13. QED
  BY <1>2, <1>3, <1>4, <1>5, <1>6, <1>7, <1>8, <1>9, <1>10, <1>11, <1>12, ZenonT(60) DEF WarehouseNext

-----------------------------------------------------------------------------
\* Whatever builds run, full or in place, a file is open to one writer or to
\* readers: duckdb.connect, warehouse.build and connect_read_only together.
THEOREM LockHolds == ASSUME WarehouseSetting PROVE WarehouseSpec => [](WarehouseTypeOK /\ LockInv)
<1>1. WarehouseInit => WarehouseTypeOK /\ LockInv
  BY WarehouseStarts
<1>2. WarehouseTypeOK /\ LockInv /\ [WarehouseNext]_warehouseVars => (WarehouseTypeOK /\ LockInv)'
  BY TypeStep, LockStep
<1>3. QED
  BY <1>1, <1>2, PTL DEF WarehouseSpec

\* A query's tables are those it connected to: no load in place and no rename
\* by any number of builds changes them under it.
THEOREM QueriesReadOneWarehouse == ASSUME WarehouseSetting PROVE WarehouseSpec => SnapshotStays
<1>1. ASSUME WarehouseTypeOK /\ LockInv, [WarehouseNext]_warehouseVars
      PROVE  [\A r \in Reader : reading[r] # NoDb /\ reading'[r] = reading[r] =>
                held'[reading[r]] = held[reading[r]] /\ raw'[reading[r]] = raw[reading[r]]]_warehouseVars
  <2> USE <1>1 DEF WarehouseSetting, WarehouseTypeOK, dbFiles
  <2> SUFFICES ASSUME NEW r \in Reader, reading[r] # NoDb, reading'[r] = reading[r]
               PROVE  held'[reading[r]] = held[reading[r]] /\ raw'[reading[r]] = raw[reading[r]]
    OBVIOUS
  <2>1. CASE UNCHANGED << held, raw >>
    BY <2>1
  <2>2. ASSUME NEW b \in Builder, NEW f \in File, Connect(b, f)
        PROVE  held'[reading[r]] = held[reading[r]] /\ raw'[reading[r]] = raw[reading[r]]
    BY <2>2 DEF Connect, Opens, Fresh, Readers
  <2>3. ASSUME NEW b \in Builder, NEW t \in Table, LoadTable(b, t)
        PROVE  held'[reading[r]] = held[reading[r]] /\ raw'[reading[r]] = raw[reading[r]]
    BY <2>3 DEF LoadTable, LockInv
  <2>4. ASSUME NEW b \in Builder, RunRepairs(b)
        PROVE  held'[reading[r]] = held[reading[r]] /\ raw'[reading[r]] = raw[reading[r]]
    BY <2>4 DEF RunRepairs, LockInv
  <2>5. ASSUME NEW t \in Table, TreeGrows(t) PROVE UNCHANGED << held, raw >>
    BY <2>5 DEF TreeGrows
  <2>6. ASSUME NEW b \in Builder, NEW k \in {"full", "partial"}, NEW tables \in SUBSET Table, BeginBuild(b, k, tables)
        PROVE  UNCHANGED << held, raw >>
    BY <2>6 DEF BeginBuild
  <2>7. ASSUME NEW b \in Builder, Unlink(b) \/ ConnectFails(b) \/ Close(b) \/ RenameOver(b) \/ KillBuild(b)
        PROVE  UNCHANGED << held, raw >>
    BY <2>7 DEF Unlink, ConnectFails, Close, RenameOver, KillBuild
  <2>8. ASSUME NEW q \in Reader, OpenRead(q) \/ CloseRead(q) PROVE UNCHANGED << held, raw >>
    BY <2>8 DEF OpenRead, CloseRead
  <2>9. CASE UNCHANGED warehouseVars
    BY <2>9 DEF warehouseVars
  <2>10. QED
    BY <2>1, <2>2, <2>3, <2>4, <2>5, <2>6, <2>7, <2>8, <2>9 DEF WarehouseNext
<1>2. QED
  BY <1>1, LockHolds, PTL DEF WarehouseSpec, SnapshotStays

\* Of builds of which one at a time is full, the readers see what is repaired and
\* finished.
LEMMA WarehouseHolds ==
  ASSUME WarehouseSetting, OneFullBuilder
  PROVE  WarehouseSpec => [](ReadersSeeRepaired /\ WarehouseIsFinished)
<1> DEFINE IInv == WarehouseTypeOK /\ LockInv /\ BuildingInv /\ RepairedInv
<1>1. WarehouseInit => IInv
  BY WarehouseStarts
<1>2. IInv /\ [WarehouseNext]_warehouseVars => IInv'
  BY TypeStep, LockStep, BuildingStep, RepairedStep
<1>3. IInv => ReadersSeeRepaired /\ WarehouseIsFinished
  BY DEF WarehouseSetting, WarehouseTypeOK, BuildingInv, RepairedInv, WarehouseIsFinished, WritersOf
<1>4. QED
  <2> HIDE DEF IInv
  <2>1. QED
    BY <1>1, <1>2, <1>3, PTL DEF WarehouseSpec

\* With one process that makes full builds, and any number that load in place,
\* what a query reads has been repaired unless a load into that very file was
\* killed: warehouse.build runs the repairs before the rename, or under the lock.
THEOREM WarehouseReadersSeeRepaired ==
  ASSUME WarehouseSetting, OneFullBuilder
  PROVE  WarehouseSpec => []ReadersSeeRepaired
BY WarehouseHolds, PTL

\* So too the warehouse is never a full build still running: .building is one
\* name, and one process uses it.
THEOREM WarehouseStaysFinished ==
  ASSUME WarehouseSetting, OneFullBuilder
  PROVE  WarehouseSpec => []WarehouseIsFinished
BY WarehouseHolds, PTL
==============================================================================
