---------------------------- MODULE ReaderProofs -----------------------------
(***************************************************************************)
(* What the readers of a question make of its words, for any names, games,  *)
(* points, days and years; and the clock they date games by.  Each part is of*)
(* one module, with an inductive invariant of its own.                      *)
(***************************************************************************)
EXTENDS Names, Streaks, PeriodLines, Plan, Days, Season, SetLemmas

-----------------------------------------------------------------------------
(***************************************************************************)
(* A name, and who is meant by it.                                          *)
(***************************************************************************)

\* How the names may match: what is only looked for where no name matches is told
\* only there.
MatchesAre ==
  match \in [Namesakes -> {"none", "inside", "word", "exact"}] \cup [Namesakes -> {"none", "near", "surname"}]

\* Those a name's words fit.
Fitting == {p \in Namesakes : Fits(p)}

\* Of some namesakes: they are finitely many, and if there is one, he is the last.
LEMMA OneNamesake ==
  ASSUME NEW S \in SUBSET Namesakes
  PROVE  /\ IsFiniteSet(S) /\ Cardinality(S) \in Nat
         /\ Cardinality(S) = 0 <=> S = {}
         /\ Cardinality(S) = 1 => S = {Max(S)}
         /\ Cardinality(S) < 2 => S = {} \/ S = {Max(S)}
<1>1. IsFiniteSet(S) /\ Cardinality(S) \in Nat
  BY NamesAssumption, FS_Subset, FS_CardinalityType DEF NamesAssumption
<1>2. Cardinality(S) = 0 <=> S = {}
  BY <1>1, FS_EmptySet
<1>3. ASSUME NEW x, S = {x} PROVE S = {Max(S)}
  <2>1. x \in Nat
    BY <1>3, NamesAssumption DEF NamesAssumption
  <2>2. Max(S) \in S
    BY <1>3, <2>1 DEF Max
  <2>3. QED
    BY <1>3, <2>2
<1>4. Cardinality(S) = 1 => S = {Max(S)}
  BY <1>1, <1>3, FS_Singleton
<1>5. QED
  BY <1>1, <1>2, <1>4

\* Without a limit, all that fit are found.
LEMMA AllAreFound == FindPlayers(NoLimit) = Fitting
<1>1. ASSUME NEW S \in SUBSET Namesakes PROVE FirstOf(S, NoLimit) = S
  <2>1. ASSUME NEW p \in S PROVE Cardinality({o \in S : o < p}) < NoLimit
    <3> DEFINE T == {o \in S : o < p}
    <3>0. p \in Nat
      BY NamesAssumption DEF NamesAssumption
    <3>1. T \in SUBSET Namesakes /\ p \notin T /\ p \in Namesakes
      <4>1. ~(p < p)
        BY <3>0
      <4>2. p \notin T
        BY <4>1
      <4>3. QED
        BY <4>2
    <3>2. Cardinality(T) <= Cardinality(Namesakes) /\ Cardinality(T) # Cardinality(Namesakes)
      <4> HIDE DEF T
      <4>1. QED
        BY <3>1, NamesAssumption, FS_Subset DEF NamesAssumption
    <3>3. Cardinality(T) \in Nat /\ Cardinality(Namesakes) \in Nat
      BY <3>1, OneNamesake
    <3>4. QED
      BY <3>2, <3>3 DEF NoLimit
  <2>2. QED
    BY <2>1 DEF FirstOf
<1>2. QED
  BY <1>1 DEF FindPlayers, Fitting, Fits

\* A page of two or more shows two, if there are two.
LEMMA PageShowsTwo ==
  ASSUME NEW S \in SUBSET Namesakes, Cardinality(S) >= 2
  PROVE  /\ FirstOf(S, MaxCandidates) \subseteq S
         /\ Cardinality(FirstOf(S, MaxCandidates)) >= 2
<1> DEFINE F == FirstOf(S, MaxCandidates)
<1>1. F \subseteq S
  BY DEF FirstOf
<1>2. MaxCandidates \in Nat /\ MaxCandidates >= 2 /\ Namesakes \subseteq Nat
  BY NamesAssumption DEF NamesAssumption
<1>3. PICK x \in S : \A o \in S : x <= o
  <2>1. S # {} /\ S \in SUBSET Nat
    BY <1>2, FS_EmptySet
  <2>2. QED
    BY <2>1, LeastNat
<1>4. PICK y \in S \ {x} : \A o \in S \ {x} : y <= o
  <2>1. S \ {x} # {} /\ S \ {x} \in SUBSET Nat
    BY <1>2, OneNamesake, FS_Singleton
  <2>2. QED
    BY <2>1, LeastNat
<1>5. {o \in S : o < x} = {} /\ {o \in S : o < y} \subseteq {x}
  <2>1. x \in Nat /\ y \in Nat /\ S \subseteq Nat
    BY <1>2
  <2>2. \A o \in S : ~(o < x) /\ (o < y => o = x)
    BY <1>3, <1>4, <2>1
  <2>3. QED
    BY <2>2
<1>6. Cardinality({o \in S : o < x}) < 2 /\ Cardinality({o \in S : o < y}) < 2
  <2>1. Cardinality({o \in S : o < y}) <= 1
    <3> DEFINE T == {o \in S : o < y}
    <3>1. T \in SUBSET {x} /\ IsFiniteSet({x}) /\ Cardinality({x}) = 1
      BY <1>5, FS_Singleton
    <3> HIDE DEF T
    <3>2. Cardinality(T) <= Cardinality({x})
      BY <3>1, FS_Subset
    <3>3. QED
      BY <3>1, <3>2 DEF T
  <2>2. Cardinality({o \in S : o < y}) \in Nat
    BY OneNamesake
  <2>3. QED
    BY <1>5, <2>1, <2>2, FS_EmptySet
<1>7. x \in F /\ y \in F
  <2>1. \A p \in S : Cardinality({o \in S : o < p}) \in Nat
    BY OneNamesake
  <2>2. QED
    BY <1>2, <1>6, <2>1 DEF FirstOf
<1>8. Cardinality(F) \notin {0, 1}
  BY <1>1, <1>4, <1>7, OneNamesake
<1>9. QED
  BY <1>1, <1>8, OneNamesake

\* The namesakes of a question's team are those it could be about.
LEMMA TheTeamsAreMeant == ASSUME NEW q PROVE ForTeam(Fitting, q.team) = Meant(q) /\ Meant(q) \subseteq Fitting
BY DEF ForTeam, Fitting, Meant

\* Whoever is answered with is answered.
LEMMA AnswerStays ==
  ASSUME NEW q, ResolvePlayer(q).kind \in {"player", "ambiguous"}
  PROVE  ResolvedPlayer(q) = ResolvePlayer(q)
BY DEF ResolvedPlayer, NotFound

\* Of no name it fits there is the one spelled nearly so, or none.
LEMMA NobodyFits ==
  ASSUME MatchesAre, Fitting = {}, NEW q
  PROVE  MeansOne(q, ResolvedPlayer(q))
<1>1. Meant(q) = {}
  BY Fitting = {}, TheTeamsAreMeant
<1>2. Cardinality({}) = 0 /\ ResolvePlayer(q) = Unnarrowed({})
  BY AllAreFound, FS_EmptySet DEF ResolvePlayer
<1>3. CASE ReadNearSpelling = {}
  <2>1. ResolvePlayer(q) = NotFound
    BY <1>2, <1>3 DEF Unnarrowed
  <2>2. ResolvedPlayer(q).kind \in {"did_you_mean", "name_unmatched"}
    BY <2>1 DEF ResolvedPlayer
  <2>3. QED
    BY <1>1, <2>2 DEF MeansOne
<1>4. CASE ReadNearSpelling # {}
  <2> DEFINE near == ReadNearSpelling
  <2>1. near \subseteq {p \in Namesakes : match[p] = "near"} /\ Cardinality(near) = 1
    BY <1>4 DEF ReadNearSpelling, NearSpellings, NarrowToAvailable
  <2>2. near = {Max(near)}
    BY <2>1, OneNamesake
  <2>3. match[Max(near)] = "near"
    BY <2>1, <2>2
  <2>4. ResolvePlayer(q) = HimAmong(Max(near), {})
    BY <1>2, <1>4 DEF Unnarrowed
  <2>5. ResolvedPlayer(q) = HimAmong(Max(near), {})
    BY <2>4, AnswerStays DEF HimAmong
  <2>6. QED
    BY <1>1, <2>3, <2>5 DEF MeansOne, HimAmong
<1>5. QED
  BY <1>3, <1>4

\* A table is missing: the first of those the name fits are asked about, but for
\* one whose name it is in full.
LEMMA UnnarrowedMeansOne ==
  ASSUME MatchesAre, NEW q, Cardinality(Fitting) >= 2, q.sources \cap absent # {},
         ResolvePlayer(q) = Unnarrowed(FindPlayers(MaxCandidates))
  PROVE  MeansOne(q, ResolvedPlayer(q))
<1> DEFINE page == FindPlayers(MaxCandidates)
<1>1. page = FirstOf(Fitting, MaxCandidates)
  BY DEF FindPlayers, Fitting, Fits
<1>2. Fitting \in SUBSET Namesakes
  BY DEF Fitting
<1>3. page \in SUBSET Namesakes /\ Cardinality(page) >= 2
  BY <1>1, <1>2, PageShowsTwo
<1>4. page # {} /\ Cardinality(page) # 1
  BY <1>3, FS_EmptySet
<1> HIDE DEF page
<1>5. CASE Exact(page) # {}
  <2>1. Exact(page) \in SUBSET Namesakes /\ Cardinality(Exact(page)) = 1 /\ \A p \in Exact(page) : match[p] = "exact"
    BY <1>3, <1>5 DEF Exact
  <2>2. Max(Exact(page)) \in Exact(page)
    BY <2>1, OneNamesake
  <2>3. ResolvePlayer(q) = Him(Max(Exact(page)))
    BY <1>4, <1>5 DEF Unnarrowed, page
  <2>4. ResolvedPlayer(q) = Him(Max(Exact(page)))
    BY <2>3, AnswerStays DEF Him
  <2>5. QED
    BY <2>1, <2>2, <2>4 DEF MeansOne, Him
<1>6. CASE Exact(page) = {}
  <2>1. ResolvePlayer(q) = WhichOf(page, {})
    BY <1>4, <1>6 DEF Unnarrowed, page
  <2>2. ResolvedPlayer(q) = WhichOf(page, {})
    BY <2>1, AnswerStays DEF WhichOf
  <2>3. QED
    BY <2>2 DEF MeansOne, WhichOf
<1>7. QED
  BY <1>5, <1>6

\* Of several it could be, one is named in full.
LEMMA InFullMeansOne ==
  ASSUME NEW q, Exact(Meant(q)) # {},
         ResolvePlayer(q) = NamedInFull(q, Max(Exact(Meant(q))), Meant(q))
  PROVE  MeansOne(q, ResolvedPlayer(q))
<1> DEFINE named == Max(Exact(Meant(q)))
           couldBe == NarrowToAvailable(Meant(q), q.sources, Seasons(q))
<1>1. Meant(q) \in SUBSET Namesakes /\ Exact(Meant(q)) \in SUBSET Meant(q) /\ couldBe \in SUBSET Meant(q)
  BY DEF Meant, Exact, NarrowToAvailable
<1>2. Exact(Meant(q)) = {named}
  <2>1. Cardinality(Exact(Meant(q))) = 1
    BY DEF Exact
  <2>2. QED
    BY <1>1, <2>1, OneNamesake
<1>3. couldBe = {p \in Meant(q) : RowIn(p, q.sources, Seasons(q))}
  BY DEF NarrowToAvailable
<1> HIDE DEF named, couldBe
<1>4. ResolvePlayer(q) = IF named \in couldBe \/ Cardinality(couldBe) # 1 THEN Him(named) ELSE HimAmong(Max(couldBe), {named})
  BY DEF NamedInFull, named, couldBe
<1>5. CASE ResolvePlayer(q) = Him(named)
  <2>1. ResolvedPlayer(q) = Him(named)
    BY <1>5, AnswerStays DEF Him
  <2>2. QED
    BY <1>2, <2>1 DEF MeansOne, Him
<1>6. CASE Cardinality(couldBe) = 1 /\ ResolvePlayer(q) = HimAmong(Max(couldBe), {named})
  <2>1. ResolvedPlayer(q) = HimAmong(Max(couldBe), {named})
    BY <1>6, AnswerStays DEF HimAmong
  <2>2. couldBe = {Max(couldBe)}
    BY <1>1, <1>6, OneNamesake
  <2>3. Meant(q) # {} /\ \A o \in {named} : o \in Exact(Meant(q)) /\ couldBe = {Max(couldBe)}
    BY <1>1, <1>2, <2>2
  <2>4. QED
    BY <1>2, <1>3, <2>1, <2>2, <2>3 DEF MeansOne, HimAmong
<1>7. QED
  BY <1>4, <1>5, <1>6

\* Of several it could be, none in full: they are narrowed by what there is.
LEMMA NarrowedMeansOne ==
  ASSUME NEW q, Meant(q) # {}, Exact(Meant(q)) = {}, q.sources \cap absent = {},
         ResolvePlayer(q) = Narrowed(q, Meant(q))
  PROVE  MeansOne(q, ResolvedPlayer(q))
<1> DEFINE couldBe == NarrowToAvailable(Meant(q), q.sources, Seasons(q))
           current == IF q.season # NoSeason THEN couldBe
                      ELSE NarrowToAvailable(couldBe, q.sources, {q.through} \cap DOMAIN seasonRows)
<1>1. Meant(q) \in SUBSET Namesakes /\ couldBe \in SUBSET Meant(q) /\ current \in SUBSET couldBe
  BY DEF Meant, NarrowToAvailable
<1>2. couldBe = {p \in Meant(q) : RowIn(p, q.sources, Seasons(q))}
  BY DEF NarrowToAvailable
<1>3. ASSUME q.season = NoSeason, NEW c \in current
      PROVE  RowIn(c, q.sources, {q.through}) /\ \A o \in couldBe \ current : ~RowIn(o, q.sources, {q.through})
  <2>1. current = {p \in couldBe : RowIn(p, q.sources, {q.through} \cap DOMAIN seasonRows)}
    BY <1>3 DEF NarrowToAvailable
  <2>2. q.through \in DOMAIN seasonRows
    BY <2>1 DEF RowIn
  <2>3. {q.through} \cap DOMAIN seasonRows = {q.through}
    BY <2>2
  <2>4. QED
    BY <2>1, <2>3
<1>4. ResolvePlayer(q) =
        IF Cardinality(couldBe) = 1 THEN Him(Max(couldBe))
        ELSE IF couldBe = {} THEN WhichOf(FirstOf(Meant(q), MaxCandidates), {})
        ELSE IF q.season = NoSeason /\ Cardinality(current) = 1 THEN HimAmong(Max(current), couldBe \ current)
        ELSE WhichOf(couldBe, current)
  BY DEF Narrowed
<1> HIDE DEF couldBe, current
<1>5. CASE Cardinality(couldBe) = 1 /\ ResolvePlayer(q) = Him(Max(couldBe))
  <2>1. ResolvedPlayer(q) = Him(Max(couldBe))
    BY <1>5, AnswerStays DEF Him
  <2>2. couldBe = {Max(couldBe)}
    BY <1>1, <1>5, OneNamesake
  <2>3. QED
    BY <1>2, <2>1, <2>2 DEF MeansOne, Him
<1>6. CASE couldBe = {} /\ ResolvePlayer(q) = WhichOf(FirstOf(Meant(q), MaxCandidates), {})
  <2>1. ResolvedPlayer(q) = WhichOf(FirstOf(Meant(q), MaxCandidates), {})
    BY <1>6, AnswerStays DEF WhichOf
  <2>2. FirstOf(Meant(q), MaxCandidates) \subseteq Meant(q) /\ Cardinality(couldBe) # 1
    BY <1>6, FS_EmptySet DEF FirstOf
  <2>3. QED
    BY <1>2, <1>6, <2>1, <2>2 DEF MeansOne, WhichOf
<1>7. CASE /\ q.season = NoSeason /\ Cardinality(current) = 1
           /\ ResolvePlayer(q) = HimAmong(Max(current), couldBe \ current)
  <2>1. ResolvedPlayer(q) = HimAmong(Max(current), couldBe \ current)
    BY <1>7, AnswerStays DEF HimAmong
  <2>2. current = {Max(current)}
    <3>1. current \in SUBSET Namesakes
      BY <1>1
    <3>2. QED
      BY <1>7, <3>1, OneNamesake
  <2>3. /\ RowIn(Max(current), q.sources, {q.through})
        /\ \A o \in couldBe \ current : ~RowIn(o, q.sources, {q.through})
    BY <1>3, <1>7, <2>2
  <2>4. /\ couldBe \subseteq {Max(current)} \cup (couldBe \ current)
        /\ Max(current) \in couldBe
    BY <1>1, <2>2
  <2>5. QED
    BY <1>2, <2>1, <2>3, <2>4 DEF MeansOne, HimAmong
<1>8. CASE Cardinality(couldBe) # 1 /\ ResolvePlayer(q) = WhichOf(couldBe, current)
  <2>1. ResolvedPlayer(q) = WhichOf(couldBe, current)
    BY <1>8, AnswerStays DEF WhichOf
  <2>2. QED
    BY <1>1, <1>2, <1>8, <2>1 DEF MeansOne, WhichOf
<1>9. QED
  BY <1>4, <1>5, <1>6, <1>7, <1>8

\* Every question about a name, whatever the names and the rows.
LEMMA EachMeansOne == ASSUME MatchesAre, NEW q PROVE MeansOne(q, ResolvedPlayer(q))
<1>1. Fitting \in SUBSET Namesakes /\ Meant(q) \in SUBSET Namesakes
  BY DEF Fitting, Meant
<1>2. CASE Fitting = {}
  BY <1>2, NobodyFits
<1>3. CASE Fitting # {} /\ Cardinality(Fitting) < 2
  <2>1. Fitting = {Max(Fitting)}
    BY <1>1, <1>3, OneNamesake
  <2>2. ResolvePlayer(q) = Him(Max(Fitting))
    <3>1. Cardinality(Fitting) = 1
      BY <1>1, <1>3, OneNamesake
    <3>2. QED
      BY <1>3, <3>1, AllAreFound DEF ResolvePlayer, Unnarrowed
  <2>3. ResolvedPlayer(q) = Him(Max(Fitting))
    BY <2>2, AnswerStays DEF Him
  <2>4. QED
    BY <2>1, <2>3 DEF MeansOne, Him, Fitting
<1>4. CASE Cardinality(Fitting) >= 2
  <2>1. Cardinality(Fitting) \in Nat /\ Fitting # {} /\ ~(Cardinality(Fitting) < 2)
    BY <1>1, <1>4, OneNamesake, FS_EmptySet
  <2>2. Meant(q) # {} /\ ForTeam(Fitting, q.team) = Meant(q)
    BY <2>1, TheTeamsAreMeant DEF ForTeam
  <2>3. ResolvePlayer(q) =
          IF Cardinality(Meant(q)) = 1 THEN Him(Max(Meant(q)))
          ELSE IF q.sources \cap absent # {} THEN Unnarrowed(FindPlayers(MaxCandidates))
          ELSE IF Exact(Meant(q)) # {} THEN NamedInFull(q, Max(Exact(Meant(q))), Meant(q))
          ELSE Narrowed(q, Meant(q))
    BY <2>1, <2>2, AllAreFound DEF ResolvePlayer
  <2>4. CASE Cardinality(Meant(q)) = 1 /\ ResolvePlayer(q) = Him(Max(Meant(q)))
    <3>1. ResolvedPlayer(q) = Him(Max(Meant(q)))
      BY <2>4, AnswerStays DEF Him
    <3>2. Meant(q) = {Max(Meant(q))}
      BY <1>1, <2>4, OneNamesake
    <3>3. QED
      BY <3>1, <3>2 DEF MeansOne, Him
  <2>5. QED
    BY <1>4, <2>2, <2>3, <2>4, UnnarrowedMeansOne, InFullMeansOne, NarrowedMeansOne
<1>5. QED
  BY <1>1, <1>2, <1>3, <1>4, OneNamesake

\* A name is answered about the one man it could mean, or says or asks which.
THEOREM NamesMeanOne == NamesSpec => []NameMeansOne
<1>1. NamesInit => MatchesAre
  BY DEF NamesInit, MatchesAre
<1>2. MatchesAre /\ [NamesNext]_namesVars => MatchesAre'
  BY DEF MatchesAre, NamesNext, PlaySeason, NamesOver, namesVars
<1>3. MatchesAre => NameMeansOne
  BY EachMeansOne DEF NameMeansOne
<1>4. QED
  BY <1>1, <1>2, <1>3, PTL DEF NamesSpec

-----------------------------------------------------------------------------
(***************************************************************************)
(* Streaks: the islands a query numbers are the runs there are.             *)
(***************************************************************************)

\* The number of the island a hit is on is how many rows before it were none.
LEMMA IslandIs ==
  ASSUME NEW n \in Nat, NEW S \in SUBSET (1..n), NEW rows, DOMAIN rows = S,
         NEW partition, DOMAIN partition = S, NEW d \in S, rows[d].hit = "hit"
  PROVE  Island(rows, partition, d)
           = Cardinality({e \in S : e <= d /\ partition[e] = partition[d] /\ rows[e].hit # "hit"})
<1> DEFINE All == {e \in S : e <= d /\ partition[e] = partition[d]}
           Hits == {e \in S : e <= d /\ << partition[e], rows[e].hit >> = << partition[d], rows[d].hit >>}
           Rest == {e \in S : e <= d /\ partition[e] = partition[d] /\ rows[e].hit # "hit"}
           both == [e \in DOMAIN rows |-> << partition[e], rows[e].hit >>]
<1>1. Numbered(partition, d) = Cardinality(All)
  BY DEF Numbered
<1>2. Numbered(both, d) = Cardinality(Hits)
  <2>1. \A e \in S : both[e] = << partition[e], rows[e].hit >>
    OBVIOUS
  <2>2. {e \in DOMAIN both : e <= d /\ both[e] = both[d]} = Hits
    BY <2>1
  <2>3. QED
    BY <2>2 DEF Numbered
<1>3. Island(rows, partition, d) = Cardinality(All) - Cardinality(Hits)
  BY <1>1, <1>2 DEF Island
<1>4. All = Hits \cup Rest /\ Hits \cap Rest = {}
  <2>1. \A e \in S : << partition[e], rows[e].hit >> = << partition[d], rows[d].hit >>
                       <=> partition[e] = partition[d] /\ rows[e].hit = "hit"
    OBVIOUS
  <2>2. QED
    BY <2>1
<1>5. IsFiniteSet(1..n)
  BY FS_Interval
<1>6. Hits \subseteq 1..n /\ Rest \subseteq 1..n
  OBVIOUS
<1> HIDE DEF All, Hits, Rest
<1>7. IsFiniteSet(Hits) /\ IsFiniteSet(Rest)
  BY <1>5, <1>6, FS_Subset
<1>8. Cardinality(All) = Cardinality(Hits) + Cardinality(Rest) - Cardinality(Hits \cap Rest)
  BY <1>4, <1>7, FS_Union
<1>9. Cardinality(Hits \cap Rest) = 0 /\ Cardinality(Hits) \in Nat /\ Cardinality(Rest) \in Nat
  BY <1>4, <1>7, FS_EmptySet, FS_CardinalityType
<1>10. Island(rows, partition, d) = Cardinality(Rest)
  BY <1>3, <1>8, <1>9
<1>11. QED
  BY <1>10 DEF Rest

\* Two hits of a partition are on one island if every row of it between them is one.
LEMMA SameIsland ==
  ASSUME NEW n \in Nat, NEW S \in SUBSET (1..n), NEW rows, DOMAIN rows = S,
         NEW partition, DOMAIN partition = S,
         NEW d \in S, NEW e \in S, rows[d].hit = "hit", rows[e].hit = "hit",
         partition[d] = partition[e], d <= e
  PROVE  Island(rows, partition, d) = Island(rows, partition, e)
           <=> \A x \in S : d < x /\ x < e /\ partition[x] = partition[d] => rows[x].hit = "hit"
<1> DEFINE Misses(u) == {x \in S : x <= u /\ partition[x] = partition[u] /\ rows[x].hit # "hit"}
<1>0. d \in Nat /\ e \in Nat /\ \A x \in S : x \in Nat
  OBVIOUS
<1>1. ASSUME NEW u \in S, rows[u].hit = "hit" PROVE Island(rows, partition, u) = Cardinality(Misses(u))
  BY <1>1, IslandIs
<1>2. Misses(d) \subseteq Misses(e) /\ Misses(e) \subseteq 1..n
  <2>1. ASSUME NEW x \in Misses(d) PROVE x \in Misses(e)
    <3>1. x \in S /\ x <= d /\ partition[x] = partition[d] /\ rows[x].hit # "hit"
      OBVIOUS
    <3> HIDE DEF Misses
    <3>2. x \in Nat /\ d \in Nat /\ e \in Nat /\ x <= d /\ d <= e
      BY <1>0, <3>1
    <3>3. x <= e
      BY <3>2
    <3>4. QED
      BY <3>1, <3>3 DEF Misses
  <2>2. Misses(e) \subseteq S
    OBVIOUS
  <2> HIDE DEF Misses
  <2>3. QED
    BY <2>1, <2>2
<1>3. IsFiniteSet(Misses(e))
  <2>1. Misses(e) \subseteq 1..n
    BY <1>2
  <2>2. IsFiniteSet(1..n)
    BY FS_Interval
  <2> HIDE DEF Misses
  <2>3. QED
    BY <2>1, <2>2, FS_Subset
<1>4. Cardinality(Misses(d)) = Cardinality(Misses(e)) <=> Misses(d) = Misses(e)
  <2> HIDE DEF Misses
  <2>1. QED
    BY <1>2, <1>3, FS_Subset
<1>5. Misses(d) = Misses(e)
        <=> \A x \in S : d < x /\ x < e /\ partition[x] = partition[d] => rows[x].hit = "hit"
  <2>1. ASSUME Misses(d) = Misses(e), NEW x \in S, d < x, x < e, partition[x] = partition[d]
        PROVE  rows[x].hit = "hit"
    <3> HIDE DEF Misses
    <3>0. x \in Nat /\ d \in Nat /\ e \in Nat /\ d < x /\ x < e
      BY <1>0, <2>1
    <3>1. ~(x <= d) /\ x <= e
      BY <3>0
    <3> USE DEF Misses
    <3>2. x \notin Misses(e)
      BY <2>1, <3>1
    <3>3. x <= e
      BY <3>1
    <3>4. QED
      BY <2>1, <3>2, <3>3
  <2>2. ASSUME \A x \in S : d < x /\ x < e /\ partition[x] = partition[d] => rows[x].hit = "hit",
               NEW x \in Misses(e)
        PROVE  x \in Misses(d)
    <3>1. x \in S /\ x <= e /\ partition[x] = partition[d] /\ rows[x].hit # "hit"
      OBVIOUS
    <3>2. x # e /\ ~(d < x /\ x < e)
      BY <2>2, <3>1
    <3> HIDE DEF Misses
    <3>3. x <= d
      <4>1. x \in Nat /\ x <= e /\ x # e /\ ~(d < x /\ x < e)
        BY <1>0, <3>1, <3>2
      <4>2. QED
        BY <1>0, <4>1
    <3>4. QED
      BY <3>1, <3>3 DEF Misses
  <2>3. QED
    BY <1>2, <2>1, <2>2
<1>6. /\ Island(rows, partition, d) = Cardinality(Misses(d))
      /\ Island(rows, partition, e) = Cardinality(Misses(e))
  BY <1>1
<1>7. QED
  BY <1>4, <1>5, <1>6

\* Rows R, the hits H among them: no row that is none between two of them, ...
Clear(R, H, d, e) == \A x \in R \ H : ~(d < x /\ x < e)
\* ... all the hits a hit is so joined to, either way, ...
RunAt(R, H, d) == {e \in H : Clear(R, H, d, e) /\ Clear(R, H, e, d)}
\* ... and those after a hit that none before it is joined to.
RunFrom(R, H, f) == {e \in H : e >= f /\ Clear(R, H, f, e)}
Begins(R, H, f) == f \in H /\ ~\E e \in H : e < f /\ Clear(R, H, e, f)

\* Every run has a hit it begins at, and is what follows that hit.
LEMMA RunsBegin ==
  ASSUME NEW n \in Nat, NEW R \in SUBSET (1..n), NEW H \in SUBSET R
  PROVE  /\ \A d \in H : \E f \in H : Begins(R, H, f) /\ RunAt(R, H, d) = RunFrom(R, H, f)
         /\ \A f \in H : Begins(R, H, f) => RunAt(R, H, f) = RunFrom(R, H, f)
<1>1. ASSUME NEW f \in H, Begins(R, H, f) PROVE RunAt(R, H, f) = RunFrom(R, H, f)
  <2>1. ASSUME NEW e \in RunAt(R, H, f) PROVE e \in RunFrom(R, H, f)
    <3>1. e \in H /\ Clear(R, H, f, e) /\ Clear(R, H, e, f)
      BY DEF RunAt
    <3>2. ~(e < f)
      BY <1>1, <3>1 DEF Begins
    <3>3. e >= f
      BY <3>1, <3>2
    <3>4. QED
      BY <3>1, <3>3 DEF RunFrom
  <2>2. ASSUME NEW e \in RunFrom(R, H, f) PROVE e \in RunAt(R, H, f)
    <3>1. e \in H /\ e >= f /\ Clear(R, H, f, e)
      BY DEF RunFrom
    <3>2. Clear(R, H, e, f)
      BY <3>1 DEF Clear
    <3>3. QED
      BY <3>1, <3>2 DEF RunAt
  <2>3. QED
    BY <2>1, <2>2
<1>2. ASSUME NEW d \in H PROVE \E f \in H : Begins(R, H, f) /\ RunAt(R, H, d) = RunFrom(R, H, f)
  <2>1. d \in RunAt(R, H, d)
    BY DEF RunAt, Clear
  <2>2. RunAt(R, H, d) \in SUBSET Nat
    <3>1. RunAt(R, H, d) \subseteq H /\ H \subseteq Nat
      BY DEF RunAt
    <3>2. QED
      BY <3>1
  <2>3. PICK f \in RunAt(R, H, d) : \A e \in RunAt(R, H, d) : f <= e
    BY <2>1, <2>2, LeastNat
  <2>4. f \in H /\ f <= d /\ Clear(R, H, f, d)
    BY <2>1, <2>3 DEF RunAt
  <2>5. Begins(R, H, f)
    <3>1. ASSUME NEW e \in H, e < f, Clear(R, H, e, f) PROVE FALSE
      <4>1. Clear(R, H, e, d) /\ Clear(R, H, d, e)
        BY <2>4, <3>1 DEF Clear
      <4>2. e \in RunAt(R, H, d)
        BY <4>1 DEF RunAt
      <4>3. f <= e
        BY <2>3, <4>2
      <4>4. QED
        BY <2>4, <3>1, <4>3
    <3>2. QED
      BY <2>4, <3>1 DEF Begins
  <2>6. RunAt(R, H, d) = RunFrom(R, H, f)
    <3>1. ASSUME NEW e \in RunAt(R, H, d) PROVE e \in RunFrom(R, H, f)
      <4>1. e \in H /\ f <= e /\ Clear(R, H, d, e) /\ Clear(R, H, e, d)
        BY <2>3 DEF RunAt
      <4>2. Clear(R, H, f, e)
        BY <2>4, <4>1 DEF Clear
      <4>3. QED
        BY <2>4, <4>1, <4>2 DEF RunFrom
    <3>2. ASSUME NEW e \in RunFrom(R, H, f) PROVE e \in RunAt(R, H, d)
      <4>1. e \in H /\ e >= f /\ Clear(R, H, f, e)
        BY DEF RunFrom
      <4>2. Clear(R, H, d, e) /\ Clear(R, H, e, d)
        BY <2>4, <4>1 DEF Clear
      <4>3. QED
        BY <4>1, <4>2 DEF RunAt
    <3>3. QED
      BY <3>1, <3>2
  <2>7. QED
    BY <2>4, <2>5, <2>6
<1>3. QED
  BY <1>1, <1>2

-----------------------------------------------------------------------------
\* A run, with whether nothing of its rows came after it, and whether that was in
\* the season of today.
Told2(R, run) ==
  [days |-> run, open |-> (\A x \in R : x <= Max(run)) /\ SeasonOf(Max(run)) = 2]

\* The games there have been, no more than there can be.
GamesInv == games \in Seq(GameKinds) /\ Len(games) <= LastGame

\* They are numbered from one.
LEMMA TheGames ==
  ASSUME GamesInv
  PROVE  Len(games) \in Nat /\ DOMAIN games = 1..Len(games)
BY DEF GamesInv

\* The runs of TrueRuns are those that begin, with all that follows.
LEMMA TrueRunsAre ==
  ASSUME NEW played, NEW ends, \A x \in ends : games[x].came # "hit",
         NEW R, NEW H, R = played \cup ends, H = {x \in R : games[x].came = "hit"}
  PROVE  TrueRuns(played, ends) = {Told2(R, RunFrom(R, H, f)) : f \in {f \in H : Begins(R, H, f)}}
<1> DEFINE hits == {d \in played : games[d].came = "hit"}
           misses == (played \ hits) \cup ends
<1>1. H = hits /\ R \ H = misses
  OBVIOUS
<1>2. \A d, e : Between(misses, d, e) = {} <=> Clear(R, H, d, e)
  BY <1>1 DEF Between, Clear
<1>3. TrueRuns(played, ends)
        = { [days |-> {e \in hits : e >= f /\ Between(misses, f, e) = {}},
             open |-> /\ \A x \in R : x <= Max({e \in hits : e >= f /\ Between(misses, f, e) = {}})
                      /\ SeasonOf(Max({e \in hits : e >= f /\ Between(misses, f, e) = {}})) = 2]
            : f \in {d \in hits : ~\E e \in hits : e < d /\ Between(misses, e, d) = {}} }
  BY DEF TrueRuns
<1> HIDE DEF hits, misses
<1>4. \A f : {e \in hits : e >= f /\ Between(misses, f, e) = {}} = RunFrom(R, H, f)
  BY <1>1, <1>2 DEF RunFrom
<1>5. {d \in hits : ~\E e \in hits : e < d /\ Between(misses, e, d) = {}} = {f \in H : Begins(R, H, f)}
  BY <1>1, <1>2 DEF Begins
<1>6. TrueRuns(played, ends) = {Told2(R, RunFrom(R, H, f)) : f \in {f \in H : Begins(R, H, f)}}
  <2> DEFINE firsts == {d \in hits : ~\E e \in hits : e < d /\ Between(misses, e, d) = {}}
             run(f) == {e \in hits : e >= f /\ Between(misses, f, e) = {}}
  <2>1. TrueRuns(played, ends) = {Told2(R, run(f)) : f \in firsts}
    BY <1>3 DEF Told2
  <2>2. firsts = {f \in H : Begins(R, H, f)} /\ \A f : run(f) = RunFrom(R, H, f)
    BY <1>4, <1>5
  <2> HIDE DEF firsts, run
  <2>3. QED
    BY <2>1, <2>2
<1>7. QED
  BY <1>6

\* A hit's run, of the rows of its partition.
Of(S, partition, k) == {x \in S : partition[x] = k}
HitsOf(S) == {x \in S : games[x].came = "hit"}
IslandOf(S, partition, d) == RunAt(Of(S, partition, partition[d]), HitsOf(Of(S, partition, partition[d])), d)

\* The hits numbered as one island with a hit are that hit's run.
LEMMA IslandsAreRunsAt ==
  ASSUME NEW n \in Nat, NEW S \in SUBSET (1..n), NEW partition, DOMAIN partition = S, NEW d \in HitsOf(S)
  PROVE  {e \in HitsOf(S) : << partition[e], Island(RowsOn(S), partition, e) >>
                              = << partition[d], Island(RowsOn(S), partition, d) >>}
           = IslandOf(S, partition, d)
<1> DEFINE rows == RowsOn(S)
           R == Of(S, partition, partition[d])
           H == HitsOf(R)
<1>1. DOMAIN rows = S /\ \A x \in S : rows[x].hit = games[x].came
  BY DEF RowsOn
<1>2. \A x \in S : x \in Nat
  OBVIOUS
<1> HIDE DEF rows
<1>3. ASSUME NEW a \in HitsOf(S), NEW b \in HitsOf(S), partition[a] = partition[d], partition[b] = partition[d], a <= b
      PROVE  /\ Island(rows, partition, a) = Island(rows, partition, b) <=> Clear(R, H, a, b)
             /\ Clear(R, H, b, a)
  <2>1. a \in S /\ b \in S /\ rows[a].hit = "hit" /\ rows[b].hit = "hit"
    BY <1>1 DEF HitsOf
  <2>2. Island(rows, partition, a) = Island(rows, partition, b)
          <=> \A x \in S : a < x /\ x < b /\ partition[x] = partition[a] => rows[x].hit = "hit"
    BY <1>1, <1>3, <2>1, SameIsland, SMTT(60)
  <2>3. Clear(R, H, a, b) <=> \A x \in S : a < x /\ x < b /\ partition[x] = partition[a] => rows[x].hit = "hit"
    <3>1. \A x : x \in R \ H <=> x \in S /\ partition[x] = partition[a] /\ rows[x].hit # "hit"
      BY <1>1, <1>3 DEF Of, HitsOf
    <3> HIDE DEF R, H
    <3>2. QED
      BY <3>1 DEF Clear
  <2>4. Clear(R, H, b, a)
    <3>1. a \in Nat /\ b \in Nat /\ \A x \in R : x \in Nat
      BY <1>2, <2>1 DEF Of
    <3> HIDE DEF R, H
    <3>2. QED
      BY <1>3, <3>1 DEF Clear
  <2>5. QED
    BY <2>2, <2>3, <2>4
<1>4. ASSUME NEW e \in HitsOf(S), partition[e] = partition[d]
      PROVE  Island(rows, partition, e) = Island(rows, partition, d) <=> Clear(R, H, d, e) /\ Clear(R, H, e, d)
  <2>1. d \in Nat /\ e \in Nat
    BY <1>2 DEF HitsOf
  <2> HIDE DEF R, H
  <2>2. CASE d <= e
    <3>1. /\ Island(rows, partition, d) = Island(rows, partition, e) <=> Clear(R, H, d, e)
          /\ Clear(R, H, e, d)
      BY <1>3, <1>4, <2>2
    <3>2. QED
      BY <3>1
  <2>3. CASE e <= d
    <3>1. /\ Island(rows, partition, e) = Island(rows, partition, d) <=> Clear(R, H, e, d)
          /\ Clear(R, H, d, e)
      BY <1>3, <1>4, <2>3
    <3>2. QED
      BY <3>1
  <2>4. QED
    BY <2>1, <2>2, <2>3
<1>5. \A e : e \in H <=> e \in HitsOf(S) /\ partition[e] = partition[d]
  BY DEF Of, HitsOf
<1> HIDE DEF R, H
<1>6. {e \in HitsOf(S) : << partition[e], Island(rows, partition, e) >> = << partition[d], Island(rows, partition, d) >>}
        = {e \in HitsOf(S) : partition[e] = partition[d] /\ Island(rows, partition, e) = Island(rows, partition, d)}
  OBVIOUS
<1>7. {e \in HitsOf(S) : partition[e] = partition[d] /\ Island(rows, partition, e) = Island(rows, partition, d)}
        = RunAt(R, H, d)
  BY <1>4, <1>5 DEF RunAt
<1>8. QED
  BY <1>6, <1>7 DEF IslandOf, R, H, rows

\* What RunsOf makes of a hit.
RunOf(S, partition, d) ==
  [days |-> IslandOf(S, partition, d),
   open |-> \A x \in Of(S, partition, partition[d]) : x <= Max(IslandOf(S, partition, d))]

\* So the runs a query groups are the runs there are.
LEMMA RunsAre ==
  ASSUME NEW n \in Nat, NEW S \in SUBSET (1..n), NEW partition, DOMAIN partition = S
  PROVE  RunsOf(RowsOn(S), partition) = {RunOf(S, partition, d) : d \in HitsOf(S)}
<1> DEFINE rows == RowsOn(S)
           key(d) == << partition[d], Island(rows, partition, d) >>
           run(d) == {e \in HitsOf(S) : key(e) = key(d)}
           Open(r) == \A e \in S : (\E d \in r : partition[e] = partition[d]) => e <= Max(r)
<1>1. DOMAIN rows = S /\ {d \in DOMAIN rows : rows[d].hit = "hit"} = HitsOf(S)
  BY DEF RowsOn, HitsOf
<1>2. RunsOf(rows, partition) = {[days |-> r, open |-> Open(r)] : r \in {run(d) : d \in HitsOf(S)}}
  <2> DEFINE hits == {d \in DOMAIN rows : rows[d].hit = "hit"}
             Late(r) == \A e \in DOMAIN rows : (\E d \in r : partition[e] = partition[d]) => e <= Max(r)
  <2>1. RunsOf(rows, partition) = {[days |-> r, open |-> Late(r)] : r \in {{e \in hits : key(e) = key(d)} : d \in hits}}
    BY Zenon DEF RunsOf
  <2>2. hits = HitsOf(S) /\ \A r : Late(r) = Open(r)
    BY <1>1
  <2>3. {{e \in hits : key(e) = key(d)} : d \in hits} = {run(d) : d \in HitsOf(S)}
    <3> HIDE DEF key, hits
    <3>1. QED
      BY <2>2
  <2> HIDE DEF Late, Open, run, hits, key
  <2>4. QED
    BY <2>1, <2>2, <2>3
<1>3. ASSUME NEW d \in HitsOf(S) PROVE [days |-> run(d), open |-> Open(run(d))] = RunOf(S, partition, d)
  <2>1. run(d) = IslandOf(S, partition, d)
    BY IslandsAreRunsAt
  <2>2. d \in run(d) /\ \A e \in run(d) : partition[e] = partition[d]
    <3> HIDE DEF rows
    <3>1. QED
      OBVIOUS
  <2> HIDE DEF run
  <2>3. Open(run(d)) = \A x \in Of(S, partition, partition[d]) : x <= Max(run(d))
    BY <2>2 DEF Of
  <2> HIDE DEF Open
  <2>4. QED
    BY <2>1, <2>3 DEF RunOf
<1> HIDE DEF run, Open, rows
<1>4. RunsOf(rows, partition) = {[days |-> run(d), open |-> Open(run(d))] : d \in HitsOf(S)}
  BY <1>2
<1>5. RunsOf(rows, partition) = {RunOf(S, partition, d) : d \in HitsOf(S)}
  BY <1>3, <1>4
<1>6. QED
  BY <1>5 DEF rows

\* A run as it is told: still going only where it reaches into the last season.
Settle(r) == [r EXCEPT !.open = r.open /\ SeasonOf(Max(r.days)) = 2]

\* The runs there are, partition by partition.
RunsByPart(P, E, partition, K) ==
  UNION {TrueRuns({x \in P : partition[x] = k}, {x \in E : partition[x] = k}) : k \in K}

\* Settled, they are the runs there are, partition by partition.
LEMMA IslandsAreTheRuns ==
  ASSUME NEW n \in Nat, NEW P \in SUBSET (1..n), NEW E \in SUBSET (1..n), \A x \in E : games[x].came # "hit",
         NEW partition, DOMAIN partition = P \cup E, NEW K, \A x \in P \cup E : partition[x] \in K
  PROVE  Settled(RunsOf(RowsOn(P \cup E), partition)) = RunsByPart(P, E, partition, K)
<1> DEFINE S == P \cup E
           runs == {Settle(RunOf(S, partition, d)) : d \in HitsOf(S)}
           R(k) == Of(S, partition, k)
           H(k) == HitsOf(R(k))
           Told3(k) == {Told2(R(k), RunFrom(R(k), H(k), f)) : f \in {f \in H(k) : Begins(R(k), H(k), f)}}
<1>1. Settled(RunsOf(RowsOn(S), partition)) = runs
  <2>1. S \in SUBSET (1..n)
    OBVIOUS
  <2> HIDE DEF S
  <2>2. RunsOf(RowsOn(S), partition) = {RunOf(S, partition, d) : d \in HitsOf(S)}
    BY <2>1, RunsAre, ZenonT(60) DEF S
  <2>3. QED
    BY <2>2 DEF Settled, Settle
<1>2. ASSUME NEW k \in K
      PROVE  TrueRuns({x \in P : partition[x] = k}, {x \in E : partition[x] = k}) = Told3(k)
  <2> DEFINE played == {x \in P : partition[x] = k}
             ends == {x \in E : partition[x] = k}
  <2>1. played \cup ends = R(k) /\ {x \in R(k) : games[x].came = "hit"} = H(k)
    BY DEF Of, HitsOf
  <2>2. \A x \in ends : games[x].came # "hit"
    OBVIOUS
  <2> HIDE DEF played, ends, R, H
  <2>3. TrueRuns(played, ends) = Told3(k)
    BY <2>1, <2>2, TrueRunsAre
  <2>4. QED
    BY <2>3 DEF played, ends, R, H
<1>3. \A k : R(k) \in SUBSET (1..n) /\ H(k) \in SUBSET R(k)
  BY DEF Of, HitsOf
<1>4. ASSUME NEW d \in HitsOf(S)
      PROVE  /\ partition[d] \in K /\ d \in H(partition[d])
             /\ Settle(RunOf(S, partition, d)) = Told2(R(partition[d]), RunAt(R(partition[d]), H(partition[d]), d))
  <2>1. d \in S /\ partition[d] \in K /\ d \in H(partition[d])
    BY DEF HitsOf, Of
  <2>2. IslandOf(S, partition, d) = RunAt(R(partition[d]), H(partition[d]), d)
    BY DEF IslandOf
  <2> HIDE DEF S, R, H
  <2>3. Settle(RunOf(S, partition, d)) = Told2(R(partition[d]), IslandOf(S, partition, d))
    <3> DEFINE I == IslandOf(S, partition, d)
               O == \A x \in R(partition[d]) : x <= Max(I)
    <3>1. RunOf(S, partition, d) = [days |-> I, open |-> O]
      BY Zenon DEF RunOf, R
    <3>2. Told2(R(partition[d]), I) = [days |-> I, open |-> O /\ SeasonOf(Max(I)) = 2]
      BY Zenon DEF Told2
    <3> HIDE DEF I, O
    <3>3. Settle([days |-> I, open |-> O]) = [days |-> I, open |-> O /\ SeasonOf(Max(I)) = 2]
      BY DEF Settle
    <3>4. QED
      BY <3>1, <3>2, <3>3 DEF I
  <2>4. QED
    BY <2>1, <2>2, <2>3
<1>5. \A k : \A d \in H(k) : d \in HitsOf(S) /\ partition[d] = k
  BY DEF HitsOf, Of
<1> HIDE DEF S, R, H
<1>6. ASSUME NEW d \in HitsOf(S) PROVE \E k \in K : Settle(RunOf(S, partition, d)) \in Told3(k)
  <2> DEFINE k == partition[d]
  <2>1. k \in K /\ d \in H(k) /\ Settle(RunOf(S, partition, d)) = Told2(R(k), RunAt(R(k), H(k), d))
    BY <1>4
  <2> HIDE DEF k
  <2>2. PICK f \in H(k) : Begins(R(k), H(k), f) /\ RunAt(R(k), H(k), d) = RunFrom(R(k), H(k), f)
    BY <1>3, <2>1, RunsBegin
  <2>3. Settle(RunOf(S, partition, d)) \in Told3(k)
    BY <2>1, <2>2
  <2>4. QED
    BY <2>1, <2>3
<1>7. ASSUME NEW k \in K, NEW f \in H(k), Begins(R(k), H(k), f)
      PROVE  Told2(R(k), RunFrom(R(k), H(k), f)) \in runs
  <2>1. RunAt(R(k), H(k), f) = RunFrom(R(k), H(k), f)
    BY <1>3, <1>7, RunsBegin
  <2>2. f \in HitsOf(S) /\ partition[f] = k
    BY <1>5
  <2>3. Settle(RunOf(S, partition, f)) = Told2(R(k), RunAt(R(k), H(k), f))
    BY <1>4, <2>2
  <2>4. QED
    BY <2>1, <2>2, <2>3
<1>8. runs = UNION {Told3(k) : k \in K}
  <2>1. \A r \in runs : \E k \in K : r \in Told3(k)
    BY <1>6
  <2>2. \A k \in K : \A r \in Told3(k) : r \in runs
    <3> HIDE DEF runs
    <3>1. QED
      BY <1>7
  <2> HIDE DEF runs, Told3
  <2>3. QED
    BY <2>1, <2>2
<1>9. Settled(RunsOf(RowsOn(S), partition))
        = UNION {TrueRuns({x \in P : partition[x] = k}, {x \in E : partition[x] = k}) : k \in K}
  <2> HIDE DEF runs, Told3
  <2>1. UNION {TrueRuns({x \in P : partition[x] = k}, {x \in E : partition[x] = k}) : k \in K} = UNION {Told3(k) : k \in K}
    BY <1>2
  <2>2. QED
    BY <1>1, <1>8, <2>1
<1>10. QED
  BY <1>9 DEF S, RunsByPart

\* Which of two runs is told first: the longer, or else the earlier.  What is told
\* of some runs is told of them settled, for it turns on their days alone.
ToldBefore(r, s) ==
  \/ Cardinality(r.days) > Cardinality(s.days)
  \/ Cardinality(r.days) = Cardinality(s.days) /\ Min(r.days) < Min(s.days)

\* Settled, a run has the days it had.
LEMMA SettleKeeps ==
  ASSUME NEW r, NEW x, NEW o, r = [days |-> x, open |-> o]
  PROVE  Settle(r).days = x
BY DEF Settle

\* The runs told, settled, are what is told of the runs settled.
LEMMA ToldOfSettled ==
  ASSUME NEW runs, IsFiniteSet(runs), NEW limit,
         \A r \in runs : \E x, o : r = [days |-> x, open |-> o],
         \A r, s \in runs : r.days = s.days => r = s
  PROVE  Settled(Told(runs, limit)) = Told(Settled(runs), limit)
<1> DEFINE Longer(r) == {s \in runs : ToldBefore(s, r)}
           LongerOf(q) == {s \in Settled(runs) : ToldBefore(s, q)}
<1>1. /\ Told(runs, limit) = {r \in runs : Cardinality(Longer(r)) < limit}
      /\ Told(Settled(runs), limit) = {q \in Settled(runs) : Cardinality(LongerOf(q)) < limit}
  BY DEF Told, ToldBefore
<1>2. \A some : Settled(some) = {Settle(r) : r \in some}
  BY DEF Settled, Settle
<1>3. \A r \in runs : Settle(r).days = r.days
  <2>1. ASSUME NEW r \in runs PROVE Settle(r).days = r.days
    <3>1. PICK x, o : r = [days |-> x, open |-> o]
      OBVIOUS
    <3>2. r.days = x
      BY <3>1
    <3>3. QED
      BY <3>1, <3>2, SettleKeeps
  <2>2. QED
    BY <2>1
<1>4. \A r, s \in runs : ToldBefore(Settle(s), Settle(r)) <=> ToldBefore(s, r)
  BY <1>3 DEF ToldBefore
<1>5. ASSUME NEW r \in runs PROVE Cardinality(LongerOf(Settle(r))) = Cardinality(Longer(r))
  <2> DEFINE f == [s \in Longer(r) |-> Settle(s)]
             A == Longer(r)
             B == LongerOf(Settle(r))
  <2>1. \A s \in A : Settle(s) \in B
    BY <1>2, <1>4
  <2>2. \A q \in B : \E s \in A : q = Settle(s)
    BY <1>2, <1>4
  <2>3. \A s, t \in A : Settle(s) = Settle(t) => s = t
    BY <1>3
  <2>4. IsFiniteSet(A)
    <3>1. A \subseteq runs
      OBVIOUS
    <3> HIDE DEF A
    <3>2. QED
      BY <3>1, FS_Subset
  <2> HIDE DEF A, B
  <2>5. f = [s \in A |-> Settle(s)]
    BY DEF A
  <2> HIDE DEF f
  <2>6. f \in Surjection(A, B) /\ f \in Injection(A, B)
    <3>1. f \in [A -> B]
      BY <2>1, <2>5
    <3>2. \A q \in B : \E s \in A : f[s] = q
      BY <2>2, <2>5
    <3>3. \A s, t \in A : f[s] = f[t] => s = t
      BY <2>3, <2>5
    <3>4. QED
      BY <3>1, <3>2, <3>3 DEF Surjection, Injection, IsInjective
  <2>7. Cardinality(B) = Cardinality(A)
    BY <2>4, <2>6, FS_Surjection
  <2>8. QED
    BY <2>7 DEF A, B
<1> HIDE DEF Longer, LongerOf
<1>6. Settled(Told(runs, limit)) = {Settle(r) : r \in {r \in runs : Cardinality(Longer(r)) < limit}}
  BY <1>1, <1>2
<1>7. Told(Settled(runs), limit) = {q \in {Settle(r) : r \in runs} : Cardinality(LongerOf(q)) < limit}
  BY <1>1, <1>2
<1>8. QED
  BY <1>5, <1>6, <1>7

\* The same of the islands of a query.
LEMMA ToldIslands ==
  ASSUME NEW n \in Nat, NEW S \in SUBSET (1..n), NEW partition, DOMAIN partition = S, NEW limit
  PROVE  Settled(Told(RunsOf(RowsOn(S), partition), limit)) = Told(Settled(RunsOf(RowsOn(S), partition)), limit)
<1> DEFINE runs == RunsOf(RowsOn(S), partition)
<1>1. runs = {RunOf(S, partition, d) : d \in HitsOf(S)}
  BY RunsAre
<1>2. IsFiniteSet(HitsOf(S))
  <2>0. IsFiniteSet(1..n)
    BY FS_Interval
  <2>1. HitsOf(S) \subseteq 1..n
    BY DEF HitsOf
  <2>2. QED
    BY <2>0, <2>1, FS_Subset
<1>3. IsFiniteSet(runs)
  <2> DEFINE run == [d \in HitsOf(S) |-> RunOf(S, partition, d)]
  <2>1. run \in Surjection(HitsOf(S), runs)
    <3> HIDE DEF runs
    <3>1. QED
      BY <1>1 DEF Surjection
  <2> HIDE DEF runs, run
  <2>2. QED
    BY <1>2, <2>1, FS_Surjection
<1>4. \A r \in runs : \E x, o : r = [days |-> x, open |-> o]
  <2> HIDE DEF runs
  <2>1. \A d : \E x, o : RunOf(S, partition, d) = [days |-> x, open |-> o]
    BY Zenon DEF RunOf
  <2>2. QED
    BY <1>1, <2>1
<1>5. ASSUME NEW d \in HitsOf(S), NEW e \in HitsOf(S), RunOf(S, partition, d).days = RunOf(S, partition, e).days
      PROVE  RunOf(S, partition, d) = RunOf(S, partition, e)
  <2>1. \A x : RunOf(S, partition, x).days = IslandOf(S, partition, x)
    BY DEF RunOf
  <2>2. IslandOf(S, partition, d) = IslandOf(S, partition, e)
    BY <1>5, <2>1
  <2>3. d \in IslandOf(S, partition, d)
    BY DEF IslandOf, RunAt, Clear, HitsOf, Of
  <2>4. \A x \in IslandOf(S, partition, e) : partition[x] = partition[e]
    BY DEF IslandOf, RunAt, HitsOf, Of
  <2>5. partition[d] = partition[e]
    BY <2>2, <2>3, <2>4
  <2>6. QED
    BY <2>2, <2>5 DEF RunOf
<1>6. \A r, s \in runs : r.days = s.days => r = s
  <2> HIDE DEF runs
  <2>1. QED
    BY <1>1, <1>5
<1> HIDE DEF runs
<1>7. Settled(Told(runs, limit)) = Told(Settled(runs), limit)
  BY <1>3, <1>4, <1>6, ToldOfSettled
<1>8. QED
  BY <1>7 DEF runs

\* What is told of any games there can be is the streaks there are.
LEMMA StreaksAnswer == ASSUME GamesInv PROVE StreaksAreTrue
<1> DEFINE n == Len(games)
           P == NarrowedPlayed
           E == UnseenDays
<1>1. n \in Nat /\ DOMAIN games = 1..n
  BY TheGames
<1>2. P \in SUBSET (1..n) /\ E \in SUBSET (1..n) /\ \A x \in E : games[x].came # "hit"
  BY <1>1 DEF NarrowedPlayed, UnseenDays, DaysOf
<1>3. P = {d \in DaysOf({"hit", "miss"}) : games[d].within}
  BY DEF NarrowedPlayed
<1> HIDE DEF P, E
<1>4. ReadStreak = Told(TrueRuns(P, E), NamedRuns)
  <2> DEFINE S == P \cup E
             him == [d \in S |-> "him"]
  <2>1. DOMAIN RowsOn(S) = S
    BY DEF RowsOn
  <2>2. S \in SUBSET (1..n) /\ DOMAIN him = S /\ \A x \in S : him[x] \in {"him"}
    BY <1>2
  <2>3. ReadStreak = Settled(Told(RunsOf(RowsOn(S), him), NamedRuns))
    <3>1. PlayerStreakRows = RowsOn(S)
      BY DEF PlayerStreakRows, P, E
    <3>2. QED
      BY <2>1, <3>1 DEF ReadStreak
  <2>4. {x \in P : him[x] = "him"} = P /\ {x \in E : him[x] = "him"} = E
    OBVIOUS
  <2> HIDE DEF him
  <2>5. Settled(RunsOf(RowsOn(P \cup E), him))
          = UNION {TrueRuns({x \in P : him[x] = k}, {x \in E : him[x] = k}) : k \in {"him"}}
    <3>1. DOMAIN him = P \cup E /\ \A x \in P \cup E : him[x] \in {"him"}
      BY <2>2
    <3> HIDE DEF S
    <3> DEFINE K == {"him"}
    <3>2. \A x \in P \cup E : him[x] \in K
      BY <3>1
    <3> HIDE DEF K
    <3>3. Settled(RunsOf(RowsOn(P \cup E), him)) = RunsByPart(P, E, him, K)
      BY <1>1, <1>2, <3>1, <3>2, IslandsAreTheRuns
    <3>4. QED
      BY <3>3 DEF K, RunsByPart
  <2>6. Settled(RunsOf(RowsOn(S), him)) = TrueRuns(P, E)
    <3>1. UNION {TrueRuns({x \in P : him[x] = k}, {x \in E : him[x] = k}) : k \in {"him"}}
            = TrueRuns({x \in P : him[x] = "him"}, {x \in E : him[x] = "him"})
      OBVIOUS
    <3>2. QED
      BY <2>4, <2>5, <3>1
  <2> HIDE DEF S
  <2>7. Settled(Told(RunsOf(RowsOn(S), him), NamedRuns)) = Told(Settled(RunsOf(RowsOn(S), him)), NamedRuns)
    BY <1>1, <2>2, ToldIslands, ZenonT(60)
  <2>8. QED
    BY <2>3, <2>6, <2>7
<1>5. ReadTeamStreak = Told(UNION {TrueRuns({d \in P : SeasonOf(d) = s}, {}) : s \in {1, 2}}, NamedRuns)
  <2> DEFINE rows == RowsOn(P)
             seasons == [d \in DOMAIN rows |-> rows[d].season]
  <2>1. DOMAIN rows = P /\ \A d \in P : rows[d].season = SeasonOf(d)
    BY DEF RowsOn
  <2>2. ReadTeamStreak = Settled(Told(RunsOf(rows, seasons), NamedRuns))
    <3>1. TeamStreakRows = rows
      BY <1>3 DEF TeamStreakRows
    <3> HIDE DEF rows
    <3>2. QED
      BY <3>1 DEF ReadTeamStreak
  <2> HIDE DEF rows
  <2>3. DOMAIN seasons = P /\ \A d \in P : seasons[d] = SeasonOf(d) /\ seasons[d] \in {1, 2}
    BY <2>1 DEF SeasonOf
  <2> HIDE DEF seasons
  <2>4. Settled(RunsOf(RowsOn(P \cup {}), seasons))
          = UNION {TrueRuns({x \in P : seasons[x] = k}, {x \in {} : seasons[x] = k}) : k \in {1, 2}}
    <3>1. {} \in SUBSET (1..n) /\ (\A x \in {} : games[x].came # "hit") /\ DOMAIN seasons = P \cup {}
          /\ \A x \in P \cup {} : seasons[x] \in {1, 2}
      BY <2>3
    <3> DEFINE K == {1, 2}
               none == {}
    <3>2. /\ \A x \in P \cup none : seasons[x] \in K
          /\ none \in SUBSET (1..n) /\ DOMAIN seasons = P \cup none /\ \A x \in none : games[x].came # "hit"
      BY <3>1
    <3> HIDE DEF K, none
    <3>3. Settled(RunsOf(RowsOn(P \cup none), seasons)) = RunsByPart(P, none, seasons, K)
      BY <1>1, <1>2, <3>2, IslandsAreTheRuns
    <3>4. QED
      BY <3>3 DEF K, none, RunsByPart
  <2>5. P \cup {} = P /\ \A k : {x \in P : seasons[x] = k} = {d \in P : SeasonOf(d) = k} /\ {x \in {} : seasons[x] = k} = {}
    BY <2>3
  <2>6. Settled(RunsOf(rows, seasons)) = UNION {TrueRuns({d \in P : SeasonOf(d) = s}, {}) : s \in {1, 2}}
    BY <2>4, <2>5 DEF rows
  <2>7. Settled(Told(RunsOf(RowsOn(P), seasons), NamedRuns)) = Told(Settled(RunsOf(RowsOn(P), seasons)), NamedRuns)
    BY <1>1, <1>2, <2>3, ToldIslands, ZenonT(60)
  <2>8. QED
    BY <2>2, <2>6, <2>7 DEF rows
<1>6. QED
  BY <1>4, <1>5 DEF StreaksAreTrue, P, E

\* Whatever games there are of two seasons, and wherever he was traded, each streak
\* told is maximal and among the longest, no game seen to miss lies within it and
\* none unseen of a spell of his, and it is said to be going on only where nothing
\* seen follows it in the season of today: numbering the islands of the rows
\* (query/history's streaks) finds the runs.
THEOREM StreaksAreTold == StreaksSpec => []StreaksAreTrue
<1>1. StreaksInit => GamesInv
  BY StreaksAssumption DEF StreaksInit, GamesInv, StreaksAssumption
<1>2. GamesInv /\ [StreaksNext]_streakVars => GamesInv'
  <2>1. ASSUME GamesInv, PlayGame PROVE GamesInv'
    <3>1. PICK game \in GameKinds : games' = Append(games, game)
      BY <2>1 DEF PlayGame
    <3>2. Len(games') = Len(games) + 1 /\ games' \in Seq(GameKinds) /\ Len(games) \in Nat
      BY <2>1, <3>1 DEF GamesInv
    <3>3. QED
      BY <2>1, <3>2, StreaksAssumption DEF PlayGame, GamesInv, StreaksAssumption
  <2>2. ASSUME GamesInv, UNCHANGED streakVars PROVE GamesInv'
    BY <2>2 DEF GamesInv, streakVars
  <2>3. QED
    BY <2>1, <2>2 DEF StreaksNext, SeasonsEnd
<1>3. GamesInv => StreaksAreTrue
  BY StreaksAnswer
<1>4. QED
  BY <1>1, <1>2, <1>3, PTL DEF StreaksSpec

-----------------------------------------------------------------------------
(***************************************************************************)
(* Figures of a part of a game, and how far off they are said to be.        *)
(***************************************************************************)

\* What a load leaves: the warehouse has its check of the plays once each table
\* it is built from has a game, and it is of what is loaded then.
PeriodsInv ==
  /\ stat \in {"points", "assists"}
  /\ did \in [PlayedGames -> [Periods -> 0..MaxInAPeriod]]
  /\ held \in [PlayedGames -> [Periods -> 0..MaxInAPeriod]]
  /\ stored \in SUBSET PlayedGames
  /\ loaded \in [PeriodTables -> SUBSET PlayedGames]
  /\ loaded["shot_chart"] \subseteq stored /\ loaded["plays"] \subseteq stored
  /\ checked \in BOOLEAN
  /\ checked => gaps = PlaysComplete(loaded) /\ \A t \in PeriodTables : loaded[t] # {}

\* The sum the code makes is the sum the lemmas are about.
LEMMA SumOverIs == ASSUME NEW f, NEW S PROVE SumOver(f, S) = SumIn(f, S)
BY DEF SumOver, SumIn

\* What a game's figures of some periods and of the others are off by is what the
\* whole of it is.
LEMMA OffSplits ==
  ASSUME PeriodsInv, NEW g \in PlayedGames, NEW periods \in SUBSET Periods
  PROVE  /\ Off(g, periods) \in Int /\ Off(g, Periods \ periods) \in Int /\ Off(g, Periods) \in Int
         /\ Off(g, Periods) = Off(g, periods) + Off(g, Periods \ periods)
<1> DEFINE others == Periods \ periods
<1>1. IsFiniteSet(Periods) /\ IsFiniteSet(periods) /\ IsFiniteSet(others)
  BY PeriodsAssumption, FS_Subset
<1>2. \A p \in Periods : did[g][p] \in Int /\ held[g][p] \in Int
  <2>1. did[g] \in [Periods -> 0..MaxInAPeriod] /\ held[g] \in [Periods -> 0..MaxInAPeriod]
    BY DEF PeriodsInv
  <2>2. QED
    BY <2>1
<1>3. /\ SumOver(did[g], Periods) = SumOver(did[g], periods) + SumOver(did[g], others)
      /\ SumOver(held[g], Periods) = SumOver(held[g], periods) + SumOver(held[g], others)
  BY <1>1, <1>2, SumSplit, SumOverIs
<1>4. /\ SumOver(did[g], Periods) \in Int /\ SumOver(did[g], periods) \in Int
      /\ SumOver(did[g], others) \in Int
      /\ SumOver(held[g], Periods) \in Int /\ SumOver(held[g], periods) \in Int
      /\ SumOver(held[g], others) \in Int
  BY <1>1, <1>2, SumType, SumOverIs
<1>5. CASE g \in loaded[LineTable]
  <2>1. \A S : Off(g, S) = SumOver(held[g], S) - SumOver(did[g], S)
    BY <1>5 DEF Off, PeriodLine
  <2>2. QED
    BY <1>3, <1>4, <2>1
<1>6. CASE g \notin loaded[LineTable]
  <2>1. \A S : Off(g, S) = 0 - SumOver(did[g], S)
    BY <1>6 DEF Off, PeriodLine
  <2>2. QED
    BY <1>3, <1>4, <2>1
<1>7. QED
  BY <1>5, <1>6

\* How far a game's figure is from what he did, at most: what its check says.
LEMMA GameIsWithinItsGap ==
  ASSUME PeriodsInv, checked = TRUE, NEW g \in DOMAIN gaps, NEW periods \in SUBSET Periods,
         ~MadeUpFor(g, periods)
  PROVE  /\ gaps[g] \in Int /\ Off(g, periods) \in Int
         /\ (gaps[g] >= 0 => - gaps[g] <= Off(g, periods) /\ Off(g, periods) <= gaps[g])
         /\ (gaps[g] < 0 => gaps[g] <= Off(g, periods) /\ Off(g, periods) <= - gaps[g])
<1>1. g \in PlayedGames /\ gaps[g] = SumOver(did[g], Periods) - PeriodLine(g, Periods, loaded)
  BY DEF PeriodsInv, PlaysComplete
<1>2. /\ Off(g, periods) \in Int /\ Off(g, Periods \ periods) \in Int /\ Off(g, Periods) \in Int
      /\ Off(g, Periods) = Off(g, periods) + Off(g, Periods \ periods)
  BY <1>1, OffSplits
<1>3. SumOver(did[g], Periods) \in Int /\ PeriodLine(g, Periods, loaded) \in Int
  <2>1. did[g] \in [Periods -> 0..MaxInAPeriod] /\ held[g] \in [Periods -> 0..MaxInAPeriod]
    BY <1>1 DEF PeriodsInv
  <2>2. \A p \in Periods : did[g][p] \in Int /\ held[g][p] \in Int
    BY <2>1
  <2>3. SumOver(did[g], Periods) \in Int /\ SumOver(held[g], Periods) \in Int
    BY <2>2, PeriodsAssumption, SumType, SumOverIs
  <2>4. QED
    BY <2>3 DEF PeriodLine
<1>4. gaps[g] = - Off(g, Periods)
  BY <1>1, <1>3 DEF Off
<1>5. /\ ~(Off(g, periods) < 0 /\ Off(g, Periods \ periods) > 0)
      /\ ~(Off(g, periods) > 0 /\ Off(g, Periods \ periods) < 0)
  BY DEF MadeUpFor
<1>6. QED
  BY <1>2, <1>4, <1>5

\* What is told of any load is within the bound that is told with it.
LEMMA PeriodsAnswer == ASSUME PeriodsInv PROVE PeriodFiguresAreBounded
<1> SUFFICES ASSUME NEW periods \in SUBSET Periods \ {{}}, ReadPeriods(periods).kind = "answered"
             PROVE  LET answer == ReadPeriods(periods)
                        recorded == {g \in answer.kept : Recorded(g)}
                        off == SumOver([g \in recorded |-> answer.figure[g] - SumOver(did[g], periods)], recorded)
                    IN  /\ answer.rebuilt \cap recorded = {}
                        /\ (\A g \in recorded : ~MadeUpFor(g, periods)) => - answer.bound <= off /\ off <= answer.bound
  BY DEF PeriodFiguresAreBounded, Within, OffBy, Checked
<1> DEFINE rows == PeriodRows(loaded)
           kept == {g \in rows : ~Unseparable(g)}
           recorded == {g \in kept : Recorded(g)}
           missing == {g \in kept \ (kept \ DOMAIN gaps) : gaps[g] # 0}
           size(g) == IF gaps[g] < 0 THEN - gaps[g] ELSE gaps[g]
           sizes == [g \in missing |-> size(g)]
           figure == [g \in kept |-> PeriodLine(g, periods, loaded)]
           offs == [g \in recorded |-> figure[g] - SumOver(did[g], periods)]
<1>1. /\ ReadPeriods(periods).kept = kept /\ ReadPeriods(periods).figure = figure
      /\ ReadPeriods(periods).rebuilt = kept \ DOMAIN gaps
      /\ ReadPeriods(periods).bound = SumOver(sizes, missing)
      /\ checked = TRUE \/ rows = {}
  <2>1. ReadPeriods(periods) # Refused
    BY DEF Refused
  <2>2. ~(\/ ~checked /\ rows # {}
          \/ rows # {} /\ kept = {}
          \/ TooShort([kept |-> kept, rebuilt |-> kept \ DOMAIN gaps]))
    <3> HIDE DEF size
    <3>1. QED
      BY <2>1, Zenon DEF ReadPeriods, Counted
  <2>3. ReadPeriods(periods) = [ kind    |-> "answered",
             kept    |-> kept,
             rebuilt |-> kept \ DOMAIN gaps,
             figure  |-> figure,
             bound   |-> SumOver([g \in Missing([kept |-> kept, rebuilt |-> kept \ DOMAIN gaps]) |-> size(g)], Missing([kept |-> kept, rebuilt |-> kept \ DOMAIN gaps])) ]
    BY <2>2, Zenon DEF ReadPeriods, Counted
  <2>4. Missing([kept |-> kept, rebuilt |-> kept \ DOMAIN gaps]) = missing
    BY DEF Missing
  <2>5. checked = TRUE \/ rows = {}
    BY <2>2 DEF PeriodsInv
  <2>6. ReadPeriods(periods).bound = SumOver([g \in missing |-> size(g)], missing)
    <3>1. PICK m : m = Missing([kept |-> kept, rebuilt |-> kept \ DOMAIN gaps])
      OBVIOUS
    <3>2. ReadPeriods(periods) = [ kind    |-> "answered",
             kept    |-> kept,
             rebuilt |-> kept \ DOMAIN gaps,
             figure  |-> figure,
             bound   |-> SumOver([g \in m |-> size(g)], m) ]
      BY <2>3, <3>1, Zenon
    <3>3. m = missing
      BY <2>4, <3>1, Zenon
    <3> HIDE DEF kept, figure, missing, size
    <3>4. ReadPeriods(periods).bound = SumOver([g \in m |-> size(g)], m)
      BY <3>2
    <3>5. QED
      BY <3>3, <3>4
  <2> HIDE DEF kept, figure, sizes, missing, size
  <2>7. QED
    BY <2>3, <2>5, <2>6 DEF sizes
<1>2. kept \subseteq PlayedGames /\ IsFiniteSet(kept) /\ IsFiniteSet(recorded) /\ IsFiniteSet(missing)
  <2>1. kept \subseteq PlayedGames /\ recorded \subseteq kept /\ missing \subseteq kept
    BY DEF PeriodRows
  <2>2. QED
    BY <2>1, PeriodsAssumption, FS_Subset
<1>3. recorded \subseteq DOMAIN gaps /\ missing \subseteq recorded
  <2>1. CASE rows = {}
    BY <2>1
  <2>2. CASE checked = TRUE
    <3>1. DOMAIN gaps = {x \in PlayedGames : Covered(x, loaded) /\ Recorded(x)}
      BY <2>2 DEF PeriodsInv, PlaysComplete
    <3>2. QED
      BY <3>1 DEF PeriodRows
  <2>3. QED
    BY <1>1, <2>1, <2>2
<1>4. ASSUME \A g \in recorded : ~MadeUpFor(g, periods)
      PROVE  - SumIn(sizes, missing) <= SumIn(offs, recorded) /\ SumIn(offs, recorded) <= SumIn(sizes, missing)
  <2>1. ASSUME NEW g \in recorded
        PROVE  /\ offs[g] \in Int /\ gaps[g] \in Int /\ size(g) \in Int
               /\ - size(g) <= offs[g] /\ offs[g] <= size(g)
    <3>1. checked = TRUE /\ g \in DOMAIN gaps /\ periods \in SUBSET Periods /\ ~MadeUpFor(g, periods)
      BY <1>1, <1>3, <1>4
    <3>2. /\ gaps[g] \in Int /\ Off(g, periods) \in Int
          /\ (gaps[g] >= 0 => - gaps[g] <= Off(g, periods) /\ Off(g, periods) <= gaps[g])
          /\ (gaps[g] < 0 => gaps[g] <= Off(g, periods) /\ Off(g, periods) <= - gaps[g])
      BY <3>1, GameIsWithinItsGap
    <3>3. offs[g] = Off(g, periods)
      BY DEF Off
    <3> HIDE DEF offs, recorded
    <3>4. QED
      BY <3>2, <3>3
  <2>2. ASSUME NEW g \in recorded, g \notin missing PROVE offs[g] = 0
    <3>1. gaps[g] = 0
      BY <1>3, <2>2
    <3>2. size(g) = 0
      BY <3>1
    <3>3. offs[g] \in Int /\ - size(g) <= offs[g] /\ offs[g] <= size(g)
      BY <2>1
    <3> HIDE DEF size, offs
    <3>4. QED
      BY <3>2, <3>3
  <2>3. \A g \in missing : /\ offs[g] \in Int /\ sizes[g] \in Int
                           /\ - sizes[g] <= offs[g] /\ offs[g] <= sizes[g]
    <3>1. \A g \in missing : sizes[g] = size(g)
      BY DEF sizes
    <3> HIDE DEF sizes, offs, size, missing, recorded
    <3>2. QED
      BY <1>3, <2>1, <3>1
  <2> HIDE DEF kept, recorded, missing, size, sizes, figure, offs, rows
  <2>4. SumIn(offs, recorded) = SumIn(offs, missing)
    BY <1>2, <1>3, <2>1, <2>2, SumOverPart
  <2>5. - SumIn(sizes, missing) <= SumIn(offs, missing) /\ SumIn(offs, missing) <= SumIn(sizes, missing)
    BY <1>2, <2>3, SumWithin
  <2>6. QED
    BY <2>4, <2>5
<1> HIDE DEF kept, recorded, missing, size, sizes, figure, offs, rows
<1>5. (kept \ DOMAIN gaps) \cap recorded = {}
  BY <1>3
<1>6. /\ {g \in ReadPeriods(periods).kept : Recorded(g)} = recorded
      /\ [g \in recorded |-> ReadPeriods(periods).figure[g] - SumOver(did[g], periods)] = offs
  BY <1>1 DEF recorded, offs
<1>7. /\ ReadPeriods(periods).rebuilt \cap recorded = {}
      /\ (\A g \in recorded : ~MadeUpFor(g, periods)) =>
            /\ - ReadPeriods(periods).bound <= SumOver(offs, recorded)
            /\ SumOver(offs, recorded) <= ReadPeriods(periods).bound
  BY <1>1, <1>4, <1>5, SumOverIs
<1>8. QED
  BY <1>6, <1>7, Zenon

\* No pull, load or reading of plays breaks what a load leaves.
LEMMA PeriodsInvIsKept == PeriodsInv /\ [PeriodsNext]_periodVars => PeriodsInv'
<1> SUFFICES ASSUME PeriodsInv, [PeriodsNext]_periodVars PROVE PeriodsInv'
  OBVIOUS
<1>1. CASE UNCHANGED periodVars
  <2>1. PlaysComplete(loaded)' = PlaysComplete(loaded)
    BY <1>1 DEF periodVars, PlaysComplete, Covered, Recorded, PeriodLine, LineTable
  <2>2. QED
    BY <1>1, <2>1 DEF periodVars, PeriodsInv
<1>2. ASSUME NEW tables \in SUBSET PeriodTables, LoadTables(tables) PROVE PeriodsInv'
  <2> DEFINE now == [t \in PeriodTables |-> IF t \notin tables THEN loaded[t]
                                            ELSE IF t = "player_box_stats" THEN PlayedGames ELSE stored]
  <2>1. /\ loaded' = now
        /\ UNCHANGED << stat, did, held, boxLine, unvalued, stored >>
        /\ IF \A t \in PeriodTables : now[t] # {}
           THEN checked' = TRUE /\ gaps' = PlaysComplete(now)
           ELSE UNCHANGED << checked, gaps >>
    BY <1>2, Zenon DEF LoadTables
  <2>2. now \in [PeriodTables -> SUBSET PlayedGames] /\ now["shot_chart"] \subseteq stored /\ now["plays"] \subseteq stored
    BY DEF PeriodsInv, PeriodTables
  <2>4. gaps' = PlaysComplete(now) => gaps' = PlaysComplete(loaded)'
    <3>1. PlaysComplete(now) = PlaysComplete(loaded)'
      <4> HIDE DEF now
      <4>1. QED
        BY <2>1 DEF PlaysComplete, Covered, Recorded, PeriodLine, LineTable
    <3>2. QED
      BY <3>1
  <2>5. CASE \A t \in PeriodTables : now[t] # {}
    <3>1. checked' = TRUE /\ gaps' = PlaysComplete(loaded)'
      <4> HIDE DEF now
      <4>1. QED
        BY <2>1, <2>4, <2>5
    <3> HIDE DEF now
    <3>2. QED
      BY <2>1, <2>2, <2>5, <3>1 DEF PeriodsInv
  <2>6. CASE ~(\A t \in PeriodTables : now[t] # {})
    <3>1. UNCHANGED << checked, gaps >> /\ \E t \in PeriodTables : now[t] = {}
      <4> HIDE DEF now
      <4>1. QED
        BY <2>1, <2>6
    <3>2. checked = TRUE => FALSE
      <4>1. \A t \in PeriodTables : loaded[t] # {} => now[t] # {}
        BY DEF PeriodsInv, PeriodTables
      <4> HIDE DEF now
      <4>2. QED
        BY <2>6, <4>1 DEF PeriodsInv
    <3>3. checked' = FALSE
      <4>1. checked = FALSE
        BY <3>2 DEF PeriodsInv
      <4>2. QED
        BY <3>1, <4>1
    <3> HIDE DEF now
    <3>4. QED
      BY <2>1, <2>2, <3>3 DEF PeriodsInv
  <2>7. QED
    BY <2>5, <2>6
<1>3. ASSUME NEW g \in PlayedGames, FetchPlays(g) PROVE PeriodsInv'
  <2>1. PlaysComplete(loaded)' = PlaysComplete(loaded)
    BY <1>3 DEF FetchPlays, PlaysComplete, Covered, Recorded, PeriodLine, LineTable
  <2>2. QED
    BY <1>3, <2>1 DEF FetchPlays, PeriodsInv
<1>4. QED
  BY <1>1, <1>2, <1>3 DEF PeriodsNext

\* Whatever he did in each period, whatever the plays hold of it, and whatever was
\* pulled without them, loaded in part or left out: a figure of some quarters is
\* off by no more than the sum of the gaps the answer admits to, unless a game's
\* plays make up in the other quarters for what they miss in these; so a figure
\* of the whole game always is.  Only a rebuilt game goes unchecked.
THEOREM PeriodsAreBounded == PeriodsSpec => []PeriodFiguresAreBounded
<1>1. PeriodsInit => PeriodsInv
  BY PeriodsAssumption DEF PeriodsInit, PeriodsInv, PeriodTables
<1>2. PeriodsInv => PeriodFiguresAreBounded
  BY PeriodsAnswer
<1>3. QED
  BY <1>1, <1>2, PeriodsInvIsKept, PTL DEF PeriodsSpec

-----------------------------------------------------------------------------
(***************************************************************************)
(* The planner, and what the compilers narrow by.                           *)
(***************************************************************************)

\* The shape of a team's winning and losing runs.
RunsWon == << "team_games", "runs", "won" >>

\* A shape's row is one the tables have for it.
LEMMA RowsAre == ASSUME NEW s \in DOMAIN Rows PROVE \E r \in AllRows : r[1] = s /\ Rows[s] = r[2]
BY DEF Rows, Shapes

\* No table of a player's has a team's runs, sum or season.
LEMMA PlayersShapes ==
  ASSUME NEW r \in GamesRows \union SeasonRows
  PROVE  r[1] # RunsWon /\ r[1] # TeamSum /\ r[1][1] \notin {"team_seasons", "team_snapshots"}
<1>1. CASE r \in GamesRows
  <2>1. r[1][1] \in {"player_games", "player_periods"}
    BY <1>1 DEF GamesRows
  <2>2. QED
    BY <2>1 DEF RunsWon, TeamSum
<1>2. CASE r \in SeasonRows
  <2>1. r[1][1] \in {"player_seasons", "netpoints", "shots"}
    BY <1>2 DEF SeasonRows
  <2>2. QED
    BY <2>1 DEF RunsWon, TeamSum
<1>3. QED
  BY <1>1, <1>2

\* Of the teams', only a season's row takes a rate and only one is of runs.
LEMMA TeamsShapes ==
  ASSUME NEW r \in TeamRows
  PROVE  /\ r[1] # TeamSum
         /\ r[1][1] \in {"team_seasons", "team_snapshots"} => \E cells : r[2] = SeasonRow(cells)
         /\ r[1][2] = "runs" => r[1] = RunsWon
         /\ r[1] = RunsWon => r[2] = RunsRow
<1>1. r[1][3] # "none"
  BY DEF TeamRows
<1>2. r[1][1] \in {"team_seasons", "team_snapshots"} => \E cells : r[2] = SeasonRow(cells)
  BY DEF TeamRows
<1>3. r[1][2] = "runs" => r[1] = RunsWon
  BY DEF TeamRows, RunsWon
<1>4. r[1][2] = "runs" => r[2] = RunsRow
  BY DEF TeamRows
<1>5. QED
  BY <1>1, <1>2, <1>3, <1>4 DEF RunsWon, TeamSum

\* A team's runs have that row, and so has its sum none.
LEMMA TheRunsRow ==
  /\ RunsWon \in Shapes(TeamRows) /\ RunsWon \in DOMAIN Rows /\ Rows[RunsWon] = RunsRow
  /\ TeamSum \notin DOMAIN Rows
  /\ Shapes(TeamRows) \subseteq DOMAIN Rows
<1>1. << RunsWon, RunsRow >> \in TeamRows
  BY DEF TeamRows, RunsWon
<1>2. RunsWon \in Shapes(TeamRows)
  BY <1>1 DEF Shapes
<1>3. DOMAIN Rows = Shapes(AllRows) /\ Shapes(TeamRows) \subseteq Shapes(AllRows)
  BY DEF Rows, Shapes, AllRows
<1>4. PICK r \in AllRows : r[1] = RunsWon /\ Rows[RunsWon] = r[2]
  BY <1>2, <1>3, RowsAre
<1>5. r \in TeamRows
  BY <1>4, PlayersShapes DEF AllRows
<1>6. Rows[RunsWon] = RunsRow
  BY <1>4, <1>5, TeamsShapes
<1>7. TeamSum \notin DOMAIN Rows
  <2>1. \A q \in AllRows : q[1] # TeamSum
    BY PlayersShapes, TeamsShapes DEF AllRows
  <2>2. QED
    BY <1>3, <2>1 DEF Shapes
<1>8. QED
  BY <1>2, <1>3, <1>6, <1>7

\* A team's own season takes a rate and no other cell.
LEMMA SeasonsTake ==
  ASSUME NEW s \in DOMAIN Rows, IsSeasons(s)
  PROVE  Taken(s) = Rate
<1>1. PICK r \in AllRows : r[1] = s /\ Rows[s] = r[2]
  BY RowsAre
<1>2. r[1][1] \in {"team_seasons", "team_snapshots"}
  BY <1>1 DEF IsSeasons, Relation
<1>3. r \in TeamRows
  BY <1>2, PlayersShapes DEF AllRows
<1>4. PICK cells : r[2] = SeasonRow(cells)
  BY <1>2, <1>3, TeamsShapes
<1> DEFINE row == Unstated(cells)
<1>5. "taken" \in DOMAIN row
  BY DEF Unstated
<1> HIDE DEF row
<1>6. "taken" \in DOMAIN Allowing(row, Rate) /\ Allowing(row, Rate).taken = Rate
  BY <1>5 DEF Allowing
<1>7. Declining(Allowing(row, Rate), "read").taken = Rate
  BY <1>6 DEF Declining
<1>8. SeasonRow(cells).taken = Rate
  BY <1>7 DEF SeasonRow, row
<1>9. QED
  BY <1>1, <1>4, <1>8 DEF Taken

\* What a team's runs are narrowed by.
LEMMA RunsRowIs ==
  /\ RunsRow.unstated = Whole /\ RunsRow.refused = Whole \ {"both"} /\ RunsRow.taken = {}
  /\ RunsRow.player = {"companion", "split", "season_n", "line", "game_n"} /\ RunsRow.subject = {"opponent", "venue"}
  /\ RunsRow.sides = FALSE
BY DEF RunsRow

\* What a shape's reader is let answer, it says.
LEMMA ReaderSays ==
  ASSUME asked \in Question, NEW s \in DOMAIN Rows, s # RunsWon, CellsUnhonored(s) = {}
  PROVE  Asked \subseteq ReaderReads(s)
<1>1. asked.cells \subseteq CellsStated(s)
  BY DEF CellsUnhonored
<1>2. ReaderReads(s) = CellsStated(s) \union (IF RowOf(s).sides THEN {} ELSE {Halves})
  BY DEF ReaderReads, RunsWon
<1>3. asked.halves => "split" \in CellsStated(s)
  BY <1>1 DEF Question
<1>4. ASSUME asked.halves PROVE ~RowOf(s).sides
  <2>1. SUFFICES ASSUME RowOf(s).sides PROVE FALSE
    OBVIOUS
  <2>2. Halves \in CellsUnhonored(s)
    BY <1>3, <1>4, <2>1, Zenon DEF CellsUnhonored
  <2>3. QED
    BY <2>2
<1>5. QED
  BY <1>1, <1>2, <1>4 DEF Asked

\* Of a team's runs, what the planner let through is read, but for a round, a
\* stretch of games and both types at once.
LEMMA RunsSay ==
  ASSUME asked \in Question, asked.shape = RunsWon, ~CellsDeclined(RunsWon), asked.cells \subseteq TeamRelation
  PROVE  Asked \ TeamRunReads \subseteq {"both", "round", "situation"}
<1>1. RowOf(RunsWon) = RunsRow
  BY TheRunsRow DEF RowOf
<1>2. asked.relation = "team"
  <2>1. IsTeams(RunsWon) /\ ~IsSeasons(RunsWon)
    BY TheRunsRow DEF IsTeams, IsSeasons, Relation, RunsWon
  <2>2. ~IsSeasons(asked.shape) /\ Relation(asked.shape) \notin {"netpoints", "shots"}
    BY <2>1 DEF RunsWon, Relation
  <2>3. IsTeams(asked.shape) /\ ~IsSeasons(asked.shape)
    BY <2>1
  <2>4. QED
    BY <2>2, <2>3 DEF Question
<1>3. /\ asked.cells \cap {"companion", "split", "season_n", "line", "game_n"} = {}
      /\ ~asked.team => asked.cells \cap {"opponent", "venue"} = {}
      /\ asked.cells \cap (Whole \ {"both"}) = {}
  BY <1>1, <1>2, RunsRowIs DEF CellsDeclined
<1>4. ~asked.halves
  BY <1>3 DEF Question
<1>5. Asked = asked.cells
  BY <1>4 DEF Asked
<1>6. QED
  BY <1>3, <1>5 DEF TeamRunReads, TeamRelation, TeamCuts, Cuts, Span, Whole

\* And of its sum, but for the cells that narrow nothing.
LEMMA SumSays ==
  ASSUME asked \in Question, asked.cells \subseteq TeamRelation \union Rate, NEW fromGames \in BOOLEAN,
         ~((TeamNarrowed \/ fromGames) /\ TeamMixed /\ "period" \in asked.cells)
  PROVE  Asked \ TeamSumReads(fromGames) \subseteq {"career", "both", "round", "situation", "rate"}
<1>1. "split" \notin TeamRelation \union Rate
  BY DEF TeamRelation, TeamCuts, Cuts, Span, Rate
<1>2. Asked = asked.cells
  BY <1>1 DEF Asked, Question
<1>3. TeamRelation \union Rate =
        {"window", "period", "opponent", "venue", "date", "situation", "game_n", "round", "career", "range", "both", "rate"}
  BY DEF TeamRelation, TeamCuts, Cuts, Span, Rate
<1>4. CASE ~(TeamNarrowed \/ fromGames)
  BY <1>2, <1>3, <1>4 DEF TeamNarrowed, TeamSumReads
<1>5. CASE (TeamNarrowed \/ fromGames) /\ ~TeamMixed
  BY <1>2, <1>3, <1>5 DEF TeamSumReads, TeamRelation, TeamCuts, Cuts, Span
<1>6. CASE (TeamNarrowed \/ fromGames) /\ TeamMixed /\ asked.cells \intersect {"range", "situation"} = {}
  <2>1. asked.cells \cap {"period", "date", "career", "game_n", "range", "situation"} = {}
    BY <1>6 DEF TeamMixed
  <2>2. TeamSumReads(fromGames) = {"both", "opponent", "venue", "window"}
    BY <1>6 DEF TeamSumReads
  <2>3. QED
    BY <1>2, <1>3, <2>1, <2>2
<1>7. CASE (TeamNarrowed \/ fromGames) /\ TeamMixed /\ asked.cells \intersect {"range", "situation"} # {}
  BY <1>2, <1>7 DEF TeamSumReads, Rate
<1>8. QED
  BY <1>4, <1>5, <1>6, <1>7

\* The player compiler reads every cell it is let narrow by.
LEMMA CompilerSays ==
  ASSUME asked \in Question, CheckRelationScoping({})
  PROVE  Asked \subseteq CompilerReads
<1>1. asked.cells \subseteq Honored({})
  BY DEF CheckRelationScoping
<1>2. TeamRelation \subseteq PlayerRelation
  BY DEF TeamRelation, TeamCuts, PlayerRelation, Window
<1>3. CASE asked.relation = "everyone"
  <2>1. Honored({}) = PlayerRelation \ {"both", "date", "game_n", "companion", "split", "tenure", "window"}
    BY <1>3 DEF Honored
  <2>2. Honored({}) \subseteq CompilerReads
    BY <1>3, <2>1 DEF CompilerReads, PlayerRelation, OwnLine, Cuts, Span, Window
  <2>3. QED
    BY <1>1, <2>2 DEF Asked, CompilerReads
<1>4. CASE asked.relation # "everyone"
  <2>1. Honored({}) \subseteq PlayerRelation
    BY <1>2, <1>4 DEF Honored
  <2>2. QED
    BY <1>1, <1>4, <2>1 DEF Asked, CompilerReads
<1>5. QED
  BY <1>3, <1>4

\* Every row of the teams' tables is of a team's games, periods or seasons.
LEMMA TeamsRelations ==
  ASSUME NEW s, IsTeams(s)
  PROVE  s[1] \in {"team_games", "team_periods", "team_seasons", "team_snapshots"}
<1>1. \A r \in TeamRows : r[1][1] \in {"team_games", "team_periods", "team_seasons", "team_snapshots"}
  BY DEF TeamRows
<1>2. TeamSum[1] = "team_games"
  BY DEF TeamSum
<1>3. QED
  BY <1>1, <1>2 DEF IsTeams, Shapes

\* A season's shape is a team's, and its reader is its only answer.
LEMMA SeasonsAreTeams ==
  ASSUME NEW s \in DOMAIN Rows \union {TeamSum}, IsSeasons(s)
  PROVE  s \in DOMAIN Rows /\ IsTeams(s) /\ s \in Only
<1>1. s # TeamSum
  BY DEF IsSeasons, Relation, TeamSum
<1>2. PICK r \in AllRows : r[1] = s
  BY <1>1, RowsAre
<1>3. r \in TeamRows
  BY <1>2, PlayersShapes DEF AllRows, IsSeasons, Relation
<1>4. QED
  BY <1>1, <1>2, <1>3 DEF IsTeams, Shapes, Only

\* Who asks for a team's shape: the team, or the league of a season's line.
LEMMA WhoAsks ==
  ASSUME asked \in Question
  PROVE  /\ asked.shape \in DOMAIN Rows \union {TeamSum}
         /\ IsTeams(asked.shape) /\ ~IsSeasons(asked.shape) => asked.relation = "team"
         /\ IsSeasons(asked.shape) => asked.relation \notin {"player", "everyone"}
<1>1. asked.shape \in DOMAIN Rows \union {TeamSum}
  BY DEF Question
<1>2. CASE IsSeasons(asked.shape)
  <2>1. ~(Relation(asked.shape) \in {"netpoints", "shots"}) /\ Relation(asked.shape) \in {"team_seasons", "team_snapshots"}
    BY <1>2 DEF IsSeasons
  <2>2. asked.relation \in {"team", Relation(asked.shape)}
    BY <1>2, <2>1 DEF Question
  <2>3. QED
    BY <1>1, <1>2, <2>1, <2>2
<1>3. CASE IsTeams(asked.shape) /\ ~IsSeasons(asked.shape)
  <2>1. Relation(asked.shape) \notin {"netpoints", "shots"}
    BY <1>3, TeamsRelations DEF Relation
  <2>2. asked.relation = "team"
    BY <1>3, <2>1 DEF Question
  <2>3. QED
    BY <1>1, <1>3, <2>2
<1>4. QED
  BY <1>1, <1>2, <1>3

\* What holds from the planner to the answer: past the planner nothing the
\* shape's row has it decline is set, a team's shape is the one asked for and
\* let through by the team's list, or a season's with its only reader.
PlanInv ==
  /\ asked \in Question
  /\ step \in {"plan", "reader", "season_first", "compiler", "done"}
  /\ step # "done" => told = Nobody
  /\ step = "plan" => shape = asked.shape
  /\ step \notin {"plan", "done"} =>
       /\ ~CellsDeclined(asked.shape)
       /\ IsTeams(shape) =>
            /\ shape = asked.shape
            /\ \/ asked.relation = "team" /\ CheckRelationScoping(Taken(shape))
               \/ IsSeasons(shape) /\ step = "reader"
  /\ step = "season_first" => IsTeams(shape) /\ IsSeasons(shape)
  /\ OnlyTheTeamCompilerDrops

\* An answer that says all but what a team's compiler may drop.
LEMMA AnswerIsTold ==
  ASSUME PlanInv, NEW who, NEW says, Answer(who, says),
         who # "nobody" => /\ Asked \ says \subseteq {"career", "both", "round", "situation", "rate"}
                           /\ Asked \ says # {} => IsTeams(shape) /\ (who = "team_compiler" \/ shape[2] = "runs")
  PROVE  PlanInv'
<1>1. asked' = asked /\ shape' = shape /\ step' = "done" /\ told' = [by |-> who, says |-> says]
  BY DEF Answer
<1>2. Asked' = Asked
  BY <1>1 DEF Asked
<1>3. Dropped' = IF who = "nobody" THEN {} ELSE Asked \ says
  BY <1>1, <1>2 DEF Dropped
<1>4. IsTeams(shape)' <=> IsTeams(shape)
  BY <1>1 DEF IsTeams
<1>5. OnlyTheTeamCompilerDrops'
  BY <1>1, <1>3, <1>4 DEF OnlyTheTeamCompilerDrops
<1>6. QED
  BY <1>1, <1>5 DEF PlanInv

\* Nothing is dropped before there is an answer.
LEMMA AskIsKept ==
  ASSUME PlanInv, step # "done", NEW who \in {"reader", "season_first", "compiler"}, NEW s, Ask(who, s),
         ~CellsDeclined(asked.shape),
         IsTeams(s) => /\ s = asked.shape
                       /\ \/ asked.relation = "team" /\ CheckRelationScoping(Taken(s))
                          \/ IsSeasons(s) /\ who = "reader",
         who = "season_first" => IsTeams(s) /\ IsSeasons(s)
  PROVE  PlanInv'
<1>1. asked' = asked /\ shape' = s /\ step' = who /\ told' = Nobody
  BY DEF Ask, PlanInv
<1>2. Dropped' = {}
  BY <1>1 DEF Dropped, Nobody
<1>3. OnlyTheTeamCompilerDrops'
  BY <1>2 DEF OnlyTheTeamCompilerDrops
<1>4. ~CellsDeclined(asked.shape)'
  BY <1>1 DEF CellsDeclined, CellsUnhonored, CellsStated, RowOf, IsTeams
<1>5. CheckRelationScoping(Taken(shape))' <=> CheckRelationScoping(Taken(s))
  BY <1>1 DEF CheckRelationScoping, Honored, Taken
<1>6. /\ IsTeams(shape)' <=> IsTeams(s)
      /\ IsSeasons(shape)' <=> IsSeasons(s)
  BY <1>1 DEF IsTeams, IsSeasons, Relation
<1>7. QED
  BY <1>1, <1>3, <1>4, <1>5, <1>6 DEF PlanInv

\* What the planner makes of a point leaves nothing unsaid.
LEMMA PlanPointIsKept == ASSUME PlanInv, PlanPoint PROVE PlanInv'
<1>1. shape = asked.shape /\ step = "plan" /\ asked \in Question
  BY DEF PlanInv, PlanPoint
<1>2. CASE Decline
  BY <1>2, AnswerIsTold DEF Decline
<1>3. CASE /\ ~CellsDeclined(shape) /\ asked.relation \notin {"team", "player", "everyone"} /\ Ask("reader", shape)
  BY <1>1, <1>3, WhoAsks, AskIsKept
<1>4. CASE ~CellsDeclined(shape) /\ PlanTeam
  <2>1. IsSeasons(shape) => IsTeams(shape)
    BY <1>1, WhoAsks, SeasonsAreTeams
  <2>2. CASE CheckRelationScoping(Taken(shape)) /\ Ask(IF IsSeasons(shape) THEN "season_first" ELSE "reader", shape)
    <3>1. asked.relation = "team"
      BY <1>4 DEF PlanTeam
    <3>2. CASE IsSeasons(shape)
      BY <1>1, <1>4, <2>1, <2>2, <3>1, <3>2, AskIsKept
    <3>3. CASE ~IsSeasons(shape)
      BY <1>1, <1>4, <2>2, <3>1, <3>3, AskIsKept
    <3>4. QED
      BY <3>2, <3>3
  <2>3. CASE TeamSeasonPoint(shape) /\ Ask("reader", shape)
    <3>1. IsSeasons(shape)
      BY <2>3 DEF TeamSeasonPoint, IsSeasons, Relation
    <3>2. QED
      BY <1>1, <1>4, <2>3, <3>1, AskIsKept
  <2>4. QED
    BY <1>2, <1>4, <2>2, <2>3 DEF PlanTeam
<1>5. CASE ~CellsDeclined(shape) /\ PlanPlayer
  <2>1. ~IsTeams(shape)
    BY <1>1, <1>5, WhoAsks DEF PlanPlayer
  <2>2. CASE Ask("reader", shape)
    BY <1>1, <1>5, <2>1, <2>2, AskIsKept
  <2>3. ASSUME NEW s, s[1] = "player_games", Ask("reader", s) PROVE PlanInv'
    <3>1. ~IsTeams(s)
      BY <2>3, TeamsRelations
    <3>2. QED
      BY <1>1, <1>5, <2>3, <3>1, AskIsKept
  <2>4. CASE GameLevel
    BY <1>2, <2>3, <2>4 DEF GameLevel
  <2>5. QED
    BY <1>2, <1>5, <2>2, <2>4 DEF PlanPlayer
<1>6. QED
  BY <1>2, <1>3, <1>4, <1>5 DEF PlanPoint

\* A team's runs, past the planner: those asked for, and read as planned.
LEMMA RunsAreSaid ==
  ASSUME PlanInv, step \in {"reader", "compiler"}, shape = RunsWon
  PROVE  IsTeams(shape) /\ Asked \ TeamRunReads \subseteq {"both", "round", "situation"}
<1>1. IsTeams(shape) /\ ~IsSeasons(shape)
  BY TheRunsRow DEF IsTeams, IsSeasons, Relation, RunsWon
<1>2. asked \in Question /\ asked.shape = RunsWon /\ ~CellsDeclined(RunsWon)
      /\ asked.relation = "team" /\ CheckRelationScoping(Taken(RunsWon))
  BY <1>1 DEF PlanInv
<1>3. Taken(RunsWon) = {}
  BY TheRunsRow, RunsRowIs DEF Taken
<1>4. asked.cells \subseteq TeamRelation
  BY <1>2, <1>3 DEF CheckRelationScoping, Honored
<1>5. QED
  BY <1>1, <1>2, <1>4, RunsSay

\* Nor does what a reader answers.
LEMMA ReadIsKept == ASSUME PlanInv, Read PROVE PlanInv'
<1>1. step = "reader" /\ asked \in Question /\ ~CellsDeclined(asked.shape)
  BY DEF PlanInv, Read
<1>2. CASE Routed(shape) /\ CellsUnhonored(shape) = {} /\ Answer("reader", ReaderReads(shape))
  <2>1. CASE shape = RunsWon
    <3>1. ReaderReads(shape) = TeamRunReads
      BY <2>1 DEF ReaderReads, RunsWon
    <3>2. shape[2] = "runs"
      BY <2>1 DEF RunsWon
    <3>3. QED
      BY <1>1, <1>2, <2>1, <3>1, <3>2, RunsAreSaid, AnswerIsTold
  <2>2. CASE shape # RunsWon
    <3>1. Asked \ ReaderReads(shape) = {}
      BY <1>1, <1>2, <2>2, ReaderSays DEF Routed
    <3>2. QED
      BY <1>2, <3>1, AnswerIsTold
  <2>3. QED
    BY <2>1, <2>2
<1>3. CASE shape \notin Only /\ Ask("compiler", shape)
  <2>1. IsTeams(shape) => shape = asked.shape /\ ~IsSeasons(shape)
    BY <1>1, <1>3, WhoAsks, SeasonsAreTeams DEF PlanInv
  <2>2. IsTeams(shape) => asked.relation = "team" /\ CheckRelationScoping(Taken(shape))
    BY <1>1, <2>1 DEF PlanInv
  <2>3. QED
    BY <1>1, <1>3, <2>1, <2>2, AskIsKept
<1>4. CASE Decline
  BY <1>4, AnswerIsTold DEF Decline
<1>5. QED
  BY <1>2, <1>3, <1>4 DEF Read

\* Nor a team's season, read first.
LEMMA ReadSeasonFirstIsKept == ASSUME PlanInv, ReadSeasonFirst PROVE PlanInv'
<1>1. /\ step = "season_first" /\ asked \in Question /\ ~CellsDeclined(asked.shape)
      /\ IsTeams(shape) /\ IsSeasons(shape) /\ shape = asked.shape
      /\ asked.relation = "team" /\ CheckRelationScoping(Taken(shape))
  BY DEF PlanInv, ReadSeasonFirst
<1>2. shape \in DOMAIN Rows
  BY <1>1, WhoAsks, SeasonsAreTeams
<1>3. shape # RunsWon
  BY <1>1 DEF IsSeasons, Relation, RunsWon
<1>4. CASE CellsUnhonored(shape) = {} /\ Answer("season_reader", ReaderReads(shape))
  <2>1. Asked \ ReaderReads(shape) = {}
    BY <1>1, <1>2, <1>3, <1>4, ReaderSays
  <2>2. QED
    BY <1>4, <2>1, AnswerIsTold
<1>5. CASE Ask("compiler", shape)
  BY <1>1, <1>5, AskIsKept
<1>6. CASE Decline
  BY <1>6, AnswerIsTold DEF Decline
<1>7. QED
  BY <1>4, <1>5, <1>6 DEF ReadSeasonFirst

\* Nor the team compiler, but for what its own statements drop.
LEMMA RunTeamIsKept == ASSUME PlanInv, RunTeam PROVE PlanInv'
<1>1. /\ step = "compiler" /\ asked \in Question /\ ~CellsDeclined(asked.shape)
      /\ IsTeams(shape) /\ shape = asked.shape
      /\ asked.relation = "team" /\ CheckRelationScoping(Taken(shape))
  BY DEF PlanInv, RunTeam
<1>2. CASE shape[2] = "runs" /\ Answer("team_compiler", TeamRunReads)
  <2>1. shape \in Shapes(TeamRows)
    BY <1>1, <1>2 DEF IsTeams, TeamSum
  <2>2. shape = RunsWon
    BY <1>2, <2>1, TeamsShapes DEF Shapes
  <2>3. QED
    BY <1>1, <1>2, <2>2, RunsAreSaid, AnswerIsTold
<1>3. ASSUME IsSeasons(shape) \/ shape = TeamSum, NEW fromGames \in BOOLEAN,
             ~((TeamNarrowed \/ fromGames) /\ TeamMixed /\ "period" \in asked.cells),
             Answer("team_compiler", TeamSumReads(fromGames))
      PROVE  PlanInv'
  <2>1. Taken(shape) = Rate
    <3>1. CASE IsSeasons(shape)
      BY <1>1, <3>1, WhoAsks, SeasonsAreTeams, SeasonsTake
    <3>2. CASE shape = TeamSum
      BY <3>2, TheRunsRow DEF Taken
    <3>3. QED
      BY <1>3, <3>1, <3>2
  <2>2. asked.cells \subseteq TeamRelation \union Rate
    BY <1>1, <2>1 DEF CheckRelationScoping, Honored
  <2>3. Asked \ TeamSumReads(fromGames) \subseteq {"career", "both", "round", "situation", "rate"}
    BY <1>1, <1>3, <2>2, SumSays
  <2>4. QED
    BY <1>1, <1>3, <2>3, AnswerIsTold
<1>4. CASE Decline
  BY <1>4, AnswerIsTold DEF Decline
<1>5. QED
  BY <1>2, <1>3, <1>4 DEF RunTeam

\* Nor the player compiler.
LEMMA RunIsKept == ASSUME PlanInv, Run PROVE PlanInv'
<1>1. asked \in Question
  BY DEF PlanInv
<1>2. CASE CheckRelationScoping({}) /\ Answer("compiler", CompilerReads)
  <2>1. Asked \ CompilerReads = {}
    BY <1>1, <1>2, CompilerSays
  <2>2. QED
    BY <1>2, <2>1, AnswerIsTold
<1>3. CASE Decline
  BY <1>3, AnswerIsTold DEF Decline
<1>4. QED
  BY <1>2, <1>3 DEF Run

\* Whatever cells the points of a question may set at once, an answer says every
\* one of them, or the team compiler is the one that answers and drops no named
\* opponent, day, venue, stretch or quarter: planner.py's two allow lists and the
\* rows of its tables, shape by shape, never let through a cell that no compiler
\* reads.
THEOREM PlannedIsTold == PlanSpec => []OnlyTheTeamCompilerDrops
<1>1. PlanInit => PlanInv
  BY DEF PlanInit, PlanInv, OnlyTheTeamCompilerDrops, Dropped, Nobody
<1>2. PlanInv /\ [PlanNext]_planVars => PlanInv'
  <2>1. SUFFICES ASSUME PlanInv, [PlanNext]_planVars PROVE PlanInv'
    OBVIOUS
  <2>2. CASE UNCHANGED planVars
    BY <2>1, <2>2 DEF planVars, PlanInv, OnlyTheTeamCompilerDrops, Dropped, Asked, IsTeams, IsSeasons,
       Relation, CellsDeclined, CellsUnhonored, CellsStated, RowOf, CheckRelationScoping, Honored, Taken
  <2>3. QED
    BY <2>1, <2>2, PlanPointIsKept, ReadIsKept, ReadSeasonFirstIsKept, RunTeamIsKept, RunIsKept
       DEF PlanNext, PlanOver
<1>3. PlanInv => OnlyTheTeamCompilerDrops
  BY DEF PlanInv
<1>4. QED
  BY <1>1, <1>2, <1>3, PTL DEF PlanSpec

-----------------------------------------------------------------------------
(***************************************************************************)
(* Days and the seasons they fall in.                                       *)
(***************************************************************************)

\* The day of a year, month and day of the month.
DayOf(y, m, k) == 10000 * y + 100 * m + k

\* What a day's number is made of.
LEMMA DayParts ==
  ASSUME NEW d, IsDay(d)
  PROVE  /\ d \in Nat /\ Year(d) \in Nat /\ Year(d) > 0 /\ Month(d) \in 1..12 /\ d % 100 \in 1..31
         /\ d \div 100 = 100 * Year(d) + Month(d)
         /\ d = 100 * (d \div 100) + (d % 100)
         /\ OfYear(d) = 100 * Month(d) + (d % 100)
<1> DEFINE a == d \div 100  b == d % 100  y == d \div 10000  o == d % 10000  m == a % 100
<1>1. d \in Nat
  BY DEF IsDay
<1>2. a \in Nat /\ b \in 0..99 /\ d = 100 * a + b
  BY <1>1
<1>3. y \in Nat /\ o \in 0..9999 /\ d = 10000 * y + o
  BY <1>1
<1>4. m \in 0..99 /\ \E c \in Nat : a = 100 * c + m
  <2> HIDE DEF a
  <2>1. a \div 100 \in Nat /\ a = 100 * (a \div 100) + (a % 100) /\ a % 100 \in 0..99
    BY <1>2
  <2>2. QED
    BY <2>1
<1> HIDE DEF a, b, y, o, m
<1>5. PICK c \in Nat : a = 100 * c + m
  BY <1>4
<1>6. c = y
  <2>1. PICK r \in 0..9999 : r = 100 * m + b
    BY <1>2, <1>4
  <2>2. d = 10000 * c + r
    BY <1>2, <1>4, <1>5, <2>1
  <2>3. /\ c \in Int /\ y \in Int /\ r \in Int /\ o \in Int
        /\ 0 <= r /\ r < 10000 /\ 0 <= o /\ o < 10000 /\ 10000 * c + r = 10000 * y + o
    <3>1. o \in Int /\ 0 <= o /\ o < 10000 /\ y \in Int
      BY <1>3
    <3>2. r \in Int /\ 0 <= r /\ r < 10000 /\ c \in Int
      OBVIOUS
    <3>3. 10000 * c + r = 10000 * y + o
      BY <1>3, <2>2
    <3>4. QED
      BY <3>1, <3>2, <3>3
  <2>4. c < y => 10000 * c + 10000 <= 10000 * y
    BY <2>3
  <2>5. y < c => 10000 * y + 10000 <= 10000 * c
    BY <2>3
  <2>6. ~(c < y) /\ ~(y < c)
    BY <2>3, <2>4, <2>5
  <2>7. QED
    BY <2>3, <2>6
<1>7. Year(d) = y /\ Month(d) = m /\ OfYear(d) = o /\ d % 100 = b /\ d \div 100 = a
  BY DEF Year, Month, OfYear, y, m, o, b, a
<1>8. Year(d) > 0 /\ Month(d) \in 1..12 /\ d % 100 \in 1..31
  BY DEF IsDay
<1>9. QED
  BY <1>1, <1>2, <1>3, <1>4, <1>5, <1>6, <1>7, <1>8

\* And the parts of a number so made.
LEMMA PartsAre ==
  ASSUME NEW y, NEW m, NEW k, y \in Nat, m \in 1..12, k \in 1..31
  PROVE  /\ DayOf(y, m, k) \in Nat /\ Year(DayOf(y, m, k)) = y /\ Month(DayOf(y, m, k)) = m
         /\ DayOf(y, m, k) % 100 = k /\ DayOf(y, m, k) \div 100 = 100 * y + m
         /\ OfYear(DayOf(y, m, k)) = 100 * m + k
<1>1. PICK d : d = DayOf(y, m, k)
  OBVIOUS
<1>2. d \in Nat /\ d = 10000 * y + 100 * m + k
  BY <1>1 DEF DayOf
<1>3. d \div 10000 = y /\ d % 10000 = 100 * m + k
  BY <1>2
<1>4. d \div 100 = 100 * y + m /\ d % 100 = k
  BY <1>2
<1>5. (100 * y + m) % 100 = m
  OBVIOUS
<1>6. QED
  BY <1>1, <1>2, <1>3, <1>4, <1>5 DEF Year, Month, OfYear

\* A later day is of no earlier season.
LEMMA SeasonsFollowDays ==
  ASSUME NEW d, NEW e, IsDay(d), IsDay(e), d <= e
  PROVE  SeasonOfDay(d) \in Nat /\ SeasonOfDay(d) > 0 /\ SeasonOfDay(d) <= SeasonOfDay(e) /\ Year(d) <= Year(e)
<1>1. /\ d \in Nat /\ Year(d) \in Nat /\ Year(d) > 0 /\ Month(d) \in 1..12 /\ d % 100 \in 1..31
      /\ d \div 100 = 100 * Year(d) + Month(d) /\ d = 100 * (d \div 100) + (d % 100)
  BY DayParts
<1>2. /\ e \in Nat /\ Year(e) \in Nat /\ Year(e) > 0 /\ Month(e) \in 1..12 /\ e % 100 \in 1..31
      /\ e \div 100 = 100 * Year(e) + Month(e) /\ e = 100 * (e \div 100) + (e % 100)
  BY DayParts
<1>3. 10000 * Year(d) + 100 * Month(d) + (d % 100) <= 10000 * Year(e) + 100 * Month(e) + (e % 100)
  BY <1>1, <1>2
<1>4. Year(d) < Year(e) \/ (Year(d) = Year(e) /\ Month(d) <= Month(e))
  BY <1>1, <1>2, <1>3
<1>5. QED
  BY <1>1, <1>2, <1>4 DEF SeasonOfDay

\* The seasons there are games of.
SeasonsDealt == {g.season : g \in SeasonGames}

\* A game is filed under its calendar's season, unless the season ended late.
LEMMA GameSeason ==
  ASSUME NEW g \in SeasonGames
  PROVE  /\ IsDay(g.day) /\ g.season \in Nat /\ g.season \in SeasonsDealt
         /\ g.season <= SeasonOfDay(g.day) /\ Year(g.day) <= g.season
         /\ g.season # SeasonOfDay(g.day) => Month(g.day) >= 10 /\ g.season = Year(g.day)
<1>1. /\ IsDay(g.day) /\ g.season \in {Year(g.day), Year(g.day) + 1}
      /\ Month(g.day) < 10 => g.season = Year(g.day)
  BY DaysAssumption
<1>2. Year(g.day) \in Nat /\ Month(g.day) \in 1..12
  BY <1>1, DayParts
<1>3. QED
  BY <1>1, <1>2 DEF SeasonOfDay, SeasonsDealt

\* A career word stands over every season, and beside one is declined.
LEMMA CareerSpan ==
  ASSUME NEW q, q.career = TRUE
  PROVE  /\ Declined(q) <=> SeasonNamed(q) # 0
         /\ SeasonNamed(q) = 0 => SeasonsOf(ReadSpan(q)) = SeasonsDealt
<1>1. PICK named : named = SeasonNamed(q)
  OBVIOUS
<1>2. ReadSpan(q) = [season |-> named, since |-> 0, until |-> 0, career |-> TRUE]
  BY <1>1 DEF ReadSpan
<1>3. Declined(q) <=> named # 0
  BY <1>2 DEF Declined
<1>4. named = 0 => SeasonsOf(ReadSpan(q)) = SeasonsDealt
  BY <1>2 DEF SeasonsOf, SeasonsDealt
<1>5. QED
  BY <1>1, <1>3, <1>4

\* Else its days are read over the seasons they fall in.
LEMMA DatedSpan ==
  ASSUME NEW q, q.career = FALSE, Dated(q).since \in Int, Dated(q).until \in Int, Dated(q).since # 0
  PROVE  /\ ~Declined(q)
         /\ \A s \in SeasonsDealt : s \in SeasonsOf(ReadSpan(q)) <=>
              Dated(q).since <= s /\ (Dated(q).until # 0 => s <= Dated(q).until)
<1>1. PICK since, upTo : since = Dated(q).since /\ upTo = Dated(q).until
  OBVIOUS
<1>2. SeasonsDealt \subseteq Int
  BY GameSeason DEF SeasonsDealt
<1>3. CASE since = upTo
  <2>1. ReadSpan(q) = [season |-> since, since |-> 0, until |-> 0, career |-> FALSE]
    BY <1>1, <1>3 DEF ReadSpan
  <2>2. SeasonsOf(ReadSpan(q)) = {since}
    BY <1>1, <2>1 DEF SeasonsOf
  <2>3. ~Declined(q)
    BY <2>1 DEF Declined
  <2>4. since \in Int /\ upTo \in Int /\ upTo # 0
    BY <1>1, <1>3
  <2>5. \A s \in SeasonsDealt : s \in SeasonsOf(ReadSpan(q)) <=> since <= s /\ (upTo # 0 => s <= upTo)
    BY <1>2, <1>3, <2>2, <2>4
  <2>6. QED
    BY <1>1, <2>3, <2>5
<1>4. CASE since # upTo
  <2>1. ReadSpan(q) = [season |-> 0, since |-> since, until |-> upTo, career |-> FALSE]
    BY <1>1, <1>4 DEF ReadSpan
  <2>2. SeasonsOf(ReadSpan(q)) = {n \in SeasonsDealt : since <= n /\ (upTo # 0 => n <= upTo)}
    BY <1>1, <2>1 DEF SeasonsOf, SeasonsDealt
  <2>3. ~Declined(q)
    BY <2>1 DEF Declined
  <2>4. QED
    BY <1>1, <2>2, <2>3
<1>5. QED
  BY <1>3, <1>4

\* The day a question opens on, and the one it closes with, are days: and a
\* game is cut by them where the words reach it.
LEMMA OpensOn ==
  ASSUME NEW q \in Opened, q.as \in {"worded", "numeric"}
  PROVE  /\ IsDay(q.first) /\ Dated(q).first = q.first /\ Dated(q).until = 0 /\ ~Dated(q).both
         /\ Dated(q).since = (IF q.as = "numeric" THEN Year(q.first) ELSE SeasonOfDay(q.first))
         /\ \A g \in SeasonGames : InCut(q, g) <=> Reaches(q, g.day)
<1>1. q.first \in AskedDays
  BY DEF Opened
<1>2. IsDay(q.first)
  BY <1>1, DaysAssumption
<1>3. CASE q.as = "worded"
  <2>1. Dated(q) = OpenFrom(q.first, SeasonOfDay(q.first))
    BY <1>3 DEF Dated, DatedDay
  <2>2. QED
    BY <1>2, <1>3, <2>1 DEF OpenFrom, InCut, Reaches
<1>4. CASE q.as = "numeric"
  <2>1. Dated(q) = OpenFrom(q.first, Year(q.first))
    BY <1>4 DEF Dated, DatedSituation
  <2>2. QED
    BY <1>2, <1>4, <2>1 DEF OpenFrom, InCut, Reaches
<1>5. QED
  BY <1>3, <1>4

\* A month named opens on its first day, or the next month's.
LEMMA MonthOpens ==
  ASSUME NEW q \in Opened, q.as \in {"month", "after_month"}
  PROVE  /\ IsDay(Dated(q).first) /\ Dated(q).until = 0 /\ ~Dated(q).both
         /\ Dated(q).since = SeasonOfDay(Dated(q).first)
         /\ \A g \in SeasonGames : InCut(q, g) <=> Reaches(q, g.day)
         /\ \A g \in SeasonGames : InCut(q, g) <=> Dated(q).first <= g.day
<1>1. q.first \in AskedDays
  BY DEF Opened
<1>2. IsDay(q.first)
  BY <1>1, DaysAssumption
<1>3. PICK first : first = MonthOpened(q.first, q.as = "after_month")
  OBVIOUS
<1>4. Dated(q) = OpenFrom(first, SeasonOfDay(first))
  BY <1>3 DEF Dated, DatedMonth
<1>5. \A g \in SeasonGames : InCut(q, g) <=> Dated(q).first <= g.day
  BY DEF InCut
<1>6. PICK y, m, k : y = Year(q.first) /\ m = Month(q.first) /\ k = q.first % 100
  OBVIOUS
<1>7. /\ y \in Nat /\ y > 0 /\ m \in 1..12 /\ k \in 1..31
      /\ q.first \div 100 = 100 * y + m /\ q.first = 100 * (q.first \div 100) + k
  BY <1>2, <1>6, DayParts
<1>8. q.first - k + 1 = 10000 * y + 100 * m + 1
  BY <1>7
<1>9. PICK y2 \in Nat, m2 \in 1..12 :
        /\ y2 > 0 /\ first = 10000 * y2 + 100 * m2 + 1
        /\ 100 * y2 + m2 = (IF q.as = "month" THEN 100 * y + m ELSE IF m = 12 THEN 100 * (y + 1) + 1 ELSE 100 * y + m + 1)
  <2>1. CASE q.as = "month"
    <3>1. first = 10000 * y + 100 * m + 1
      BY <1>3, <1>6, <1>8, <2>1 DEF MonthOpened
    <3>2. QED
      BY <1>7, <2>1, <3>1
  <2>2. CASE q.as = "after_month" /\ m = 12
    <3>1. first = q.first - k + 1 + 8900
      BY <1>3, <1>6, <2>2 DEF MonthOpened
    <3>2. y + 1 \in Nat /\ first = 10000 * (y + 1) + 100 * 1 + 1
      BY <1>7, <1>8, <2>2, <3>1
    <3>3. QED
      BY <1>7, <2>2, <3>2
  <2>3. CASE q.as = "after_month" /\ m # 12
    <3>1. first = q.first - k + 1 + 100
      BY <1>3, <1>6, <2>3 DEF MonthOpened
    <3>2. m + 1 \in 1..12 /\ first = 10000 * y + 100 * (m + 1) + 1
      BY <1>7, <1>8, <2>3, <3>1
    <3>3. QED
      BY <1>7, <2>3, <3>2
  <2>4. QED
    BY <2>1, <2>2, <2>3
<1>10. Year(first) = y2 /\ Month(first) = m2 /\ first % 100 = 1 /\ first \in Nat
  <2>1. first = DayOf(y2, m2, 1)
    BY <1>9 DEF DayOf
  <2>2. y2 \in Nat /\ m2 \in 1..12 /\ 1 \in 1..31
    BY <1>9
  <2>3. QED
    BY <2>1, <2>2, PartsAre
<1>11. IsDay(first)
  BY <1>9, <1>10 DEF IsDay
<1>12. Dated(q).first = first /\ Dated(q).until = 0 /\ Dated(q).both = FALSE /\ Dated(q).since = SeasonOfDay(first)
  BY <1>4 DEF OpenFrom
<1>13. ASSUME NEW g \in SeasonGames PROVE first <= g.day <=> Reaches(q, g.day)
  <2>1. IsDay(g.day)
    BY DaysAssumption
  <2>2. PICK yy, mm, kk, ym : yy = Year(g.day) /\ mm = Month(g.day) /\ kk = g.day % 100 /\ ym = g.day \div 100
    OBVIOUS
  <2>3. yy \in Nat /\ mm \in 1..12 /\ kk \in 1..31 /\ ym = 100 * yy + mm /\ g.day = 100 * ym + kk
    BY <2>1, <2>2, DayParts
  <2>4. first <= g.day <=> 100 * y2 + m2 <= ym
    BY <1>9, <2>3
  <2>5. CASE q.as = "month"
    <3>1. Reaches(q, g.day) <=> ym >= 100 * y + m
      BY <1>7, <2>2, <2>5 DEF Reaches
    <3>2. 100 * y2 + m2 = 100 * y + m
      BY <1>9, <2>5
    <3>3. QED
      BY <1>7, <2>3, <2>4, <3>1, <3>2
  <2>6. CASE q.as = "after_month"
    <3>1. Reaches(q, g.day) <=> ym > 100 * y + m
      BY <1>7, <2>2, <2>6 DEF Reaches
    <3>2. 100 * y2 + m2 = IF m = 12 THEN 100 * (y + 1) + 1 ELSE 100 * y + m + 1
      BY <1>9, <2>6
    <3>3. 100 * y2 + m2 <= ym <=> ym > 100 * y + m
      BY <1>7, <2>3, <3>2
    <3>4. QED
      BY <2>4, <3>1, <3>3
  <2>7. QED
    BY <2>5, <2>6
<1>14. QED
  BY <1>5, <1>11, <1>12, <1>13

\* A later day is of no earlier year, and in a year of no earlier month.
LEMMA LaterDays ==
  ASSUME NEW d, NEW e, IsDay(d), IsDay(e), d <= e
  PROVE  /\ Year(d) \in Nat /\ Year(e) \in Nat /\ Month(d) \in 1..12 /\ Month(e) \in 1..12
         /\ Year(d) < Year(e) \/ (Year(d) = Year(e) /\ Month(d) <= Month(e))
<1>1. /\ d \in Nat /\ Year(d) \in Nat /\ Month(d) \in 1..12 /\ d % 100 \in 1..31
      /\ d \div 100 = 100 * Year(d) + Month(d) /\ d = 100 * (d \div 100) + (d % 100)
  BY DayParts
<1>2. /\ e \in Nat /\ Year(e) \in Nat /\ Month(e) \in 1..12 /\ e % 100 \in 1..31
      /\ e \div 100 = 100 * Year(e) + Month(e) /\ e = 100 * (e \div 100) + (e % 100)
  BY DayParts
<1>3. 10000 * Year(d) + 100 * Month(d) + (d % 100) <= 10000 * Year(e) + 100 * Month(e) + (e % 100)
  BY <1>1, <1>2
<1>4. QED
  BY <1>1, <1>2, <1>3

\* The two days of a range: the first without its year is the latest such day
\* that is no later than the last.
LEMMA RangeRuns ==
  ASSUME NEW q \in Closed, q.yearGiven => q.first <= q.last
  PROVE  /\ IsDay(RangeFirst(q)) /\ IsDay(q.last) /\ RangeFirst(q) <= q.last
         /\ Dated(q).first = RangeFirst(q) /\ Dated(q).last = q.last
         /\ Dated(q).since = SeasonOfDay(RangeFirst(q)) /\ Dated(q).until = SeasonOfDay(q.last)
         /\ Dated(q).both <=> \/ SeasonOfDay(RangeFirst(q)) # SeasonOfDay(q.last)
                              \/ Month(RangeFirst(q)) \in 4..9 \/ Month(q.last) \in 4..9
         /\ \A g \in SeasonGames : InCut(q, g) <=> RangeFirst(q) <= g.day /\ g.day <= q.last
         /\ \A g \in SeasonGames : Reaches(q, g.day) <=> RangeFirst(q) <= g.day /\ g.day <= q.last
<1>1. q.as = "range" /\ q.first \in AskedDays /\ q.last \in AskedDays /\ q.yearGiven \in BOOLEAN
  BY DEF Closed
<1>2. IsDay(q.first) /\ IsDay(q.last) /\ Year(q.last) > 1
  BY <1>1, DaysAssumption
<1>3. PICK first : first = RangeFirst(q)
  OBVIOUS
<1>4. Dated(q) = DateRange(q)
  BY <1>1 DEF Dated
<1>5. /\ Dated(q).first = first /\ Dated(q).last = q.last
      /\ Dated(q).since = SeasonOfDay(first) /\ Dated(q).until = SeasonOfDay(q.last)
      /\ Dated(q).both <=> SeasonOfDay(first) # SeasonOfDay(q.last) \/ Month(first) \in 4..9 \/ Month(q.last) \in 4..9
  <2>1. PICK b \in BOOLEAN :
          b = (SeasonOfDay(first) # SeasonOfDay(q.last) \/ Month(first) \in 4..9 \/ Month(q.last) \in 4..9)
    OBVIOUS
  <2>2. Dated(q) = [ first |-> first, last |-> q.last, since |-> SeasonOfDay(first), until |-> SeasonOfDay(q.last),
                     both |-> b ]
    BY <1>3, <1>4, <2>1, Zenon DEF DateRange
  <2>3. /\ Dated(q).first = first /\ Dated(q).last = q.last
        /\ Dated(q).since = SeasonOfDay(first) /\ Dated(q).until = SeasonOfDay(q.last)
    BY <2>2
  <2>4. Dated(q).both = b
    BY <2>2
  <2>5. Dated(q).both <=> SeasonOfDay(first) # SeasonOfDay(q.last) \/ Month(first) \in 4..9 \/ Month(q.last) \in 4..9
    BY <2>1, <2>4
  <2>6. QED
    BY <2>3, <2>5
<1>6. \A g \in SeasonGames : InCut(q, g) <=> first <= g.day /\ g.day <= q.last
  BY <1>1, <1>5 DEF InCut
<1>7. CASE q.yearGiven = TRUE
  <2>1. first = q.first
    BY <1>3, <1>7 DEF RangeFirst
  <2>2. \A day : Reaches(q, day) <=> first <= day /\ day <= q.last
    BY <1>1, <1>7, <2>1 DEF Reaches
  <2>3. IsDay(first) /\ first <= q.last
    BY <1>2, <1>7, <2>1
  <2>4. QED
    BY <1>2, <1>3, <1>5, <1>6, <2>2, <2>3
<1>8. CASE q.yearGiven = FALSE
  <2>1. PICK y, m, k, z, n, j : /\ y = Year(q.last) /\ m = Month(q.first) /\ k = q.first % 100
                                /\ n = Month(q.last) /\ j = q.last % 100 /\ z = OfYear(q.first)
    OBVIOUS
  <2>2. /\ y \in Nat /\ y > 1 /\ n \in 1..12 /\ j \in 1..31 /\ q.last \in Nat
        /\ q.last \div 100 = 100 * y + n /\ q.last = 100 * (q.last \div 100) + j
        /\ OfYear(q.last) = 100 * n + j
    BY <1>2, <2>1, DayParts
  <2>3. m \in 1..12 /\ k \in 1..31 /\ z = 100 * m + k
    BY <1>2, <2>1, DayParts
  <2>4. q.last = 10000 * y + 100 * n + j
    BY <2>2
  <2>5. first = z + 10000 * (y - IF z <= OfYear(q.last) THEN 0 ELSE 1)
    BY <1>3, <1>8, <2>1 DEF RangeFirst
  <2>6. PICK c \in {y, y - 1} : first = z + 10000 * c /\ (c = y <=> z <= 100 * n + j)
    BY <2>2, <2>5
  <2>7. c \in Nat /\ c > 0 /\ first = DayOf(c, m, k)
    BY <2>2, <2>3, <2>6 DEF DayOf
  <2>8. IsDay(first)
    <3>1. first \in Nat /\ Year(first) = c /\ Month(first) = m /\ first % 100 = k
      BY <2>3, <2>7, PartsAre
    <3>2. QED
      BY <2>3, <2>7, <3>1 DEF IsDay
  <2>9. first \in Nat /\ first <= q.last
    BY <2>2, <2>3, <2>4, <2>6, <2>8 DEF IsDay
  <2> DEFINE both == {d \in {z + 10000 * (y - i) : i \in {0, 1}} : d <= q.last}
  <2>10. Max(both) = first
    <3>1. both = IF z <= 100 * n + j THEN {first, first - 10000} ELSE {first}
      <4>1. both = {d \in {z + 10000 * y, z + 10000 * (y - 1)} : d <= q.last}
        BY <2>2
      <4>2. CASE z <= 100 * n + j
        BY <2>2, <2>3, <2>4, <2>6, <4>1, <4>2
      <4>3. CASE ~(z <= 100 * n + j)
        BY <2>2, <2>3, <2>4, <2>6, <4>1, <4>3
      <4>4. QED
        BY <4>2, <4>3
    <3>2. both \in SUBSET (0..q.last)
      BY <2>2, <2>3, <3>1
    <3>3. both # {} /\ first \in both /\ \A x \in both : x <= first
      BY <2>9, <3>1
    <3>4. Max(both) \in both /\ \A x \in both : x <= Max(both)
      <4> HIDE DEF both
      <4>1. QED
        BY <2>2, <3>2, <3>3, MaxIs
    <3>5. QED
      <4> HIDE DEF both
      <4>1. Max(both) <= first /\ first <= Max(both)
        BY <3>3, <3>4
      <4>2. Max(both) \in 0..q.last
        BY <3>2, <3>4
      <4>3. Max(both) \in Int /\ first \in Int
        BY <2>2, <2>9, <4>2
      <4>4. QED
        BY <4>1, <4>3
  <2>11. \A day : Reaches(q, day) <=> day <= q.last /\ day >= Max(both)
    BY <1>1, <1>8, <2>1 DEF Reaches
  <2> HIDE DEF both
  <2>12. \A g \in SeasonGames : Reaches(q, g.day) <=> first <= g.day /\ g.day <= q.last
    BY <2>10, <2>11
  <2>13. QED
    BY <1>2, <1>3, <1>5, <1>6, <2>8, <2>9, <2>12
<1>9. QED
  BY <1>1, <1>7, <1>8

\* A question open at its end is told its games.
LEMMA OpenedIsTold ==
  ASSUME onRecord \subseteq SeasonGames, NEW q \in Opened
  PROVE  ToldItsGames(q)
<1>1. q.as \in {"worded", "numeric", "month", "after_month"} /\ q.career \in BOOLEAN /\ q.types \in TypeWords
  BY DEF Opened
<1>2. PICK f : f = Dated(q).first
  OBVIOUS
<1>3. /\ IsDay(f) /\ Dated(q).until = 0 /\ ~Dated(q).both
      /\ Dated(q).since = (IF q.as = "numeric" THEN Year(f) ELSE SeasonOfDay(f))
      /\ \A g \in SeasonGames : (InCut(q, g) <=> Reaches(q, g.day)) /\ (InCut(q, g) <=> f <= g.day)
  <2>1. CASE q.as \in {"worded", "numeric"}
    <3>1. /\ IsDay(q.first) /\ Dated(q).first = q.first /\ Dated(q).until = 0 /\ ~Dated(q).both
          /\ Dated(q).since = (IF q.as = "numeric" THEN Year(q.first) ELSE SeasonOfDay(q.first))
          /\ \A g \in SeasonGames : InCut(q, g) <=> Reaches(q, g.day)
      BY <2>1, OpensOn
    <3>2. \A g \in SeasonGames : InCut(q, g) <=> f <= g.day
      BY <1>2, <2>1 DEF InCut
    <3>3. QED
      BY <1>2, <3>1, <3>2
  <2>2. CASE q.as \in {"month", "after_month"}
    BY <1>2, <2>2, MonthOpens
  <2>3. QED
    BY <1>1, <2>1, <2>2
<1>4. /\ Dated(q).since \in Nat /\ Dated(q).since > 0 /\ Dated(q).until \in Int
      /\ f \in Nat
  BY <1>3, DayParts, SeasonsFollowDays
<1>5. SeasonNamed(q) # 0
  <2>1. q.first \in AskedDays
    BY DEF Opened
  <2>2. IsDay(q.first) /\ q.first <= q.first
    BY <2>1, DaysAssumption DEF IsDay
  <2>3. Year(q.first) \in Nat /\ Year(q.first) > 0 /\ SeasonOfDay(q.first) > 0 /\ SeasonOfDay(q.first) \in Nat
    BY <2>2, DayParts, SeasonsFollowDays
  <2>4. SeasonNamed(q) \in {Year(q.first), SeasonOfDay(q.first)}
    BY <1>1 DEF SeasonNamed
  <2>5. QED
    BY <2>3, <2>4
<1>6. TypesRead(q) = TypesWanted(q)
  BY <1>1, <1>3 DEF TypesRead, TypesWanted
<1>7. q.career = FALSE =>
        ~Declined(q) /\ \A g \in SeasonGames : g.season \in SeasonsOf(ReadSpan(q)) <=> Dated(q).since <= g.season
  <2>1. SUFFICES ASSUME q.career = FALSE
                 PROVE  ~Declined(q) /\ \A g \in SeasonGames : g.season \in SeasonsOf(ReadSpan(q)) <=> Dated(q).since <= g.season
    OBVIOUS
  <2>2. \A g \in SeasonGames : g.season \in SeasonsDealt
    BY DEF SeasonsDealt
  <2>3. Dated(q).since \in Int /\ Dated(q).until \in Int /\ Dated(q).since # 0 /\ Dated(q).until = 0
    BY <1>3, <1>4
  <2>4. /\ ~Declined(q)
        /\ \A s \in SeasonsDealt : s \in SeasonsOf(ReadSpan(q)) <=>
              Dated(q).since <= s /\ (Dated(q).until # 0 => s <= Dated(q).until)
    BY <2>1, <2>3, DatedSpan
  <2>5. QED
    BY <2>2, <2>3, <2>4
<1>8. CASE Declined(q)
  <2>1. q.career = TRUE
    BY <1>1, <1>8 DEF Declined, ReadSpan
  <2>2. QED
    BY <1>8, <2>1 DEF ToldItsGames
<1>9. CASE ~Declined(q)
  <2>1. q.career = FALSE
    BY <1>1, <1>5, <1>9 DEF Declined, ReadSpan
  <2>2. GamesTold(q) = {g \in onRecord : Dated(q).since <= g.season /\ g.type \in TypesWanted(q) /\ Reaches(q, g.day)}
    BY <1>3, <1>6, <1>7, <2>1 DEF GamesTold
  <2>3. ASSUME NEW g \in Wanted(q) \ GamesTold(q) PROVE Month(g.day) >= 10 /\ g.season = Year(g.day)
    <3>1. g \in SeasonGames /\ f <= g.day /\ ~(Dated(q).since <= g.season)
      BY <1>3, <2>2, <2>3 DEF Wanted
    <3>2. /\ IsDay(g.day) /\ g.season \in Nat /\ g.season <= SeasonOfDay(g.day) /\ Year(g.day) <= g.season
          /\ g.season # SeasonOfDay(g.day) => Month(g.day) >= 10 /\ g.season = Year(g.day)
      BY <3>1, GameSeason
    <3>3. SeasonOfDay(f) <= SeasonOfDay(g.day) /\ Year(f) <= Year(g.day) /\ Year(f) \in Nat /\ Year(g.day) \in Nat
      BY <1>3, <3>1, <3>2, SeasonsFollowDays, DayParts
    <3>4. SeasonOfDay(f) \in Nat /\ SeasonOfDay(g.day) \in Nat
      BY <3>3, <1>3, <3>2, DayParts DEF SeasonOfDay
    <3>5. QED
      BY <1>3, <1>4, <3>1, <3>2, <3>3, <3>4
  <2>4. GamesTold(q) \subseteq Wanted(q)
    BY <2>2 DEF Wanted
  <2>5. QED
    BY <1>9, <2>3, <2>4 DEF ToldItsGames
<1>10. QED
  BY <1>8, <1>9

\* A postseason game between two days that neither leave a season nor fall in
\* its spring or summer is of a season that ended late.
LEMMA LatePostseason ==
  ASSUME NEW g \in SeasonGames, g.type = "postseason", NEW d, NEW e, IsDay(d), IsDay(e), d <= g.day, g.day <= e,
         SeasonOfDay(d) = SeasonOfDay(e), Month(d) \notin 4..9, Month(e) \notin 4..9
  PROVE  Month(g.day) >= 10 /\ g.season = Year(g.day)
<1>1. IsDay(g.day) /\ (Month(g.day) \in 4..9 \/ (Month(g.day) >= 10 /\ g.season = Year(g.day)))
  BY DaysAssumption
<1>2. PICK x : x = g.day
  OBVIOUS
<1>3. /\ Year(d) \in Nat /\ Year(x) \in Nat /\ Month(d) \in 1..12 /\ Month(x) \in 1..12
      /\ Year(d) < Year(x) \/ (Year(d) = Year(x) /\ Month(d) <= Month(x))
  BY <1>1, <1>2, LaterDays
<1>4. /\ Year(e) \in Nat /\ Month(e) \in 1..12
      /\ Year(x) < Year(e) \/ (Year(x) = Year(e) /\ Month(x) <= Month(e))
  BY <1>1, <1>2, LaterDays
<1>5. ~(Month(x) \in 4..9)
  BY <1>3, <1>4 DEF SeasonOfDay
<1>6. QED
  BY <1>1, <1>2, <1>5

\* So is one between two days.
LEMMA RangedIsTold ==
  ASSUME onRecord \subseteq SeasonGames, NEW q \in Closed, q.yearGiven => q.first <= q.last
  PROVE  ToldItsGames(q)
<1>1. q.as = "range" /\ q.career \in BOOLEAN /\ q.types \in TypeWords /\ q.yearGiven \in BOOLEAN
  BY DEF Closed
<1>2. PICK d, e : d = RangeFirst(q) /\ e = q.last
  OBVIOUS
<1>3. /\ IsDay(d) /\ IsDay(e) /\ d <= e
      /\ Dated(q).since = SeasonOfDay(d) /\ Dated(q).until = SeasonOfDay(e)
      /\ Dated(q).both <=> SeasonOfDay(d) # SeasonOfDay(e) \/ Month(d) \in 4..9 \/ Month(e) \in 4..9
      /\ \A g \in SeasonGames : InCut(q, g) <=> d <= g.day /\ g.day <= e
      /\ \A g \in SeasonGames : Reaches(q, g.day) <=> d <= g.day /\ g.day <= e
  BY <1>2, RangeRuns
<1>4. /\ Dated(q).since \in Nat /\ Dated(q).since > 0 /\ Dated(q).until \in Nat /\ Dated(q).until > 0
      /\ d \in Nat /\ e \in Nat
  <2>1. d \in Nat /\ e \in Nat
    BY <1>3, DayParts
  <2>2. e <= e
    BY <2>1
  <2>3. SeasonOfDay(d) \in Nat /\ SeasonOfDay(d) > 0 /\ SeasonOfDay(e) \in Nat /\ SeasonOfDay(e) > 0
    BY <1>3, <2>2, SeasonsFollowDays
  <2>4. QED
    BY <1>3, <2>1, <2>3
<1>5. TypesRead(q) \subseteq TypesWanted(q)
  BY <1>1 DEF TypesRead, TypesWanted
<1>6. ASSUME NEW g \in SeasonGames, g.type \in TypesWanted(q), d <= g.day, g.day <= e, g.type \notin TypesRead(q)
      PROVE  Month(g.day) >= 10 /\ g.season = Year(g.day)
  <2>1. q.types = "none" /\ ~Dated(q).both /\ g.type = "postseason"
    BY <1>1, <1>6 DEF TypesRead, TypesWanted, TypeWords
  <2>2. SeasonOfDay(d) = SeasonOfDay(e) /\ Month(d) \notin 4..9 /\ Month(e) \notin 4..9
    BY <1>3, <2>1
  <2>3. QED
    BY <1>3, <1>6, <2>1, <2>2, LatePostseason
<1>7. ASSUME NEW g \in SeasonGames, d <= g.day, g.day <= e, ~Declined(q), g.season \notin SeasonsOf(ReadSpan(q))
      PROVE  Month(g.day) >= 10 /\ g.season = Year(g.day)
  <2>1. /\ IsDay(g.day) /\ g.season \in Nat /\ g.season \in SeasonsDealt
        /\ g.season <= SeasonOfDay(g.day) /\ Year(g.day) <= g.season
        /\ g.season # SeasonOfDay(g.day) => Month(g.day) >= 10 /\ g.season = Year(g.day)
    BY GameSeason
  <2>2. q.career = FALSE
    <3>1. CASE q.career = TRUE
      <4>1. SeasonsOf(ReadSpan(q)) = SeasonsDealt
        BY <1>7, <3>1, CareerSpan
      <4>2. QED
        BY <1>7, <2>1, <4>1
    <3>2. QED
      BY <1>1, <3>1
  <2>3. /\ ~Declined(q)
        /\ \A s \in SeasonsDealt : s \in SeasonsOf(ReadSpan(q)) <=>
              Dated(q).since <= s /\ (Dated(q).until # 0 => s <= Dated(q).until)
    <3>1. Dated(q).since \in Int /\ Dated(q).until \in Int /\ Dated(q).since # 0
      BY <1>4
    <3>2. QED
      BY <2>2, <3>1, DatedSpan
  <2>4. SeasonOfDay(d) <= SeasonOfDay(g.day) /\ SeasonOfDay(d) \in Nat
    BY <1>3, <1>7, <2>1, SeasonsFollowDays
  <2>5. SeasonOfDay(g.day) <= SeasonOfDay(e) /\ SeasonOfDay(g.day) \in Nat
    BY <1>3, <1>7, <2>1, SeasonsFollowDays
  <2>6. QED
    BY <1>3, <1>4, <1>7, <2>1, <2>3, <2>4, <2>5
<1>8. GamesTold(q) \subseteq Wanted(q)
  BY <1>3, <1>5 DEF GamesTold, Wanted
<1>9. CASE Declined(q)
  <2>1. q.career = TRUE
    BY <1>1, <1>9 DEF Declined, ReadSpan
  <2>2. QED
    BY <1>9, <2>1 DEF ToldItsGames
<1>10. CASE ~Declined(q)
  <2>1. ASSUME NEW g \in Wanted(q) \ GamesTold(q) PROVE Month(g.day) >= 10 /\ g.season = Year(g.day)
    <3>1. g \in SeasonGames /\ g.type \in TypesWanted(q) /\ d <= g.day /\ g.day <= e
      BY <1>3, <2>1 DEF Wanted
    <3>2. g.season \notin SeasonsOf(ReadSpan(q)) \/ g.type \notin TypesRead(q)
      BY <1>3, <2>1, <3>1 DEF Wanted, GamesTold
    <3>3. QED
      BY <1>6, <1>7, <1>10, <3>1, <3>2
  <2>2. QED
    BY <1>8, <1>10, <2>1 DEF ToldItsGames
<1>11. QED
  BY <1>9, <1>10

\* A day without its year is told, of the season of any game it tells, what that
\* day with its year is told.
LEMMA UndatedIsItsSeasons ==
  ASSUME onRecord \subseteq SeasonGames, NEW q \in Undated, ~Declined(q), NEW g \in GamesTold(q)
  PROVE  {h \in GamesTold(q) : h.season = g.season} = {h \in GamesTold(InSeason(q, g)) : h.season = g.season}
<1>1. q.as = "undated" /\ q.first \in AskedDays /\ IsDay(q.first) /\ q.types \in TypeWords
  BY DaysAssumption DEF Undated
<1>2. g \in SeasonGames /\ g \in onRecord /\ g.season \in SeasonsOf(ReadSpan(q))
  BY DEF GamesTold
<1>3. PICK w : w = InSeason(q, g)
  OBVIOUS
<1>4. PICK first, m, k, y :
        first = w.first /\ m = Month(q.first) /\ k = q.first % 100 /\ y = Year(q.first)
  OBVIOUS
<1>5. m \in 1..12 /\ k \in 1..31 /\ y \in Nat /\ OfYear(q.first) = 100 * m + k
  BY <1>1, <1>4, DayParts
<1>6. SeasonOfDay(q.first) # Year(q.first) <=> m >= 10
  BY <1>4, <1>5 DEF SeasonOfDay
<1>7. g.season \in Nat /\ g.season > 0 /\ \A h \in SeasonGames : h.season \in SeasonsDealt
  <2>1. IsDay(g.day) /\ Year(g.day) <= g.season /\ g.season \in Nat
    BY <1>2, GameSeason
  <2>2. Year(g.day) \in Nat /\ Year(g.day) > 0
    BY <2>1, DayParts
  <2>3. QED
    BY <2>1, <2>2 DEF SeasonsDealt
<1>8. PICK c : c = IF m >= 10 THEN g.season - 1 ELSE g.season
  OBVIOUS
<1>9. c \in Nat /\ first = DayOf(c, m, k)
  BY <1>3, <1>4, <1>5, <1>6, <1>7, <1>8 DEF InSeason, DayOf
<1>10. first \in Nat /\ Year(first) = c /\ Month(first) = m
  BY <1>5, <1>9, PartsAre
<1>11. SeasonOfDay(first) = g.season
  BY <1>5, <1>7, <1>8, <1>10 DEF SeasonOfDay
<1>12. w.as = "worded" /\ w.career = FALSE /\ w.types = q.types
  BY <1>3 DEF InSeason
<1>13. Dated(w) = OpenFrom(first, SeasonOfDay(first)) /\ Dated(q) = OpenFrom(0, 0)
  BY <1>1, <1>4, <1>12 DEF Dated, DatedDay, DatedSituation
<1>14. Dated(w).since = g.season /\ Dated(w).until = 0 /\ ~Dated(w).both /\ Dated(w).first = first /\ ~Dated(q).both
  BY <1>11, <1>13 DEF OpenFrom
<1>15. TypesRead(w) = TypesRead(q)
  BY <1>12, <1>14 DEF TypesRead
<1>16. \A s \in SeasonsDealt : s \in SeasonsOf(ReadSpan(w)) <=> g.season <= s
  <2>1. Dated(w).since \in Int /\ Dated(w).until \in Int /\ Dated(w).since # 0
    BY <1>7, <1>14
  <2>2. /\ ~Declined(w)
        /\ \A s \in SeasonsDealt : s \in SeasonsOf(ReadSpan(w)) <=>
              Dated(w).since <= s /\ (Dated(w).until # 0 => s <= Dated(w).until)
    BY <1>12, <2>1, DatedSpan
  <2>3. QED
    BY <1>14, <2>2
<1>17. ASSUME NEW h \in onRecord, h.season = g.season
       PROVE  /\ h.season \in SeasonsOf(ReadSpan(q)) /\ h.season \in SeasonsOf(ReadSpan(w))
              /\ InCut(q, h) <=> InCut(w, h)
  <2>1. h.season \in SeasonsOf(ReadSpan(w))
    BY <1>7, <1>16, <1>17
  <2>2. InCut(w, h) <=> first <= h.day
    BY <1>12, <1>14 DEF InCut
  <2>3. InCut(q, h) <=> h.day >= OfYear(q.first) + 10000 * (IF m >= 10 THEN h.season - 1 ELSE h.season)
    BY <1>1, <1>4 DEF InCut
  <2>4. OfYear(q.first) + 10000 * (IF m >= 10 THEN h.season - 1 ELSE h.season) = first
    BY <1>5, <1>7, <1>8, <1>9, <1>17 DEF DayOf
  <2>5. h.day \in Nat
    BY GameSeason, DayParts
  <2>6. QED
    BY <1>2, <1>10, <1>17, <2>1, <2>2, <2>3, <2>4, <2>5
<1>18. QED
  BY <1>3, <1>15, <1>17 DEF GamesTold

\* What is on record is the games there are.
DealtInv == onRecord \subseteq SeasonGames

\* What is told of any games on record is the games on the question's days.
LEMMA DealtAnswer == ASSUME DealtInv PROVE DatedIsItsGames
<1>1. \A q \in Opened \cup {r \in Closed : r.yearGiven => r.first <= r.last} : ToldItsGames(q)
  BY OpenedIsTold, RangedIsTold DEF DealtInv
<1>2. \A q \in Undated : ~Declined(q) => \A g \in GamesTold(q) :
        {h \in GamesTold(q) : h.season = g.season} = {h \in GamesTold(InSeason(q, g)) : h.season = g.season}
  BY UndatedIsItsSeasons DEF DealtInv
<1>3. QED
  BY <1>1, <1>2 DEF DatedIsItsGames

\* Whatever games are on record and whatever days are asked for, a question with
\* its days is told the games on them, of the type it names, declined only beside a
\* career word; but for the season that ended in October nothing is missing:
\* SeasonOfDay, the span the days are read over, and the cut of the games agree
\* (query's day and span readers, nba/season.py).
THEOREM DatedIsTold == DaysSpec => []DatedIsItsGames
<1>1. DaysInit => DealtInv
  BY DEF DaysInit, DealtInv
<1>2. DealtInv /\ [DaysNext]_onRecord => DealtInv'
  BY DEF DealtInv, DaysNext, FileGame, DaysOver
<1>3. DealtInv => DatedIsItsGames
  BY DealtAnswer
<1>4. QED
  BY <1>1, <1>2, <1>3, PTL DEF DaysSpec

-----------------------------------------------------------------------------
(***************************************************************************)
(* The clock: when a day begins in New York, told from UTC.                 *)
(***************************************************************************)

\* Days before the years up to b.
DaysUpTo(b) == 365 * b + b \div 4 - b \div 100 + b \div 400

\* An hour of a day is of that day.
LEMMA DivIs == ASSUME NEW x \in Int, NEW q \in Int, 24 * q <= x, x < 24 * q + 24 PROVE x \div 24 = q
OBVIOUS

\* And every hour is of one.
LEMMA InDay == ASSUME NEW x \in Int PROVE x \div 24 \in Int /\ 24 * (x \div 24) <= x /\ x < 24 * (x \div 24) + 24
OBVIOUS

\* How many days the years up to b have, between two straight lines.
LEMMA YearsAre ==
  ASSUME NEW b \in Int
  PROVE  /\ DaysUpTo(b) \in Int
         /\ 146097 * b - 699 <= 400 * DaysUpTo(b)
         /\ 400 * DaysUpTo(b) <= 146097 * b + 396
<1> DEFINE q == b \div 4  p == b \div 100  t == b \div 400
<1>1. q \in Int /\ 4 * q <= b /\ b <= 4 * q + 3
  OBVIOUS
<1>2. p \in Int /\ 100 * p <= b /\ b <= 100 * p + 99
  OBVIOUS
<1>3. t \in Int /\ 400 * t <= b /\ b <= 400 * t + 399
  OBVIOUS
<1> HIDE DEF q, p, t
<1>4. DaysUpTo(b) = 365 * b + q - p + t
  BY DEF DaysUpTo, q, p, t
<1>5. QED
  BY <1>1, <1>2, <1>3, <1>4

\* Both rules find a Sunday within a week, and the same one.
LEMMA SundaysAre ==
  ASSUME NEW d \in Int
  PROVE  /\ SundayOnOrAfter(d) \in Int /\ d <= SundayOnOrAfter(d) /\ SundayOnOrAfter(d) <= d + 6
         /\ SundaySql(d) = SundayOnOrAfter(d)
<1>1. Weekday(d) \in 0..6
  BY DEF Weekday
<1>2. \A w \in 0..6 : (6 - w) % 7 = 6 - w /\ (7 - ((w + 1) % 7)) % 7 = 6 - w
  OBVIOUS
<1>3. QED
  BY <1>1, <1>2 DEF SundayOnOrAfter, SundaySql

\* The first day of a year.
NewYear(y) == Ordinal(y, 1, 1)

\* It comes after the days of the years before.
LEMMA NewYearIs ==
  ASSUME NEW y \in Int
  PROVE  NewYear(y) = DaysUpTo(y - 1) + 1 /\ NewYear(y) \in Int
<1>1. DaysBeforeMonth(y, 1) = 0
  BY DEF DaysBeforeMonth
<1>2. QED
  BY <1>1, YearsAre DEF NewYear, Ordinal, DaysUpTo

\* The years are long.
LEMMA NewYearsApart ==
  ASSUME NEW y \in Int, NEW z \in Int, y < z
  PROVE  NewYear(y) + 363 <= NewYear(z)
<1>1. /\ DaysUpTo(y - 1) \in Int /\ DaysUpTo(z - 1) \in Int
      /\ 400 * DaysUpTo(y - 1) <= 146097 * (y - 1) + 396
      /\ 146097 * (z - 1) - 699 <= 400 * DaysUpTo(z - 1)
  BY YearsAre
<1>2. QED
  BY <1>1, NewYearIs

\* The year of a day begins by that day, and the next one after it.
LEMMA YearIs ==
  ASSUME NEW day \in Int
  PROVE  /\ YearOf(day) \in Int
         /\ NewYear(YearOf(day)) <= day /\ day < NewYear(YearOf(day) + 1)
<1> DEFINE near == (400 * day) \div 146097
           past == {y \in {near + 1, near + 2} : NewYear(y) <= day}
<1>1. near \in Int /\ 146097 * near <= 400 * day /\ 400 * day < 146097 * near + 146097
  OBVIOUS
<1>2. YearOf(day) = near + Cardinality(past)
  BY DEF YearOf, NewYear
<1> HIDE DEF near
<1>3. /\ NewYear(near) \in Int /\ NewYear(near + 1) \in Int /\ NewYear(near + 2) \in Int /\ NewYear(near + 3) \in Int
      /\ NewYear(near) <= day /\ day < NewYear(near + 3)
      /\ NewYear(near + 1) < NewYear(near + 2)
  <2>1. /\ DaysUpTo(near - 1) \in Int /\ 400 * DaysUpTo(near - 1) <= 146097 * (near - 1) + 396
    BY <1>1, YearsAre
  <2>2. DaysUpTo(near + 2) \in Int /\ 146097 * (near + 2) - 699 <= 400 * DaysUpTo(near + 2)
    BY <1>1, YearsAre
  <2>3. NewYear(near) = DaysUpTo(near - 1) + 1 /\ NewYear(near + 3) = DaysUpTo(near + 2) + 1
    BY <1>1, NewYearIs
  <2>4. NewYear(near + 1) \in Int /\ NewYear(near + 2) \in Int /\ NewYear(near + 1) < NewYear(near + 2)
    BY <1>1, NewYearIs, NewYearsApart
  <2>5. QED
    BY <1>1, <2>1, <2>2, <2>3, <2>4
<1>4. CASE day < NewYear(near + 1)
  <2>1. past = {}
    BY <1>1, <1>3, <1>4
  <2>2. Cardinality(past) = 0
    BY <2>1, FS_EmptySet
  <2>3. YearOf(day) = near
    BY <1>1, <1>2, <2>2
  <2>4. QED
    BY <1>1, <1>3, <1>4, <2>3
<1>5. CASE NewYear(near + 1) <= day /\ day < NewYear(near + 2)
  <2>1. past = {near + 1}
    BY <1>1, <1>3, <1>5
  <2>2. Cardinality(past) = 1
    BY <2>1, FS_Singleton
  <2>3. YearOf(day) = near + 1
    BY <1>1, <1>2, <2>2
  <2>4. near + 1 \in Int /\ (near + 1) + 1 = near + 2
    BY <1>1
  <2>5. QED
    BY <1>5, <2>3, <2>4
<1>6. CASE NewYear(near + 2) <= day
  <2>1. past = {near + 1} \union {near + 2}
    BY <1>1, <1>3, <1>6
  <2>2. Cardinality(past) = 2
    <3>1. IsFiniteSet({near + 1}) /\ Cardinality({near + 1}) = 1
      BY FS_Singleton
    <3>2. near + 2 \notin {near + 1}
      BY <1>1
    <3>3. Cardinality({near + 1} \union {near + 2}) = Cardinality({near + 1}) + 1
      BY <3>1, <3>2, FS_AddElement
    <3>4. QED
      BY <2>1, <3>1, <3>3
  <2>3. YearOf(day) = near + 2
    BY <1>1, <1>2, <2>2
  <2>4. near + 2 \in Int /\ (near + 2) + 1 = near + 3
    BY <1>1
  <2>5. QED
    BY <1>3, <1>6, <2>3, <2>4
<1>7. QED
  BY <1>1, <1>3, <1>4, <1>5, <1>6

\* No other year does.
LEMMA OneYear ==
  ASSUME NEW day \in Int, NEW y \in Int, NewYear(y) <= day, day < NewYear(y + 1)
  PROVE  YearOf(day) = y
<1>1. YearOf(day) \in Int /\ NewYear(YearOf(day)) <= day /\ day < NewYear(YearOf(day) + 1)
  BY YearIs
<1>2. ~(YearOf(day) < y)
  <2>1. SUFFICES ASSUME YearOf(day) < y PROVE FALSE
    OBVIOUS
  <2>2. YearOf(day) + 1 = y \/ NewYear(YearOf(day) + 1) + 363 <= NewYear(y)
    BY <1>1, <2>1, NewYearsApart
  <2>3. NewYear(YearOf(day) + 1) \in Int /\ NewYear(y) \in Int
    BY <1>1, NewYearIs
  <2>4. QED
    BY <1>1, <2>2, <2>3
<1>3. ~(y < YearOf(day))
  <2>1. SUFFICES ASSUME y < YearOf(day) PROVE FALSE
    OBVIOUS
  <2>2. y + 1 = YearOf(day) \/ NewYear(y + 1) + 363 <= NewYear(YearOf(day))
    BY <1>1, <2>1, NewYearsApart
  <2>3. NewYear(YearOf(day)) \in Int /\ NewYear(y + 1) \in Int
    BY <1>1, NewYearIs
  <2>4. QED
    BY <1>1, <2>2, <2>3
<1>4. QED
  BY <1>1, <1>2, <1>3

\* Every year there was daylight time has one of the three rules.
LEMMA RulesAre == ASSUME NEW y \in 1967..2101 PROVE RuleOf(y) \in {DstRules[1], DstRules[2], DstRules[3]}
<1> DEFINE holds(i) == /\ y >= DstRules[i].from
                       /\ \A j \in 1..(i - 1) : y < DstRules[j].from
           first == CHOOSE i \in DOMAIN DstRules : holds(i)
<1>1. DstRules[1].from = 2007 /\ DstRules[2].from = 1987 /\ DstRules[3].from = 1967 /\ DOMAIN DstRules = 1..3
  BY DEF DstRules
<1>2. \E i \in 1..3 : holds(i)
  <2>1. CASE y >= 2007
    BY <1>1, <2>1
  <2>2. CASE y < 2007 /\ y >= 1987
    <3>1. holds(2)
      BY <1>1, <2>2
    <3>2. QED
      BY <3>1
  <2>3. CASE y < 1987
    <3>1. holds(3)
      BY <1>1, <2>3
    <3>2. QED
      BY <3>1
  <2>4. QED
    BY <2>1, <2>2, <2>3
<1>3. first \in 1..3
  BY <1>1, <1>2
<1>4. RuleOf(y) = DstRules[first]
  BY DEF RuleOf
<1> HIDE DEF first
<1>5. first = 1 \/ first = 2 \/ first = 3
  BY <1>3
<1>6. QED
  BY <1>4, <1>5

\* So its dates are of March and November, or of April and October.
LEMMA RuleDatesAre ==
  ASSUME NEW y, y \in 1967..2101
  PROVE  /\ \/ RuleOf(y).start[1] = 3 /\ RuleOf(y).start[2] = 8
            \/ RuleOf(y).start[1] = 4 /\ RuleOf(y).start[2] \in {1, 24}
         /\ \/ RuleOf(y).end[1] = 11 /\ RuleOf(y).end[2] = 1
            \/ RuleOf(y).end[1] = 10 /\ RuleOf(y).end[2] = 25
<1>1. /\ DstRules[1].start[1] = 3 /\ DstRules[1].start[2] = 8
      /\ DstRules[1].end[1] = 11 /\ DstRules[1].end[2] = 1
  BY DEF DstRules
<1>2. /\ DstRules[2].start[1] = 4 /\ DstRules[2].start[2] = 1
      /\ DstRules[2].end[1] = 10 /\ DstRules[2].end[2] = 25
  BY DEF DstRules
<1>3. /\ DstRules[3].start[1] = 4 /\ DstRules[3].start[2] = 24
      /\ DstRules[3].end[1] = 10 /\ DstRules[3].end[2] = 25
  BY DEF DstRules
<1>4. RuleOf(y) = DstRules[1] \/ RuleOf(y) = DstRules[2] \/ RuleOf(y) = DstRules[3]
  BY RulesAre
<1>5. QED
  BY <1>1, <1>2, <1>3, <1>4

\* The dates on or after which the Sundays of a year's changes fall.
Spring(y) == Ordinal(y, RuleOf(y).start[1], RuleOf(y).start[2])
Fall(y)   == Ordinal(y, RuleOf(y).end[1], RuleOf(y).end[2])

\* Those dates are well inside the year.
LEMMA RuleDaysAre ==
  ASSUME NEW y \in 1967..2101
  PROVE  /\ Spring(y) \in Int /\ NewYear(y) + 60 <= Spring(y) /\ Spring(y) <= NewYear(y) + 120
         /\ Fall(y) \in Int /\ NewYear(y) + 290 <= Fall(y) /\ Fall(y) <= NewYear(y) + 310
<1> DEFINE leap == IF IsLeap(y) THEN 1 ELSE 0
<1>1. leap \in 0..1
  OBVIOUS
<1>2. /\ DaysBeforeMonth(y, 3) = 59 + leap /\ DaysBeforeMonth(y, 4) = 90 + leap
      /\ DaysBeforeMonth(y, 10) = 273 + leap /\ DaysBeforeMonth(y, 11) = 304 + leap
  BY DEF DaysBeforeMonth
<1> HIDE DEF leap
<1>3. \A m, d : Ordinal(y, m, d) = DaysUpTo(y - 1) + DaysBeforeMonth(y, m) + d
  BY DEF Ordinal, DaysUpTo
<1>4. DaysUpTo(y - 1) \in Int /\ NewYear(y) = DaysUpTo(y - 1) + 1
  BY NewYearIs, YearsAre
<1>5. Spring(y) = Ordinal(y, 3, 8) \/ Spring(y) = Ordinal(y, 4, 1) \/ Spring(y) = Ordinal(y, 4, 24)
  <2>1. PICK m, d : m = RuleOf(y).start[1] /\ d = RuleOf(y).start[2]
    OBVIOUS
  <2>2. (m = 3 /\ d = 8) \/ (m = 4 /\ d = 1) \/ (m = 4 /\ d = 24)
    BY <2>1, RuleDatesAre
  <2>3. Spring(y) = Ordinal(y, m, d)
    BY <2>1 DEF Spring
  <2>4. QED
    BY <2>2, <2>3
<1>6. Fall(y) = Ordinal(y, 11, 1) \/ Fall(y) = Ordinal(y, 10, 25)
  <2>1. PICK m, d : m = RuleOf(y).end[1] /\ d = RuleOf(y).end[2]
    OBVIOUS
  <2>2. (m = 11 /\ d = 1) \/ (m = 10 /\ d = 25)
    BY <2>1, RuleDatesAre
  <2>3. Fall(y) = Ordinal(y, m, d)
    BY <2>1 DEF Fall
  <2>4. QED
    BY <2>2, <2>3
<1>7. Spring(y) \in {NewYear(y) + 66 + leap, NewYear(y) + 90 + leap, NewYear(y) + 113 + leap}
  BY <1>1, <1>2, <1>3, <1>4, <1>5
<1>8. Fall(y) \in {NewYear(y) + 304 + leap, NewYear(y) + 297 + leap}
  BY <1>1, <1>2, <1>3, <1>4, <1>6
<1>9. QED
  BY <1>1, <1>4, <1>7, <1>8

\* Python's Sundays are those on or after these dates.
LEMMA SundaysOfYear ==
  ASSUME NEW y \in 1967..2101
  PROVE  StartOfDaylight[y] = SundayOnOrAfter(Spring(y)) /\ EndOfDaylight[y] = SundayOnOrAfter(Fall(y))
BY DEF StartOfDaylight, EndOfDaylight, Spring, Fall

\* They are some weeks inside the year: the shortest is taken to have 363 days,
\* which is enough.
ChangesIn(y) ==
  /\ StartOfDaylight[y] \in Int /\ EndOfDaylight[y] \in Int
  /\ NewYear(y) + 60 <= StartOfDaylight[y] /\ StartOfDaylight[y] + 100 <= EndOfDaylight[y]
  /\ EndOfDaylight[y] + 30 <= NewYear(y) + 363

\* Every year there was daylight time has its changes so.
LEMMA ChangesAre == ASSUME NEW y \in 1967..2101 PROVE ChangesIn(y)
<1>1. NewYear(y) \in Int
  BY NewYearIs
<1>2. /\ Spring(y) \in Int /\ NewYear(y) + 60 <= Spring(y) /\ Spring(y) <= NewYear(y) + 120
      /\ Fall(y) \in Int /\ NewYear(y) + 290 <= Fall(y) /\ Fall(y) <= NewYear(y) + 310
  BY RuleDaysAre, SMTT(60)
<1>3. /\ SundayOnOrAfter(Spring(y)) \in Int
      /\ Spring(y) <= SundayOnOrAfter(Spring(y)) /\ SundayOnOrAfter(Spring(y)) <= Spring(y) + 6
      /\ SundayOnOrAfter(Fall(y)) \in Int
      /\ Fall(y) <= SundayOnOrAfter(Fall(y)) /\ SundayOnOrAfter(Fall(y)) <= Fall(y) + 6
  BY <1>2, SundaysAre
<1>4. PICK first, last : first = SundayOnOrAfter(Spring(y)) /\ last = SundayOnOrAfter(Fall(y))
  OBVIOUS
<1>5. StartOfDaylight[y] = first /\ EndOfDaylight[y] = last
  BY <1>4, SundaysOfYear
<1>6. QED
  BY <1>1, <1>2, <1>3, <1>4, <1>5 DEF ChangesIn

\* The years a clock is watched in.
Watched == 1976..2100

\* A year, its changes, and the year after.
LEMMA AYear ==
  ASSUME NEW y \in Watched
  PROVE  /\ StartOfDaylight[y] \in Int /\ EndOfDaylight[y] \in Int
         /\ NewYear(y) \in Int /\ NewYear(y + 1) \in Int /\ NewYear(y + 2) \in Int
         /\ NewYear(y) + 60 <= StartOfDaylight[y] /\ StartOfDaylight[y] + 100 <= EndOfDaylight[y]
         /\ EndOfDaylight[y] + 30 <= NewYear(y + 1)
         /\ NewYear(y) + 363 <= NewYear(y + 1) /\ NewYear(y + 1) + 363 <= NewYear(y + 2)
         /\ StartOfDaylight[y + 1] \in Int /\ EndOfDaylight[y + 1] \in Int
         /\ NewYear(y + 1) + 60 <= StartOfDaylight[y + 1] /\ StartOfDaylight[y + 1] + 100 <= EndOfDaylight[y + 1]
<1>1. /\ y \in Int /\ y + 1 \in Int /\ y + 2 \in Int /\ y < y + 1 /\ y + 1 < y + 2
      /\ y \in 1967..2101 /\ y + 1 \in 1967..2101
  BY DEF Watched
<1>2. NewYear(y) \in Int /\ NewYear(y + 1) \in Int /\ NewYear(y + 2) \in Int
  BY <1>1, NewYearIs
<1>3. NewYear(y) + 363 <= NewYear(y + 1)
  BY <1>1, NewYearsApart
<1>4. NewYear(y + 1) + 363 <= NewYear(y + 2)
  BY <1>1, NewYearsApart
<1>5. /\ StartOfDaylight[y] \in Int /\ EndOfDaylight[y] \in Int
      /\ NewYear(y) + 60 <= StartOfDaylight[y] /\ StartOfDaylight[y] + 100 <= EndOfDaylight[y]
      /\ EndOfDaylight[y] + 30 <= NewYear(y) + 363
  <2>1. ChangesIn(y)
    BY <1>1, ChangesAre
  <2>2. QED
    BY <2>1 DEF ChangesIn
<1>6. /\ StartOfDaylight[y + 1] \in Int /\ EndOfDaylight[y + 1] \in Int
      /\ NewYear(y + 1) + 60 <= StartOfDaylight[y + 1] /\ StartOfDaylight[y + 1] + 100 <= EndOfDaylight[y + 1]
  <2>1. ChangesIn(y + 1)
    BY <1>1, ChangesAre
  <2>2. QED
    BY <2>1 DEF ChangesIn
<1>7. QED
  BY <1>2, <1>3, <1>4, <1>5, <1>6

\* About a year's days, from before its first change into the next January, the
\* offset of a day goes by that year's changes, in Python and in SQL.
LEMMA OffsetIs ==
  ASSUME NEW y \in Watched, NEW day \in Int, NewYear(y) + 40 <= day, day <= NewYear(y + 1) + 20
  PROVE  /\ UtcOffset(day) = IF StartOfDaylight[y] < day /\ day <= EndOfDaylight[y] THEN 4 ELSE 5
         /\ DaylightSql(day) <=> StartOfDaylight[y] < day /\ day <= EndOfDaylight[y]
<1>0. y \in Int /\ y \in 1967..2101 /\ y + 1 \in 1967..2101
  BY DEF Watched
<1>1. /\ NewYear(y) \in Int /\ NewYear(y + 1) \in Int /\ NewYear(y + 2) \in Int
      /\ NewYear(y + 1) + 363 <= NewYear(y + 2)
  BY AYear
<1>2. PICK year : year = YearOf(day)
  OBVIOUS
<1>3. year = y \/ year = y + 1
  <2>1. CASE day < NewYear(y + 1)
    BY <1>0, <1>1, <1>2, <2>1, OneYear
  <2>2. CASE NewYear(y + 1) <= day
    <3>1. day < NewYear((y + 1) + 1) /\ y + 1 \in Int
      BY <1>0, <1>1
    <3>2. QED
      BY <1>2, <2>2, <3>1, OneYear
  <2>3. QED
    BY <1>1, <2>1, <2>2
<1>4. /\ StartOfDaylight[y] \in Int /\ EndOfDaylight[y] \in Int
      /\ StartOfDaylight[y] <= EndOfDaylight[y] /\ EndOfDaylight[y] + 30 <= NewYear(y + 1)
  BY AYear
<1>5. year \in 1967..2101
  BY <1>0, <1>3
<1>6. /\ StartOfDaylight[y + 1] \in Int /\ EndOfDaylight[y + 1] \in Int
      /\ NewYear(y + 1) + 60 <= StartOfDaylight[y + 1]
  BY AYear
<1>7. NewYear(y + 1) <= day \/ year = y
  BY <1>0, <1>1, <1>2, OneYear
<1>8. StartOfDaylight[year] < day /\ day <= EndOfDaylight[year] <=> StartOfDaylight[y] < day /\ day <= EndOfDaylight[y]
  BY <1>1, <1>3, <1>4, <1>6, <1>7
<1>9. UtcOffset(day) = IF StartOfDaylight[year] < day /\ day <= EndOfDaylight[year] THEN 4 ELSE 5
  BY <1>2 DEF UtcOffset, StandardOffset
<1>10. DaylightSql(day) <=> day > SundaySql(Spring(year)) /\ day <= SundaySql(Fall(year))
  BY <1>2 DEF DaylightSql, Spring, Fall
<1>11. SundaySql(Spring(year)) = StartOfDaylight[year] /\ SundaySql(Fall(year)) = EndOfDaylight[year]
  <2>1. Spring(year) \in Int /\ Fall(year) \in Int
    BY <1>5, RuleDaysAre
  <2>2. StartOfDaylight[year] = SundayOnOrAfter(Spring(year)) /\ EndOfDaylight[year] = SundayOnOrAfter(Fall(year))
    BY <1>5, SundaysOfYear
  <2>3. QED
    BY <2>1, <2>2, SundaysAre
<1>12. StartOfDaylight[year] \in Int /\ EndOfDaylight[year] \in Int
  <2>1. ChangesIn(year)
    BY <1>5, ChangesAre
  <2>2. QED
    BY <2>1 DEF ChangesIn
<1>13. DaylightSql(day) <=> StartOfDaylight[year] < day /\ day <= EndOfDaylight[year]
  BY <1>10, <1>11, <1>12
<1>14. QED
  BY <1>8, <1>9, <1>13

\* The clock while it is watched about a year y: put forward from three in the
\* morning of the first day of daylight time to before two on the last.
ClockOf(y) ==
  /\ utc \in Int /\ wall \in Int /\ until \in Int /\ daylight \in BOOLEAN
  /\ utc = wall + (IF daylight THEN 4 ELSE 5)
  /\ utc <= until
  /\ Hour(NewYear(y) + 50, 0) <= wall /\ until <= Hour(NewYear(y + 1) + 10, 0)
  /\ \/ daylight = FALSE /\ wall < Hour(StartOfDaylight[y], 2)
     \/ daylight = TRUE /\ Hour(StartOfDaylight[y], 3) <= wall /\ wall < Hour(EndOfDaylight[y], 2)
     \/ daylight = FALSE /\ Hour(EndOfDaylight[y], 1) <= wall

\* The clock is watched about some year.
ClockInv == \E y \in Watched : ClockOf(y)

\* A watched hour's days: the wall's, and the UTC date it is stamped with.
LEMMA ClockAnswers == ASSUME ClockInv PROVE DatedByTheWallClock
<1>1. PICK y \in Watched : ClockOf(y)
  BY DEF ClockInv
<1> DEFINE s == StartOfDaylight[y]  e == EndOfDaylight[y]  jan == NewYear(y)  next == NewYear(y + 1)
           off(d) == IF s < d /\ d <= e THEN 4 ELSE 5
           day == wall \div 24  date == utc \div 24
<1>2. s \in Int /\ e \in Int /\ jan \in Int /\ next \in Int /\ jan + 60 <= s /\ s + 100 <= e /\ e + 30 <= next
  BY AYear
<1>3. /\ utc \in Int /\ wall \in Int
      /\ 24 * (jan + 50) <= wall /\ utc <= 24 * (next + 10)
      /\ \/ utc = wall + 5 /\ wall < 24 * s + 2
         \/ utc = wall + 4 /\ 24 * s + 3 <= wall /\ wall < 24 * e + 2
         \/ utc = wall + 5 /\ 24 * e + 1 <= wall
  BY <1>1, <1>2 DEF ClockOf, Hour
<1>4. /\ day \in Int /\ 24 * day <= wall /\ wall < 24 * day + 24
      /\ date \in Int /\ 24 * date <= utc /\ utc < 24 * date + 24
  BY <1>3, InDay
<1>5. \A d \in Int : jan + 40 <= d /\ d <= next + 20 => UtcOffset(d) = off(d) /\ (DaylightSql(d) <=> off(d) = 4)
  <2>1. SUFFICES ASSUME NEW d \in Int, jan + 40 <= d, d <= next + 20
                 PROVE  UtcOffset(d) = off(d) /\ (DaylightSql(d) <=> off(d) = 4)
    OBVIOUS
  <2>2. /\ UtcOffset(d) = off(d)
        /\ DaylightSql(d) <=> s < d /\ d <= e
    BY <2>1, OffsetIs
  <2>3. off(d) = 4 <=> s < d /\ d <= e
    OBVIOUS
  <2>4. QED
    BY <2>2, <2>3
<1> HIDE DEF s, e, jan, next, day, date
<1>6. jan + 49 <= day /\ day <= next + 11 /\ (date = day \/ date = day + 1)
  BY <1>2, <1>3, <1>4
<1>7. UtcOffset(date) = off(date) /\ (DaylightSql(date) <=> off(date) = 4)
  BY <1>2, <1>4, <1>5, <1>6
<1>8. 24 * day <= utc - off(date) /\ utc - off(date) < 24 * day + 24
  BY <1>2, <1>3, <1>4, <1>6
<1>9. (utc - off(date)) \div 24 = day
  BY <1>3, <1>4, <1>8, DivIs
<1>10. EasternDate(utc) = day
  BY <1>7, <1>9 DEF EasternDate, date
<1>11. EasternDateSql(utc) = day
  BY <1>7, <1>9 DEF EasternDateSql, StandardOffset, date
<1>12. ASSUME NEW d \in (day - 1)..(day + 1) PROVE utc \in DayRange(d) <=> d = day
  <2>1. d \in Int /\ d + 1 \in Int
    BY <1>4
  <2>2. UtcOffset(d) = off(d) /\ UtcOffset(d + 1) = off(d + 1)
    BY <1>2, <1>4, <1>5, <1>6, <2>1
  <2>3. utc \in DayRange(d) <=> 24 * d + off(d) <= utc /\ utc <= 24 * (d + 1) + off(d + 1) - 1
    BY <1>3, <2>1, <2>2 DEF DayRange
  <2>4. 24 * d + off(d) <= utc /\ utc <= 24 * (d + 1) + off(d + 1) - 1 <=> d = day
    BY <1>2, <1>3, <1>4, <2>1
  <2>5. QED
    BY <2>3, <2>4
<1>13. QED
  BY <1>10, <1>11, <1>12 DEF DatedByTheWallClock, day

\* The clock is set right at noon.
LEMMA ClockIsSet == ASSUME ClockInit PROVE ClockInv
<1>1. PICK y \in Years, day \in Int :
        /\ \E change \in {StartOfDaylight[y], EndOfDaylight[y], Ordinal(y, 12, 31)} : change - 2 <= day /\ day <= change + 2
        /\ daylight = (StartOfDaylight[y] <= day /\ day < EndOfDaylight[y])
        /\ wall = 24 * day + 12
        /\ utc = wall + (IF daylight THEN 4 ELSE 5)
        /\ until = utc + 24
  <2>1. PICK y \in Years : \E change \in {StartOfDaylight[y], EndOfDaylight[y], Ordinal(y, 12, 31)} :
            \E day \in (change - 2)..(change + 2) :
                /\ daylight = (StartOfDaylight[y] <= day /\ day < EndOfDaylight[y])
                /\ wall = 24 * day + 12
                /\ utc = wall + (IF daylight THEN 4 ELSE 5)
                /\ until = utc + 24
    BY DEF ClockInit
  <2>2. QED
    BY <2>1
<1>2. y \in Watched
  BY YearsAssumption DEF Watched
<1> DEFINE s == StartOfDaylight[y]  e == EndOfDaylight[y]  jan == NewYear(y)  next == NewYear(y + 1)
<1>3. s \in Int /\ e \in Int /\ jan \in Int /\ next \in Int /\ jan + 60 <= s /\ s + 100 <= e /\ e + 30 <= next
      /\ jan + 363 <= next
  BY <1>2, AYear
<1>4. Ordinal(y, 12, 31) \in Int /\ jan + 364 <= Ordinal(y, 12, 31) /\ Ordinal(y, 12, 31) <= jan + 365
  <2>1. DaysBeforeMonth(y, 12) \in {334, 335}
    BY DEF DaysBeforeMonth
  <2>2. Ordinal(y, 12, 31) = DaysUpTo(y - 1) + DaysBeforeMonth(y, 12) + 31
    BY DEF Ordinal, DaysUpTo
  <2>3. jan = DaysUpTo(y - 1) + 1 /\ DaysUpTo(y - 1) \in Int
    BY <1>2, NewYearIs, YearsAre DEF Watched
  <2>4. QED
    BY <2>1, <2>2, <2>3
<1>5. jan + 58 <= day /\ day <= next + 4
  <2> HIDE DEF s, e, jan, next
  <2>1. PICK change \in {s, e, Ordinal(y, 12, 31)} : change - 2 <= day /\ day <= change + 2
    BY <1>1 DEF s, e
  <2>2. QED
    BY <1>3, <1>4, <2>1
<1> HIDE DEF s, e, jan, next
<1>6. CASE s <= day /\ day < e
  <2>1. daylight = TRUE /\ wall = 24 * day + 12 /\ utc = wall + 4 /\ until = utc + 24
    BY <1>1, <1>6 DEF s, e
  <2>2. /\ 24 * (jan + 50) <= wall /\ until <= 24 * (next + 10) /\ 24 * s + 3 <= wall /\ wall < 24 * e + 2
        /\ wall \in Int /\ utc \in Int /\ until \in Int /\ utc <= until
    BY <1>3, <1>5, <1>6, <2>1
  <2>3. ClockOf(y)
    BY <1>3, <2>1, <2>2 DEF ClockOf, Hour, s, e, jan, next
  <2>4. QED
    BY <1>2, <2>3 DEF ClockInv
<1>7. CASE ~(s <= day /\ day < e)
  <2>1. daylight = FALSE /\ wall = 24 * day + 12 /\ utc = wall + 5 /\ until = utc + 24
    BY <1>1, <1>7 DEF s, e
  <2>2. /\ 24 * (jan + 50) <= wall /\ until <= 24 * (next + 10) /\ (wall < 24 * s + 2 \/ 24 * e + 1 <= wall)
        /\ wall \in Int /\ utc \in Int /\ until \in Int /\ utc <= until
    BY <1>3, <1>5, <1>7, <2>1
  <2>3. /\ 24 * (jan + 50) + 0 <= wall /\ until <= 24 * (next + 10) + 0
        /\ utc = wall + (IF daylight THEN 4 ELSE 5)
    BY <1>3, <2>1, <2>2
  <2>4. ClockOf(y)
    BY <2>1, <2>2, <2>3 DEF ClockOf, Hour, s, e, jan, next
  <2>5. QED
    BY <1>2, <2>4 DEF ClockInv
<1>8. QED
  BY <1>6, <1>7

\* And runs right: forward on one Sunday, back on the other, and on into the next
\* year.
LEMMA TickIsKept == ASSUME ClockInv, Tick PROVE ClockInv'
<1>1. PICK y \in Watched : ClockOf(y)
  BY DEF ClockInv
<1>2. PICK s, e, jan, jan2 :
        /\ s = StartOfDaylight[y] /\ e = EndOfDaylight[y] /\ jan = NewYear(y) /\ jan2 = NewYear(y + 1)
  OBVIOUS
<1>3. /\ s \in Int /\ e \in Int /\ jan \in Int /\ jan2 \in Int
      /\ jan + 60 <= s /\ s + 100 <= e /\ e + 30 <= jan2
  BY <1>2, AYear
<1>4. /\ utc \in Int /\ wall \in Int /\ until \in Int /\ daylight \in BOOLEAN
      /\ utc < until /\ utc' = utc + 1 /\ until' = until
  BY <1>1 DEF ClockOf, Tick
<1>5. /\ utc = wall + (IF daylight THEN 4 ELSE 5)
      /\ 24 * (jan + 50) <= wall /\ until <= 24 * (jan2 + 10)
      /\ \/ daylight = FALSE /\ wall < 24 * s + 2
         \/ daylight = TRUE /\ 24 * s + 3 <= wall /\ wall < 24 * e + 2
         \/ daylight = FALSE /\ 24 * e + 1 <= wall
  <2>1. /\ utc = wall + (IF daylight THEN 4 ELSE 5)
        /\ 24 * (jan + 50) + 0 <= wall /\ until <= 24 * (jan2 + 10) + 0
        /\ \/ daylight = FALSE /\ wall < 24 * s + 2
           \/ daylight = TRUE /\ 24 * s + 3 <= wall /\ wall < 24 * e + 2
           \/ daylight = FALSE /\ 24 * e + 1 <= wall
    BY <1>1, <1>2 DEF ClockOf, Hour
  <2>2. QED
    BY <1>3, <1>4, <2>1
<1>6. PICK year : year = YearOf(wall \div 24)
  OBVIOUS
<1>7. PICK on, off : on = Hour(StartOfDaylight[year], 2) /\ off = Hour(EndOfDaylight[year], 2)
  OBVIOUS
<1>8. \/ on = 24 * s + 2 /\ off = 24 * e + 2
      \/ /\ on \in Int /\ off \in Int
         /\ 24 * jan2 <= wall /\ 24 * (jan2 + 60) <= on /\ 24 * (jan2 + 60) <= off
  <2>1. PICK day : day = wall \div 24
    OBVIOUS
  <2>2. day \in Int /\ 24 * day <= wall /\ wall < 24 * day + 24
    BY <1>4, <2>1, InDay
  <2>3. NewYear(y + 2) \in Int /\ jan2 + 363 <= NewYear(y + 2)
    BY <1>2, AYear
  <2>4. jan <= day /\ day <= jan2 + 10
    BY <1>3, <1>4, <1>5, <2>2
  <2>5. CASE day < jan2
    <3>1. year = y
      BY <1>2, <1>6, <2>1, <2>2, <2>4, <2>5, OneYear DEF Watched
    <3>2. QED
      BY <1>2, <1>7, <3>1 DEF Hour
  <2>6. CASE jan2 <= day
    <3>1. day < NewYear((y + 1) + 1) /\ y + 1 \in Int
      BY <1>3, <2>2, <2>3, <2>4 DEF Watched
    <3>2. year = y + 1
      BY <1>2, <1>6, <2>1, <2>2, <2>6, <3>1, OneYear
    <3>3. PICK s2, e2 : s2 = StartOfDaylight[y + 1] /\ e2 = EndOfDaylight[y + 1]
      OBVIOUS
    <3>4. s2 \in Int /\ e2 \in Int /\ jan2 + 60 <= s2 /\ s2 + 100 <= e2
      BY <1>2, <3>3, AYear
    <3>5. on = 24 * s2 + 2 /\ off = 24 * e2 + 2
      BY <1>7, <3>2, <3>3 DEF Hour
    <3>6. QED
      BY <1>3, <1>4, <2>2, <2>6, <3>4, <3>5
  <2>7. QED
    BY <1>3, <2>2, <2>5, <2>6
<1>9. \/ wall + 1 = on /\ daylight = FALSE /\ wall' = wall + 2 /\ daylight' = TRUE
      \/ wall + 1 = off /\ daylight = TRUE /\ wall' = wall /\ daylight' = FALSE
      \/ /\ (wall + 1 # on /\ wall + 1 # off) \/ (wall + 1 = off /\ daylight = FALSE)
         /\ wall' = wall + 1 /\ daylight' = daylight
  <2>1. PICK ahead : ahead = wall + 1
    OBVIOUS
  <2>2. \/ ahead = on /\ ~daylight /\ wall' = ahead + 1 /\ daylight' = TRUE
        \/ ahead = off /\ daylight /\ wall' = ahead - 1 /\ daylight' = FALSE
        \/ /\ (ahead \notin {on, off}) \/ (ahead = off /\ ~daylight)
           /\ wall' = ahead /\ daylight' = daylight
    BY <1>6, <1>7, <2>1 DEF Tick
  <2>3. QED
    BY <1>4, <2>1, <2>2
<1>10. wall' \in Int /\ daylight' \in BOOLEAN
  <2>1. wall' = wall + 2 \/ wall' = wall \/ wall' = wall + 1
    BY <1>9
  <2>2. daylight' = TRUE \/ daylight' = FALSE \/ daylight' = daylight
    BY <1>9
  <2>3. wall' \in Int
    BY <1>4, <2>1
  <2>4. daylight' \in BOOLEAN
    BY <1>4, <2>2, Zenon
  <2>5. QED
    BY <2>3, <2>4
<1>11. SUFFICES /\ 24 * (jan + 50) <= wall'
                /\ \/ daylight' = FALSE /\ utc' = wall' + 5 /\ wall' < 24 * s + 2
                   \/ daylight' = TRUE /\ utc' = wall' + 4 /\ 24 * s + 3 <= wall' /\ wall' < 24 * e + 2
                   \/ daylight' = FALSE /\ utc' = wall' + 5 /\ 24 * e + 1 <= wall'
  <2>1. utc' \in Int /\ until' \in Int /\ utc' <= until'
    BY <1>4
  <2>2. 24 * (jan + 50) <= wall' => 24 * (jan + 50) + 0 <= wall'
    BY <1>3
  <2>3. until' <= 24 * (jan2 + 10) + 0
    BY <1>3, <1>4, <1>5
  <2>4. utc' = wall' + (IF daylight' THEN 4 ELSE 5)
    OBVIOUS
  <2>5. Hour(NewYear(y) + 50, 0) <= wall' /\ until' <= Hour(NewYear(y + 1) + 10, 0)
    BY <1>2, <2>2, <2>3 DEF Hour
  <2>6. \/ daylight' = FALSE /\ wall' < Hour(StartOfDaylight[y], 2)
        \/ daylight' = TRUE /\ Hour(StartOfDaylight[y], 3) <= wall' /\ wall' < Hour(EndOfDaylight[y], 2)
        \/ daylight' = FALSE /\ Hour(EndOfDaylight[y], 1) <= wall'
    BY <1>2 DEF Hour
  <2>7. ClockOf(y)'
    BY <1>10, <2>1, <2>4, <2>5, <2>6, Zenon DEF ClockOf
  <2>8. QED
    BY <2>7 DEF ClockInv
<1>12. \/ daylight = FALSE /\ utc = wall + 5 /\ wall < 24 * s + 2
       \/ daylight = TRUE /\ utc = wall + 4 /\ 24 * s + 3 <= wall /\ wall < 24 * e + 2
       \/ daylight = FALSE /\ utc = wall + 5 /\ 24 * e + 1 <= wall
  BY <1>5
<1>13. 24 * (jan + 50) <= wall
  BY <1>5
<1>14. wall < 24 * (jan2 + 10)
  BY <1>3, <1>4, <1>5, <1>12
<1>15. CASE on = 24 * s + 2 /\ off = 24 * e + 2
  <2>1. CASE wall + 1 = on /\ daylight = FALSE /\ wall' = wall + 2 /\ daylight' = TRUE
    BY <1>3, <1>4, <1>12, <1>13, <1>15, <2>1
  <2>2. CASE wall + 1 = off /\ daylight = TRUE /\ wall' = wall /\ daylight' = FALSE
    <3>1. wall + 1 = 24 * e + 2
      BY <1>15, <2>2
    <3>2. utc = wall + 4
      BY <1>12, <2>2
    <3>3. utc' = wall' + 5 /\ 24 * e + 1 <= wall'
      BY <1>3, <1>4, <2>2, <3>1, <3>2
    <3>4. QED
      BY <1>13, <2>2, <3>3, Zenon
  <2>3. CASE /\ (wall + 1 # on /\ wall + 1 # off) \/ (wall + 1 = off /\ daylight = FALSE)
             /\ wall' = wall + 1 /\ daylight' = daylight
    BY <1>3, <1>4, <1>12, <1>13, <1>15, <2>3
  <2>4. QED
    BY <1>9, <2>1, <2>2, <2>3
<1>16. CASE /\ on \in Int /\ off \in Int
            /\ 24 * jan2 <= wall /\ 24 * (jan2 + 60) <= on /\ 24 * (jan2 + 60) <= off
  <2>1. wall + 1 # on /\ wall + 1 # off
    BY <1>3, <1>4, <1>14, <1>16
  <2>2. wall' = wall + 1 /\ daylight' = daylight
    BY <1>9, <2>1
  <2>3. daylight = FALSE /\ 24 * e + 1 <= wall /\ utc = wall + 5
    BY <1>3, <1>4, <1>12, <1>16
  <2>4. utc' = wall' + 5 /\ 24 * e + 1 <= wall' /\ daylight' = FALSE
    BY <1>3, <1>4, <2>2, <2>3
  <2>5. 24 * (jan + 50) <= wall'
    BY <1>3, <1>4, <1>13, <2>2
  <2>6. QED
    BY <2>4, <2>5, Zenon
<1>17. QED
  BY <1>8, <1>15, <1>16

\* In any years from 1976 to 2100, at any hour about a change of the clocks or of
\* the year, a UTC stamp is dated the day the wall clock in New York shows, by
\* nba/season.py's rule and by the SQL rule of the warehouse, and lies in the range
\* of stamps asked for that day and in no neighbour's: the UTC date does decide the
\* offset.
THEOREM DatedByTheClock == ClockSpec => []DatedByTheWallClock
<1>1. ClockInit => ClockInv
  BY ClockIsSet
<1>2. ClockInv /\ [ClockNext]_clockVars => ClockInv'
  <2>1. CASE UNCHANGED clockVars
    BY <2>1 DEF clockVars, ClockInv, ClockOf
  <2>2. QED
    BY <2>1, TickIsKept DEF ClockNext, ClockStops
<1>3. ClockInv => DatedByTheWallClock
  BY ClockAnswers
<1>4. QED
  BY <1>1, <1>2, <1>3, PTL DEF ClockSpec
==============================================================================
