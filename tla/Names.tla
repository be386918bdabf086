-------------------------------- MODULE Names --------------------------------
(* Whom a name means (query/entities.py): the players its words match, those *)
(* of them with a row to answer from, and what is asked or said where that   *)
(* leaves more than one.  Namesakes are eliminated by what the warehouse     *)
(* holds and never chosen between, and a default is told in the answer.      *)
(*                                                                           *)
(* How letters match is abstracted to how well a name's words match the      *)
(* words asked, best first: "exact", it is the whole name; "word", they      *)
(* begin words of it; "inside", they are somewhere in it; "surname", only    *)
(* the last one does; "near", each is a slip away from a word of it.         *)
EXTENDS Integers, Sequences, FiniteSets, FiniteSetsExt

CONSTANTS
  Namesakes,     \* numbers, in the order of the names
  NamesakeRows,  \* per season, the rows a player may have: his team, and the tables
  MaxCandidates, MaxClarifyCandidates,
  NoSeason, NoTeam

NamedTables == {"box", "log"}   \* two tables an answer may rest on

ASSUME NamesAssumption ==
  /\ Namesakes \subseteq Nat /\ IsFiniteSet(Namesakes)
  /\ MaxCandidates \in Nat \ {0, 1}
  /\ \A s \in DOMAIN NamesakeRows : \A row \in NamesakeRows[s] :
       row.tables \subseteq NamedTables /\ (row.team = NoTeam <=> "box" \notin row.tables)

VARIABLES
  match,       \* [player -> how his name matches the words asked]
  teamsWord,   \* the words name a team
  seasonRows,  \* per season there has been, [player -> his row]
  absent       \* the tables the warehouse does not have

namesVars == << match, teamsWord, seasonRows, absent >>

NamesInit ==
  \* what is only looked for where no name matches is told only there
  /\ match \in [Namesakes -> {"none", "inside", "word", "exact"}] \cup [Namesakes -> {"none", "near", "surname"}]
  /\ teamsWord \in BOOLEAN /\ (teamsWord => \A p \in Namesakes : match[p] \in {"none", "near"})
  /\ seasonRows = << >>
  /\ absent \in {{}, {"log"}}

PlaySeason ==
  /\ Len(seasonRows) < Len(NamesakeRows)
  /\ \E rows \in [Namesakes -> NamesakeRows[Len(seasonRows) + 1]] : seasonRows' = Append(seasonRows, rows)
  /\ UNCHANGED << match, teamsWord, absent >>

NamesOver == Len(seasonRows) = Len(NamesakeRows) /\ UNCHANGED namesVars

-----------------------------------------------------------------------------
(* A question about a name: the tables its answer rests on, the team its     *)
(* words read his games for, and its season, or else the one its name is     *)
(* settled by (`through`).                                                   *)

\* current_season: the last there has been, or one with no game yet.
CurrentSeasons == {Len(seasonRows), Len(seasonRows) + 1} \ {0}

\* scoped_player: one season, named or the current one ...
OneSeason ==
  {[season |-> s, through |-> NoSeason] : s \in DOMAIN seasonRows \cup CurrentSeasons}
\* ... or a span, a career or one that ended long ago: career_end gives the
\* current season for either.
Spans == {[season |-> NoSeason, through |-> now] : now \in CurrentSeasons}
\* history_subject: the seasons up to the one named, or the current one.
Histories == {[season |-> NoSeason, through |-> s] : s \in DOMAIN seasonRows \cup CurrentSeasons}

NameQuestions ==
  { [sources |-> tables, team |-> side, season |-> w.season, through |-> w.through] :
      tables \in SUBSET NamedTables \ {{}},
      side \in UNION {{row.team : row \in NamesakeRows[s]} : s \in DOMAIN NamesakeRows},
      w \in OneSeason \cup Spans \cup Histories }

\* _available_ids: of a season, or of all up to `through`.
Seasons(q) == DOMAIN seasonRows \cap IF q.season # NoSeason THEN {q.season} ELSE 1..q.through

RowIn(p, sources, seasons) == \E s \in seasons : seasonRows[s][p].tables \cap sources # {}

NarrowToAvailable(candidates, sources, seasons) == {p \in candidates : RowIn(p, sources, seasons)}

\* the first of a list of candidates, in the order of their names
FirstOf(candidates, n) == {p \in candidates : Cardinality({o \in candidates : o < p}) < n}

\* A slip the docstring of resolve_player warns of: narrowing the first page.
FindFirstPage(limit) ==
  LET strong == {p \in Namesakes : match[p] \in {"word", "exact"}}
      weak == {p \in Namesakes : match[p] = "inside"}
  IN  FirstOf(IF strong # {} THEN strong ELSE weak, MaxCandidates)

\* Those at the start of a word are the whole answer, if there are any.
FindPlayers(limit) ==
  LET strong == {p \in Namesakes : match[p] \in {"word", "exact"}}
      weak == {p \in Namesakes : match[p] = "inside"}
  IN  FirstOf(IF strong # {} THEN strong ELSE weak, limit)

NoLimit == Cardinality(Namesakes)

Exact(candidates) ==
  LET whole == {p \in candidates : match[p] = "exact"} IN
  IF Cardinality(whole) = 1 THEN whole ELSE {}

-----------------------------------------------------------------------------
(* What is answered: a player, and whom the answer says it did not take the  *)
(* name for; a question; or a refusal.                                       *)

Him(p) == [kind |-> "player", who |-> p, told |-> FALSE, others |-> {}]
HimAmong(p, others) == [kind |-> "player", who |-> p, told |-> TRUE, others |-> others]
WhichOf(candidates, active) == [kind |-> "ambiguous", candidates |-> candidates, active |-> active]
NotFound == [kind |-> "not_found"]

\* _suggest_players_by_spelling
NearSpellings ==
  LET near == {p \in Namesakes : match[p] = "near"}
      active == IF seasonRows = << >> THEN {} ELSE NarrowToAvailable(near, {"box"}, {Len(seasonRows)})
  IN  IF Cardinality(near) <= MaxClarifyCandidates THEN near
      ELSE IF Cardinality(active) <= MaxClarifyCandidates THEN active ELSE {}

SuggestPlayers ==
  LET surnames == {p \in Namesakes : match[p] = "surname"} IN
  IF teamsWord THEN {}
  ELSE IF surnames # {} /\ Cardinality(surnames) <= MaxClarifyCandidates THEN surnames
  ELSE NearSpellings

ReadNearSpelling == IF ~teamsWord /\ Cardinality(NearSpellings) = 1 THEN NearSpellings ELSE {}

\* _resolve_player_unnarrowed
Unnarrowed(candidates) ==
  IF candidates = {} THEN IF ReadNearSpelling = {} THEN NotFound ELSE HimAmong(Max(ReadNearSpelling), {})
  ELSE IF Cardinality(candidates) = 1 THEN Him(Max(candidates))
  ELSE IF Exact(candidates) # {} THEN Him(Max(Exact(candidates)))
  ELSE WhichOf(candidates, {})

ForTeam(everyone, team) ==
  LET have == {p \in everyone : \E s \in DOMAIN seasonRows : seasonRows[s][p].team = team} IN
  IF team = NoTeam \/ have = {} THEN everyone ELSE have

NamedInFull(q, named, everyone) ==
  LET couldBe == NarrowToAvailable(everyone, q.sources, Seasons(q)) IN
  IF named \in couldBe \/ Cardinality(couldBe) # 1 THEN Him(named)
  ELSE HimAmong(Max(couldBe), {named})

\* resolve_player's last steps, over the namesakes the team leaves
Narrowed(q, everyone) ==
  LET narrowed == NarrowToAvailable(everyone, q.sources, Seasons(q))
      current == IF q.season # NoSeason THEN narrowed
                 ELSE NarrowToAvailable(narrowed, q.sources, {q.through} \cap DOMAIN seasonRows)
  IN  IF Cardinality(narrowed) = 1 THEN Him(Max(narrowed))
      ELSE IF narrowed = {} THEN WhichOf(FirstOf(everyone, MaxCandidates), {})
      ELSE IF q.season = NoSeason /\ Cardinality(current) = 1 THEN HimAmong(Max(current), narrowed \ current)
      ELSE WhichOf(narrowed, current)

\* resolve_player, and resolved_player's way out where a table is missing: the
\* same name, narrowed by nothing.
ResolvePlayer(q) ==
  LET everyone == FindPlayers(NoLimit)
      his == ForTeam(everyone, q.team)
  IN  IF Cardinality(everyone) < 2 THEN Unnarrowed(everyone)
      ELSE IF Cardinality(his) = 1 THEN Him(Max(his))
      ELSE IF q.sources \cap absent # {} THEN Unnarrowed(FindPlayers(MaxCandidates))
      ELSE IF Exact(his) # {} THEN NamedInFull(q, Max(Exact(his)), his)
      ELSE Narrowed(q, his)

ResolvedPlayer(q) ==
  LET answer == ResolvePlayer(q) IN
  IF answer # NotFound THEN answer
  ELSE IF SuggestPlayers # {} THEN [kind |-> "did_you_mean", candidates |-> SuggestPlayers]
  ELSE [kind |-> "name_unmatched"]

NamesNext == PlaySeason \/ NamesOver
NamesSpec == NamesInit /\ [][NamesNext]_namesVars

-----------------------------------------------------------------------------
\* A player fits the words if they begin words of his name, or are in it where
\* they begin nobody's.
Fits(p) ==
  \/ match[p] \in {"word", "exact"}
  \/ match[p] = "inside" /\ \A o \in Namesakes : match[o] \notin {"word", "exact"}

\* Whom a question could be about: of those the words fit, who played for its
\* team, if any of them did.
Meant(q) ==
  LET PlayedFor(p) == \E s \in DOMAIN seasonRows : seasonRows[s][p].team = q.team IN
  {p \in Namesakes : Fits(p) /\ (q.team = NoTeam \/ PlayedFor(p) \/ \A o \in Namesakes : Fits(o) => ~PlayedFor(o))}

\* Of those the words could mean, `couldBe` have a row to answer from, and nobody
\* is named in full where two have the name.
MeansOne(q, answer) ==
  LET missing == q.sources \cap absent # {}
      meant == Meant(q)
      couldBe == {p \in meant : RowIn(p, q.sources, Seasons(q))}
      inFull == Exact(meant)
  IN  CASE answer.kind = "player" /\ ~answer.told ->
             \/ meant = {answer.who} \/ {p \in Namesakes : Fits(p)} = {answer.who}
             \/ ~missing /\ couldBe = {answer.who}
             \/ answer.who \in inFull
             \/ missing /\ match[answer.who] = "exact"
        [] answer.kind = "player" /\ answer.told ->
             IF meant = {} THEN match[answer.who] = "near"
             ELSE /\ couldBe \subseteq {answer.who} \cup answer.others
                  /\ answer.who \in couldBe /\ inFull \subseteq {answer.who} \cup answer.others
                  /\ \A o \in answer.others :
                       \/ o \in inFull /\ couldBe = {answer.who}
                       \/ RowIn(answer.who, q.sources, {q.through}) /\ ~RowIn(o, q.sources, {q.through})
        [] answer.kind = "ambiguous" ->
             /\ inFull = {} \/ missing
             /\ ~missing => Cardinality(couldBe) # 1 /\ answer.candidates \subseteq meant
             /\ ~missing => answer.candidates = couldBe \/ couldBe = {}
        [] OTHER -> meant = {}

\* A name is never answered about one of two men it could be without saying so:
\* the player taken is the only one of those it could be with a row to answer
\* from, in the season asked or in any up to the one a span is settled by; or it
\* is his name in full; or the answer tells the others, and then he alone of
\* them played in that last season.  Where one alone could be it nothing is
\* asked, and whoever is asked about could be it.
NameMeansOne == \A q \in NameQuestions : MeansOne(q, ResolvedPlayer(q))
=============================================================================
