------------------------------- MODULE Athletes -------------------------------
(* Who a name is. NetPoints names players and gives no ids; ESPN gives ids   *)
(* and files some players under two. The pull answers a name with an id from *)
(* what is on disk (Pipeline._name_to_athlete_id, resolve_athlete_id); the   *)
(* load merges two ids filed in one team's box score into one                *)
(* (duplicate_athletes_sql). Both must come to the same id, from different   *)
(* data: the pull reads ids and minutes, the load whole lines. And the pull  *)
(* decides first: NetPoints' rows are written under the id a name had then,  *)
(* their date is not asked for again, and the load merges box scores only.   *)
EXTENDS Integers, FiniteSets, FiniteSetsExt

CONSTANTS
    Athletes,   \* athlete ids, ordered as the code orders them
    NameOf,     \* the name players gives each
    KeyOf,      \* parse.match_key: each name reduced to what two sources share
    Slots,      \* a team's box score of a game, in the order they are stored
    Shapes,     \* what a row may hold: a line with minutes ("line ..."), an
                \* explicit "dnp", or the all-zero "ghost"
    NoId, NoRow,
    NoAnswer    \* not asked for, or not answered

ASSUME AthletesAssumption == Athletes \subseteq Nat /\ IsFiniteSet(Athletes) /\ NoId \notin Athletes
ASSUME SlotsAssumption == Slots \subseteq Nat /\ IsFiniteSet(Slots) /\ Slots # {}
ASSUME KeysAssumption == \A a \in Athletes : NameOf[a] \in DOMAIN KeyOf

VARIABLES
    known,      \* ids in players
    boxScores,  \* player_box_stats: Slots -> Athletes -> a row's shape, or NoRow
    next,       \* the next box score to be stored
    given       \* of each name, the id NetPoints' rows of some date were written
                \* under, and the first box score not yet stored then

athletesVars == <<known, boxScores, next, given>>

Names == DOMAIN KeyOf
IdsOf(name) == {a \in known : NameOf[a] = name}

HasMinutes(shape) == shape \notin {NoRow, "dnp", "ghost"}
RowsOf(a) == {s \in Slots : boxScores[s][a] # NoRow}
WithMinutes(a) == {s \in Slots : HasMinutes(boxScores[s][a])}
Share(a, b) == RowsOf(a) \cap RowsOf(b) # {}

-----------------------------------------------------------------------------
(* At fetch time.                                                            *)

\* A plausible slip: rows counted, with minutes or without.
EstablishedByRows(a, b) ==
    LET rows(x) == Cardinality(RowsOf(x))
    IN  \/ rows(a) > rows(b)
        \/ rows(a) = rows(b) /\ a < b

\* _established: more rows with minutes, then more rows, then the lower id.
Established(a, b) ==
    LET minutes(x) == Cardinality(WithMinutes(x))
        rows(x) == Cardinality(RowsOf(x))
    IN  \/ minutes(a) > minutes(b)
        \/ /\ minutes(a) = minutes(b)
           /\ rows(a) > rows(b) \/ (rows(a) = rows(b) /\ a < b)

\* _resolve_duplicate_athlete_pairs: two ids of a name that share a box score.
ResolvePair(ids) ==
    IF \E a, b \in ids : a # b /\ Share(a, b)
    THEN CHOOSE a \in ids : \A b \in ids \ {a} : Established(a, b)
    ELSE NoId

ExactId(name) ==
    CASE Cardinality(IdsOf(name)) = 1 -> CHOOSE a \in IdsOf(name) : TRUE
      [] Cardinality(IdsOf(name)) = 2 -> ResolvePair(IdsOf(name))
      [] OTHER -> NoId

\* A plausible slip: a reduced spelling two people reach goes to one of them.
AliasIdOfAny(key) ==
    LET ids == UNION {IdsOf(n) : n \in {m \in Names : KeyOf[m] = key}}
    IN  IF ids # {} THEN Min(ids) ELSE NoId

\* _match_key_aliases: a reduced spelling only one id can be reached by, and
\* no player's own name.
AliasId(key) ==
    LET ids == UNION {IdsOf(n) : n \in {m \in Names : KeyOf[m] = key}}
    IN  IF Cardinality(ids) = 1 /\ IdsOf(key) = {} THEN CHOOSE a \in ids : TRUE ELSE NoId

\* resolve_athlete_id: the name as spelt, or its reduced spelling, looked up
\* in a map that holds both.
Lookup(name) == IF ExactId(name) # NoId THEN ExactId(name) ELSE AliasId(name)
ResolveAthleteId(name) == IF Lookup(name) # NoId THEN Lookup(name) ELSE Lookup(KeyOf[name])

-----------------------------------------------------------------------------
(* At load time: duplicate_athletes_sql.                                     *)

\* dup_groups: box scores in which exactly two ids have the name.
DupGroups(name) ==
    {s \in Slots : Cardinality({a \in IdsOf(name) : boxScores[s][a] # NoRow}) = 2}
Candidates(name) == {a \in IdsOf(name) : RowsOf(a) \cap DupGroups(name) # {}}

\* A plausible slip: the history of the box scores they share alone.
RankedBySharedGames(a, b) ==
    LET groups == DupGroups(NameOf[a])
        history(x) == <<Cardinality(WithMinutes(x) \cap groups), Cardinality(RowsOf(x) \cap groups)>>
    IN  \/ history(a)[1] > history(b)[1]
        \/ history(a)[1] = history(b)[1] /\ history(a)[2] > history(b)[2]
        \/ history(a) = history(b) /\ a < b

\* ranked, over id_history: the same order, of the sums the SQL takes.
RankedBefore(a, b) ==
    LET history(x) == <<Cardinality(WithMinutes(x)), Cardinality(RowsOf(x))>>
    IN  \/ history(a)[1] > history(b)[1]
        \/ history(a)[1] = history(b)[1] /\ history(a)[2] > history(b)[2]
        \/ history(a) = history(b) /\ a < b
Canonical(name) ==
    CHOOSE a \in Candidates(name) : \A b \in Candidates(name) \ {a} : RankedBefore(a, b)

\* A plausible slip: every shared name in a box score is taken for one player.
SafeAnyway(name) == TRUE

\* safety: in every box score they share one has no minutes, or the lines agree.
Safe(name) ==
    \A s \in DupGroups(name) : \A a, b \in IdsOf(name) :
        a < b /\ HasMinutes(boxScores[s][a]) /\ HasMinutes(boxScores[s][b]) => boxScores[s][a] = boxScores[s][b]

Merges(name) == Candidates(name) # {} /\ Safe(name)
MergedId(a) ==
    LET name == NameOf[a]
    IN  IF a \in known /\ a \in Candidates(name) /\ Merges(name) THEN Canonical(name) ELSE a

\* The one row kept of those that became the same player's: minutes first, an
\* explicit did_not_play before the all-zero blank, then the id's own.
Informs(shape) == CASE HasMinutes(shape) -> 2 [] shape = "dnp" -> 1 [] OTHER -> 0
Deduped(s, id) ==
    LET rows == {a \in Athletes : boxScores[s][a] # NoRow /\ MergedId(a) = id}
        kept == CHOOSE a \in rows :
                    \A b \in rows \ {a} :
                        \/ Informs(boxScores[s][a]) > Informs(boxScores[s][b])
                        \/ /\ Informs(boxScores[s][a]) = Informs(boxScores[s][b])
                           /\ a = id \/ (b # id /\ a < b)
    IN  IF rows = {} THEN NoRow ELSE boxScores[s][kept]

-----------------------------------------------------------------------------
(* The pull: box scores are stored one by one, each player's bio when the    *)
(* box score naming him is (_cache_player_bio); a name may be asked for      *)
(* between any two.                                                          *)
AthletesInit ==
    /\ known = {}
    /\ boxScores = [s \in Slots |-> [a \in Athletes |-> NoRow]]
    /\ next = Min(Slots)
    /\ given = [name \in Names |-> NoAnswer]

StoreBoxScore ==
    /\ next \in Slots
    /\ \E rows \in [Athletes -> Shapes \cup {NoRow}] :
          /\ boxScores' = [boxScores EXCEPT ![next] = rows]
          /\ known' = known \cup {a \in Athletes : rows[a] # NoRow}
    /\ next' = next + 1
    /\ UNCHANGED given

\* fetch_net_points_daily, of a date whose rows have the name: they are written
\* under what the map says by then, and the date is marked.
GiveId(name) ==
    /\ given[name] = NoAnswer
    /\ ResolveAthleteId(name) # NoId
    /\ given' = [given EXCEPT ![name] = [id |-> ResolveAthleteId(name), at |-> next]]
    /\ UNCHANGED <<known, boxScores, next>>

AthletesOver == next \notin Slots /\ UNCHANGED athletesVars

AthletesNext == StoreBoxScore \/ (\E name \in Names : GiveId(name)) \/ AthletesOver

AthletesSpec == AthletesInit /\ [][AthletesNext]_athletesVars

-----------------------------------------------------------------------------
(* Two implementations of one rule, over different columns of the same       *)
(* files: where the load merges two ids into one and the pull answers the    *)
(* name at all, it answers with the id that survives. And no name is         *)
(* answered with one of two people: every other id the spelling, or else the *)
(* reduced spelling, reaches has been filed in one box score with it.        *)
Reached(name) ==
    IF IdsOf(name) # {} THEN IdsOf(name)
    ELSE IF IdsOf(KeyOf[name]) # {} THEN IdsOf(KeyOf[name])
    ELSE {a \in known : KeyOf[NameOf[a]] = KeyOf[name]}

NamesMeanTheMerged ==
    \A name \in Names :
        LET id == ResolveAthleteId(name)
        IN  id # NoId => /\ MergedId(id) = id
                         /\ \A a \in Reached(name) : a = id \/ Share(a, id)

(* The same rule at two times: what NetPoints' rows were once written under  *)
(* is the id a load merges its box scores into, whatever has been stored     *)
(* since, unless the id that takes its place was itself filed since. A later *)
(* box score of anyone else, or of the id given, never moves it.             *)
FiledSince(a, at) == \E s \in RowsOf(a) : s >= at

GivenIdsSurvive ==
    \A name \in Names :
        given[name] # NoAnswer =>
            LET id == given[name].id
            IN  MergedId(id) = id \/ FiledSince(MergedId(id), given[name].at)

(* A merge rewrites ids and keeps one row of two: no line with minutes is    *)
(* lost to it, nor told as anything else.                                    *)
LinesSurviveTheMerge ==
    \A s \in Slots, a \in known :
        HasMinutes(boxScores[s][a]) => Deduped(s, MergedId(a)) = boxScores[s][a]
=============================================================================
