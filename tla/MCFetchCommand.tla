--------------------------- MODULE MCFetchCommand ---------------------------
(* A season of one game, and its last days: pull after pull, with the        *)
(* calendar free to roll over in the middle of any of them.                  *)
EXTENDS FetchCommand, TLC

CONSTANTS e1, t1, t2, a1, w1, none, idle

MCSeason == {2025}
MCSeasonType == {2}
MCEvent == {e1}
MCTeam == {t1, t2}
MCAthlete == {a1}
MCWorker == {w1}
MCScopeOf == e1 :> << 2025, 2 >>
MCTeamsOf == e1 :> {t1, t2}
MCAthletesOf == e1 :> {a1}
MCRowsOf == e1 :> {"games", "player_box_stats"}
MCDayOf == e1 :> 1
MCFlags == {[force |-> FALSE, pbp |-> FALSE]}
Symmetry == Permutations(MCTeam)
\* without Pull's history, which nothing here reads, nor `stale` when it is not asked about
View == << espn, current, disk, pc, plan, ids, todo, job, done, failed, written, built, early, partial,
           IF early \/ partial THEN {} ELSE stale >>
=============================================================================
