------------------------------- MODULE MCPull -------------------------------
(* Two games of one postseason, pulled by two workers over and over. *)
EXTENDS Pull, TLC

CONSTANTS e1, e2, t1, t2, a1, w1, w2, none, idle

MCSeason == {2025}
MCSeasonType == {3}
MCEvent == {e1, e2}
MCTeam == {t1, t2}
MCAthlete == {a1}
MCWorker == {w1, w2}
MCScopeOf == [e \in MCEvent |-> << 2025, 3 >>]
MCTeamsOf == [e \in MCEvent |-> {t1, t2}]
MCAthletesOf == [e \in MCEvent |-> {a1}]
MCRowsOf == [e \in MCEvent |-> {"games", "player_box_stats"}]
MCDayOf == [e \in MCEvent |-> 1]
MCFlags == {[force |-> FALSE, pbp |-> FALSE], [force |-> TRUE, pbp |-> FALSE]}
Symmetry == Permutations(MCWorker) \cup Permutations(MCEvent) \cup Permutations(MCTeam)
\* `written` and `current` decide nothing here: there are no season tables to read, and
\* MCFetchCommand is about both
View == << espn, disk, pc, plan, ids, todo, job, done, failed, history >>
=============================================================================
