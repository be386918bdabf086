---------------------------- MODULE MCPullFinals ----------------------------
(* A postseason whose last two games are on no team's schedule, as in 2000   *)
(* and 2001: only the scoreboard scan past the last stored game finds them.  *)
EXTENDS Pull, TLC

CONSTANTS e1, f1, f2, t1, t2, a1, w1, none, idle

MCSeason == {2000}
MCSeasonType == {3}
MCEvent == {e1, f1, f2}
MCTeam == {t1, t2}
MCAthlete == {}
MCWorker == {w1}
MCScopeOf == [e \in MCEvent |-> << 2000, 3 >>]
MCTeamsOf == [e \in MCEvent |-> {t1, t2}]
MCAthletesOf == [e \in MCEvent |-> {}]
MCRowsOf == [e \in MCEvent |-> {"games"}]
MCDayOf == e1 :> 1 @@ f1 :> 2 @@ f2 :> 3
MCUnscheduled == {f1, f2}
MCFlags == {[force |-> FALSE, pbp |-> FALSE]}

\* Games end in the order of their days.
InOrder == \A e, f \in Event : DayOf[f] < DayOf[e] /\ espn[e] \in {"final", "void"}
                                 => espn[f] \in {"final", "void"}
SpecInOrder == Init /\ [][Next /\ InOrder']_vars
=============================================================================
