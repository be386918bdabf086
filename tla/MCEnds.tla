------------------------------- MODULE MCEnds -------------------------------
(* What is begun ends: the last games of a postseason, one that a schedule   *)
(* lists and one that only the scoreboard does, pulled by two workers        *)
(* (Pull); and two questions put to the web interface at once, each a stream *)
(* or a POST, with facts that lead out of Agent.ask by each of its exits     *)
(* (Web).  The two share no state: a behaviour is of one or of the other,    *)
(* and `part` says of which.                                                 *)
EXTENDS Pull, Web, TLC

CONSTANTS e1, f1, t1, t2, w1, w2, none, idle, q1, q2

VARIABLE part

MCSeason == {2000}
MCSeasonType == {3}
MCEvent == {e1, f1}
MCTeam == {t1, t2}
MCAthlete == {}
MCWorker == {w1, w2}
MCScopeOf == [e \in MCEvent |-> << 2000, 3 >>]
MCTeamsOf == [e \in MCEvent |-> {t1, t2}]
MCAthletesOf == [e \in MCEvent |-> {}]
MCRowsOf == [e \in MCEvent |-> {"games"}]
MCDayOf == e1 :> 1 @@ f1 :> 2
MCUnscheduled == {f1}
MCFlags == {[force |-> FALSE, pbp |-> FALSE]}

MCQuestions == {q1, q2}

ReadFacts == [short |-> FALSE, model |-> "replied", parse |-> "read", refused |-> FALSE,
              asked |-> TRUE, player |-> TRUE, misread |-> FALSE, unsupported |-> FALSE,
              defaulted |-> FALSE, verdict |-> "query", point |-> TRUE, floor |-> FALSE,
              found |-> "answer"]

MCFactSets ==
  { ReadFacts,
    [ReadFacts EXCEPT !.model = "unavailable"],
    [ReadFacts EXCEPT !.parse = "fails"],
    [ReadFacts EXCEPT !.verdict = "unsupported"] }

OfPull == part = "pull" /\ UNCHANGED << part, webVars >>
OfWeb == part = "web" /\ UNCHANGED << part, vars >>

MCInit == part \in {"pull", "web"} /\ Init /\ WebInit

MCNext ==
  \/ OfPull /\ Espn
  \/ OfPull /\ Launch
  \/ OfPull /\ Working
  \/ OfPull /\ (Exit \/ Kill)
  \/ \E q \in Questions :
       \/ OfWeb /\ (CheckBusy(q) \/ StartWorker(q) \/ Post(q))
       \/ OfWeb /\ (Acquire(q) \/ Swap(q) \/ BeginAsk(q) \/ Restore(q) \/ Release(q))
       \/ OfWeb /\ (PutOutcome(q) \/ PutDone(q) \/ Yield(q) \/ Respond(q) \/ Leave(q))
  \/ OfWeb /\ (AskStep \/ Quiet)

\* Where nothing was begun nothing is obliged to go on, so each part's fairness
\* asks nothing of the other's behaviours.
MCSpec == MCInit /\ [][MCNext]_<< part, vars, webVars >> /\ WF_vars(Working \/ Exit) /\ WebFairness
=============================================================================
