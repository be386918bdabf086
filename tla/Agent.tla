-------------------------------- MODULE Agent --------------------------------
(***************************************************************************)
(* The query engine's Agent (query/agent.py): one object, asked one        *)
(* question after another by whoever holds it.  Its attributes outlive a   *)
(* question, so each is recorded here with the question it is about; what  *)
(* the words, the model and the warehouse hold for a question is a record  *)
(* of facts, chosen when the question is asked.                            *)
(*                                                                         *)
(* A trace line goes to the run's sink, which is bound to the Agent's      *)
(* trace when the question begins; the closing "[history]" line goes to    *)
(* whatever the Agent's trace is by then.                                  *)
(***************************************************************************)
EXTENDS Naturals, Sequences, FiniteSets

CONSTANTS
  Questions,   \* every question asked, each by a client of its own
  Nothing,     \* Python's None
  Discard,     \* web.runner.discard, the sink no one reads
  FactSets,    \* the facts a question may turn out to have
  LogStages    \* the stages whose trace line is kept: a bound, the lines of the
               \* other stages going to the same sink

ASSUME AgentAssumption == Nothing \notin Questions /\ Discard \notin Questions

\* What a question may hold: of the words, of the model's reply and its parsing,
\* of the plan (its verdict), and of what its reader finds.
Facts == [short : BOOLEAN, model : {"unavailable", "unusable", "replied"}, parse : {"scope", "fails", "read"},
          refused : BOOLEAN, asked : BOOLEAN, player : BOOLEAN, misread : BOOLEAN, unsupported : BOOLEAN,
          defaulted : BOOLEAN, verdict : {"query", "refusal", "unsupported", "shape_declined"},
          point : BOOLEAN, floor : BOOLEAN, found : {"answer", "refusal", "declined", "fails"}]

ASSUME FactsAssumption == FactSets \subseteq Facts

VARIABLES
  facts,         \* facts[q]: what question q turned out to hold
  asking,        \* the question inside Agent.ask, or Nothing
  stage,         \* where Agent.ask is
  trace,         \* Agent.trace: the question whose client reads it, or Discard
  sink,          \* RunHistory.sink of the run under way
  reading, query, normalized,   \* the Agent's attributes: the question each is of
  unanswered, unansweredAs,
  said,          \* the Answer being built, or Nothing
  records,       \* the history files written, in order
  events         \* events[q]: the queue of the stream that asked q

attributes == <<reading, query, normalized, unanswered, unansweredAs>>
agentVars == <<facts, asking, stage, trace, sink, attributes, said, records, events>>

\* A progress line names the question whose run wrote it.
Line(q) == [kind |-> "progress", of |-> q, file |-> Nothing]

\* What handing a line to a sink adds to the queues.
Heard(s, q) == IF s \in Questions THEN [events EXCEPT ![s] = Append(@, Line(q))] ELSE events

\* RunHistory.log, with the server's verbose trace.
Log == events' = IF stage \in LogStages THEN Heard(sink, asking) ELSE events

\* An Answer, stamped by Agent._answer: which path answered, its cause, whose
\* reason and whose shape it states, and (once recorded) its history file.
Answer(by, cause, why, as, shape) ==
  [of |-> asking, by |-> by, cause |-> cause, why |-> why, as |-> as, shape |-> shape, file |-> Nothing]

\* compose.plan.plan_point: the planning of a Reading, its named refusal first
\* and a defaulted word's refusal only over a point that planned.
PlanPoint(f) ==
  IF f.refused THEN "refusal"
  ELSE IF f.verdict = "query" /\ f.defaulted THEN "refusal"
  ELSE f.verdict

\* plan.planned_shape, of the question the Agent's own attributes are about:
\* Nothing where nothing was read, or the reading holds no point to name.
PlannedShape ==
  IF reading = Nothing \/ query = Nothing THEN Nothing
  ELSE IF facts[reading].refused \/ ~facts[reading].asked \/ ~facts[reading].point THEN Nothing
  ELSE reading

\* coverage.check_coverage over the planned shape: no point, no floor.
UnderFloor == PlannedShape # Nothing /\ facts[PlannedShape].floor

-----------------------------------------------------------------------------
AgentInit ==
  /\ facts = [q \in Questions |-> Nothing]
  /\ asking = Nothing /\ stage = "idle" /\ trace = Discard /\ sink = Discard
  /\ reading = Nothing /\ query = Nothing /\ normalized = Nothing
  /\ unanswered = Nothing /\ unansweredAs = Nothing
  /\ said = Nothing /\ records = <<>>
  /\ events = [q \in Questions |-> <<>>]

\* Agent.ask up to _ask_inner: a fresh run bound to the sink of the moment, and
\* the attributes of the last question dropped.  This is before ask's `try`, and
\* does not raise: the run only takes its arguments, and the latest season on
\* record is None where the warehouse answers with an error.
Begin(q) ==
  /\ stage = "idle"
  /\ \E f \in FactSets : facts' = [facts EXCEPT ![q] = f]
  /\ asking' = q /\ sink' = trace /\ said' = Nothing
  /\ reading' = Nothing /\ query' = Nothing
  /\ stage' = "words"
  /\ UNCHANGED <<trace, normalized, unanswered, unansweredAs, records, events>>

\* _ask_inner: a question too short to be one is refused unread.
RefuseShort ==
  /\ stage = "words" /\ facts[asking].short
  /\ unanswered' = asking /\ unansweredAs' = Nothing
  /\ said' = Answer("refused", "short", asking, Nothing, Nothing)
  /\ Log /\ stage' = "said"
  /\ UNCHANGED <<facts, asking, trace, sink, reading, query, normalized, records>>

\* A mutation: _try_fast_path keeps the last question's reason and shape.
KeepTheLastReason == UNCHANGED <<unanswered, unansweredAs>>

\* _try_fast_path starts with no reason to refuse.
DropTheLastReason == unanswered' = Nothing /\ unansweredAs' = Nothing

AskTheModel ==
  /\ stage = "words" /\ ~facts[asking].short
  /\ DropTheLastReason
  /\ stage' = "model"
  /\ UNCHANGED <<facts, asking, trace, sink, reading, query, normalized, said, records, events>>

\* normalize cannot reach the model (it raises before its reply is kept), or
\* replies with nothing usable: _read_or_refuse names why.
ModelUnavailable ==
  /\ stage = "model" /\ facts[asking].model = "unavailable"
  /\ unanswered' = asking /\ Log /\ stage' = "unread"
  /\ UNCHANGED <<facts, asking, trace, sink, reading, query, normalized, unansweredAs, said, records>>

ModelUnusable ==
  /\ stage = "model" /\ facts[asking].model = "unusable"
  /\ normalized' = Nothing
  /\ unanswered' = asking /\ Log /\ stage' = "unread"
  /\ UNCHANGED <<facts, asking, trace, sink, reading, query, unansweredAs, said, records>>

ModelReplies ==
  /\ stage = "model" /\ facts[asking].model = "replied"
  /\ normalized' = asking
  /\ Log /\ stage' = "parse"
  /\ UNCHANGED <<facts, asking, trace, sink, reading, query, unanswered, unansweredAs, said, records>>

\* read_route raises ScopeError: a value no Reading can hold.
ParseRefuses ==
  /\ stage = "parse" /\ facts[asking].parse = "scope"
  /\ unanswered' = asking /\ Log /\ stage' = "unread"
  /\ UNCHANGED <<facts, asking, trace, sink, reading, query, normalized, unansweredAs, said, records>>

\* Any other exception, in the parser here and in a reader below, leaves
\* _ask_inner for the except and finally of ask.
ParseFails ==
  /\ stage = "parse" /\ facts[asking].parse = "fails"
  /\ stage' = "raised"
  /\ UNCHANGED <<facts, asking, trace, sink, attributes, said, records, events>>

\* _reading: the Reading kept and planned, once.
ParseReads ==
  /\ stage = "parse" /\ facts[asking].parse = "read"
  /\ reading' = asking /\ query' = asking
  /\ Log /\ stage' = "settle"
  /\ UNCHANGED <<facts, asking, trace, sink, normalized, unanswered, unansweredAs, said, records>>

-----------------------------------------------------------------------------
Fast(cause) ==
  /\ said' = Answer("fast", cause, Nothing, Nothing, PlannedShape)
  /\ stage' = "said"

\* A misread name first, where the answer would be about a player; then the
\* words' own refusal; then what nothing reads, or no shape at all.
SettledCause(f) ==
  IF f.misread /\ f.asked /\ f.player THEN "misread"
  ELSE IF f.refused THEN "refused"
  ELSE IF f.asked THEN Nothing
  ELSE IF f.unsupported THEN "unsupported"
  ELSE "no_shape"

Settle ==
  /\ stage = "settle"
  /\ LET cause == SettledCause(facts[asking]) IN
       IF cause = Nothing
         THEN stage' = "compose" /\ UNCHANGED <<said, events>>
         ELSE Fast(cause) /\ Log
  /\ UNCHANGED <<facts, asking, trace, sink, attributes, records>>

\* _run_compiled before the compiler: a defaulted word's refusal waits for the
\* two truer causes.
TruerCause(f) ==
  IF ~(f.defaulted /\ PlanPoint(f) = "refusal") THEN Nothing
  ELSE IF UnderFloor THEN "floor"
  ELSE IF f.unsupported THEN "unsupported"
  ELSE Nothing

\* compose.answer: a planner's refusal is said, its decline or a Reading of no
\* point is none; a planned query comes to what its reader finds.  A point
\* under its floor is refused before a player's reader runs.
Composed(f) ==
  CASE PlanPoint(f) = "refusal" -> "refusal"
    [] PlanPoint(f) # "refusal" /\ (f.verdict # "query" \/ ~f.point) -> "declined"
    [] OTHER -> IF f.floor THEN "floor" ELSE f.found

\* What _run_compiled says of a point the compiler declined: the floor, then
\* what nothing reads, then the decline's own cause where it has one.
DeclinedCause(f) ==
  IF UnderFloor THEN "floor"
  ELSE IF f.unsupported THEN "unsupported"
  ELSE IF f.verdict = "shape_declined" THEN "decline"
  ELSE Nothing

Compose ==
  /\ stage = "compose"
  /\ LET f == facts[asking] IN
       CASE TruerCause(f) # Nothing -> Fast(TruerCause(f)) /\ Log /\ UNCHANGED <<unanswered, unansweredAs>>
         [] TruerCause(f) = Nothing /\ Composed(f) = "fails" ->
              stage' = "raised" /\ UNCHANGED <<said, events, unanswered, unansweredAs>>
         [] TruerCause(f) = Nothing /\ Composed(f) = "declined" ->
              IF DeclinedCause(f) # Nothing
                THEN Fast(DeclinedCause(f)) /\ Log /\ UNCHANGED <<unanswered, unansweredAs>>
                ELSE /\ unanswered' = asking /\ unansweredAs' = asking
                     /\ Log /\ stage' = "unread" /\ UNCHANGED said
         [] OTHER -> Fast(Composed(f)) /\ Log /\ UNCHANGED <<unanswered, unansweredAs>>
  /\ UNCHANGED <<facts, asking, trace, sink, reading, query, normalized, records>>

\* Nothing read the question: the refusal names why, in the Agent's own words.
Refuse ==
  /\ stage = "unread"
  /\ said' = Answer("refused", "unread", unanswered, unansweredAs, Nothing)
  /\ Log /\ stage' = "said"
  /\ UNCHANGED <<facts, asking, trace, sink, attributes, records>>

-----------------------------------------------------------------------------
\* A mutation: only a run that answered is recorded.
RecordAnswered ==
  /\ stage \in {"said", "raised"}
  /\ records' = IF stage = "raised" THEN records
                ELSE Append(records, [of |-> asking, raised |-> FALSE])
  /\ said' = IF stage = "raised" THEN Nothing ELSE [said EXCEPT !.file = Len(records) + 1]
  /\ events' = Heard(trace, asking)
  /\ stage' = "recorded"
  /\ UNCHANGED <<facts, asking, trace, sink, attributes>>

\* ask's finally: the run's record, on every way out (a new file, named here by
\* its place among the records), then its name on the Agent's trace.
Record ==
  /\ stage \in {"said", "raised"}
  /\ records' = Append(records, [of |-> asking, raised |-> stage = "raised"])
  /\ said' = IF stage = "raised" THEN Nothing ELSE [said EXCEPT !.file = Len(records) + 1]
  /\ events' = Heard(trace, asking)
  /\ stage' = "recorded"
  /\ UNCHANGED <<facts, asking, trace, sink, attributes>>

AgentStep ==
  \/ RefuseShort \/ AskTheModel
  \/ ModelUnavailable \/ ModelUnusable \/ ModelReplies
  \/ ParseRefuses \/ ParseFails \/ ParseReads
  \/ Settle \/ Compose \/ Refuse \/ Record
==============================================================================
