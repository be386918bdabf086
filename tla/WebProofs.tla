------------------------------ MODULE WebProofs ------------------------------
(***************************************************************************)
(* Proofs about the web interface and the Agent behind it, for any number  *)
(* of questions, POSTs and streams, and any facts they turn out to have.   *)
(* The argument is the lock's: while a question holds it, the Agent and    *)
(* its trace sink are that question's, so what is put in a queue, a record *)
(* or an answer is of the holder.                                          *)
(***************************************************************************)
EXTENDS Web, FiniteSetTheorems, TLAPS

Said == {"answer", "error"}
Holding == {"holding", "swapped", "asking", "restored"}
Threads == {"none", "waiting", "released", "put", "done"} \cup Holding

\* An answer, and the events of a stream.
Causes == {"short", "unread", "misread", "refused", "unsupported", "no_shape", "floor", "decline",
           "answer", "refusal"}
Answers == [of : Questions, by : {"fast", "refused"}, cause : Causes, why : Questions \cup {Nothing},
            as : Questions \cup {Nothing}, shape : Questions \cup {Nothing}, file : Nat \cup {Nothing}]
Events == [kind : {"progress"}, of : Questions, file : {Nothing}]
            \cup [kind : Said, of : Questions, answer : Answers \cup {Nothing}]
            \cup [kind : {"done"}, of : Questions]

WebTypeOK ==
  /\ facts \in [Questions -> Facts \cup {Nothing}]
  /\ asking \in Questions \cup {Nothing}
  /\ stage \in {"idle", "words", "model", "parse", "settle", "compose", "unread", "said", "raised", "recorded"}
  /\ trace \in Questions \cup {Discard} /\ sink \in Questions \cup {Discard}
  /\ {reading, query, normalized, unanswered, unansweredAs} \subseteq Questions \cup {Nothing}
  /\ said \in Answers \cup {Nothing}
  /\ records \in Seq([of : Questions, raised : BOOLEAN])
  /\ events \in [Questions -> Seq(Events)]
  /\ lock \in Questions \cup {Nothing}
  /\ worker \in [Questions -> Threads]
  /\ previous \in [Questions -> Questions \cup {Discard, Nothing}]
  /\ result \in [Questions -> Answers \cup {Nothing}]
  /\ request \in [Questions -> {"new", "checked", "streaming", "posted", "left", "ended"}]
  /\ told \in [Questions -> BOOLEAN]
  /\ posts \subseteq Questions
  /\ sent \in [Questions -> Seq(Events)]

-----------------------------------------------------------------------------
\* The holder of the lock, and what is the holder's meanwhile.
TurnInv ==
  /\ \A q \in Questions : worker[q] \in Holding <=> lock = q
  /\ \A q \in Questions : worker[q] = "asking" <=> stage # "idle" /\ asking = q
  /\ stage # "idle" => asking \in Questions /\ facts[asking] \in Facts
  /\ \A q \in Questions : worker[q] \in {"swapped", "asking"} =>
       trace = (IF q \in posts THEN Discard ELSE q) /\ previous[q] = Discard
  /\ (\A q \in Questions : worker[q] \notin {"swapped", "asking"}) => trace = Discard
  /\ stage # "idle" => sink = trace

\* Which thread works for a request, and when its handler is over.
RequestInv == \A q \in Questions :
  /\ worker[q] = "none" => request[q] \in {"new", "checked", "left"}
  /\ request[q] \in {"new", "checked"} => worker[q] = "none"
  /\ q \in posts => worker[q] # "none" /\ request[q] \in {"posted", "ended"} /\ worker[q] # "put"
  /\ request[q] = "posted" => q \in posts
  /\ request[q] = "ended" => worker[q] = "done"
  /\ q \in posts /\ worker[q] = "done" => request[q] = "ended"

\* One record of every run that came to its end.
HasRecord(q, rs) == \E i \in 1..Len(rs) : rs[i].of = q
RecordInv ==
  \A q \in Questions :
    HasRecord(q, records) <=>
      worker[q] \in {"restored", "released", "put", "done"} \/ (worker[q] = "asking" /\ stage = "recorded")

\* What the Agent's attributes and the answers are of.
Own(a, q) ==
  /\ a.of = q
  /\ a.why \in {q, Nothing} /\ a.as \in {q, Nothing} /\ a.shape \in {q, Nothing}
  /\ a.cause = "unread" => a.why = q
OwnRecorded(a, q, rs) == Own(a, q) /\ a.file \in 1..Len(rs) /\ rs[a.file].of = q

AnswerInv ==
  /\ stage # "idle" => reading \in {asking, Nothing} /\ query \in {asking, Nothing}
  /\ stage \in {"model", "parse", "settle", "compose"} => unanswered = Nothing /\ unansweredAs = Nothing
  /\ stage = "unread" => unanswered = asking /\ unansweredAs \in {asking, Nothing}
  /\ stage = "said" => said \in Answers /\ Own(said, asking)
  /\ stage = "recorded" => said = Nothing \/ OwnRecorded(said, asking, records)
  /\ \A q \in Questions : result[q] = Nothing \/ OwnRecorded(result[q], q, records)

OwnEvent(e, q, rs) == e.of = q /\ (e.kind = "answer" => OwnRecorded(e.answer, q, rs))
EventInv ==
  \A q \in Questions :
    /\ \A i \in 1..Len(events[q]) : OwnEvent(events[q][i], q, records)
    /\ \A i \in 1..Len(sent[q]) : OwnEvent(sent[q][i], q, records)

-----------------------------------------------------------------------------
\* All that was put for a client: what it was sent, then what is queued.
Place(s, t, i) == IF i <= Len(s) THEN s[i] ELSE t[i - Len(s)]
Total(q) == Len(sent[q]) + Len(events[q])
KindAt(q, i) == Place(sent[q], events[q], i).kind
ProgressTo(q, n) == \A i \in 1..n : KindAt(q, i) = "progress"

LineOf(q) ==
  /\ worker[q] \notin {"put", "done"} => ProgressTo(q, Total(q))
  /\ worker[q] = "put" => Total(q) >= 2 /\ KindAt(q, Total(q)) \in Said /\ ProgressTo(q, Total(q) - 1)
  /\ worker[q] = "done" /\ request[q] # "ended" =>
       /\ Total(q) >= 3 /\ Len(events[q]) >= 1
       /\ KindAt(q, Total(q)) = "done" /\ KindAt(q, Total(q) - 1) \in Said /\ ProgressTo(q, Total(q) - 2)
  /\ request[q] = "ended" =>
       /\ Len(events[q]) = 0 /\ Total(q) >= 1
       /\ KindAt(q, Total(q)) \in Said /\ ProgressTo(q, Total(q) - 1)
       /\ q \in Streams => Total(q) >= 2
  /\ q \in posts \/ worker[q] = "none" => Len(events[q]) = 0
  /\ q \in Streams /\ (worker[q] \in {"restored", "released"} \/ (worker[q] = "asking" /\ stage = "recorded"))
       => Total(q) >= 1
LineInv == \A q \in Questions : LineOf(q)

IInv == WebTypeOK /\ TurnInv /\ RequestInv /\ RecordInv /\ AnswerInv /\ EventInv /\ LineInv

-----------------------------------------------------------------------------
(* The operators *)

\* What is put last is last; the rest stays where it was.
LEMMA PlaceOfPut ==
  ASSUME NEW S, NEW s \in Seq(S), NEW t \in Seq(S), NEW e \in S
  PROVE  /\ Len(Append(t, e)) = Len(t) + 1
         /\ Place(s, Append(t, e), Len(s) + Len(t) + 1) = e
         /\ \A i \in 1..(Len(s) + Len(t)) : Place(s, Append(t, e), i) = Place(s, t, i)
  BY DEF Place

\* An event sent on keeps its place.
LEMMA PlaceOfSent ==
  ASSUME NEW S, NEW s \in Seq(S), NEW t \in Seq(S), t # <<>>
  PROVE  /\ Head(t) \in S /\ Head(t) = Place(s, t, Len(s) + 1)
         /\ Tail(t) \in Seq(S) /\ Append(s, Head(t)) \in Seq(S)
         /\ Len(t) >= 1 /\ Len(Tail(t)) = Len(t) - 1 /\ Len(Append(s, Head(t))) = Len(s) + 1
         /\ \A i \in 1..(Len(s) + Len(t)) : Place(Append(s, Head(t)), Tail(t), i) = Place(s, t, i)
  BY DEF Place

\* Up to its record a run writes lines, to one sink, and touches nothing it does not own.
LEMMA RunStep ==
  ASSUME AgentStep, ~Record
  PROVE  /\ UNCHANGED << facts, asking, trace, sink, records >>
         /\ stage \in {"words", "model", "parse", "settle", "compose", "unread"}
         /\ stage' \in {"model", "parse", "settle", "compose", "unread", "said", "raised"}
         /\ events' = events \/ events' = Heard(sink, asking)
<1>1. CASE RefuseShort BY <1>1 DEF RefuseShort, Log
<1>2. CASE AskTheModel BY <1>2 DEF AskTheModel
<1>3. CASE ModelUnavailable BY <1>3 DEF ModelUnavailable, Log
<1>4. CASE ModelUnusable BY <1>4 DEF ModelUnusable, Log
<1>5. CASE ModelReplies BY <1>5 DEF ModelReplies, Log
<1>6. CASE ParseRefuses BY <1>6 DEF ParseRefuses, Log
<1>7. CASE ParseFails BY <1>7 DEF ParseFails
<1>8. CASE ParseReads BY <1>8 DEF ParseReads, Log
<1>9. CASE Settle BY <1>9 DEF Settle, Fast, Log
<1>10. CASE Compose
  <2> DEFINE f == facts[asking]
  <2>1. CASE TruerCause(f) # Nothing BY <1>10, <2>1 DEF Compose, Fast, Log
  <2>2. CASE TruerCause(f) = Nothing /\ Composed(f) = "fails" BY <1>10, <2>2 DEF Compose
  <2>3. CASE TruerCause(f) = Nothing /\ Composed(f) = "declined" BY <1>10, <2>3 DEF Compose, Fast, Log
  <2>4. CASE TruerCause(f) = Nothing /\ Composed(f) \notin {"fails", "declined"} BY <1>10, <2>4 DEF Compose, Fast, Log
  <2>5. QED BY <2>1, <2>2, <2>3, <2>4
<1>11. CASE Refuse BY <1>11 DEF Refuse, Log
<1>12. QED
  BY <1>1, <1>2, <1>3, <1>4, <1>5, <1>6, <1>7, <1>8, <1>9, <1>10, <1>11 DEF AgentStep

\* Every cause of an answer but the one a refusal of the Agent's own words has.
LEMMA CausesSaid ==
  ASSUME NEW f \in Facts
  PROVE  /\ SettledCause(f) # Nothing => SettledCause(f) \in Causes \ {"unread"}
         /\ TruerCause(f) \in {"floor", "unsupported", Nothing}
         /\ DeclinedCause(f) \in {"floor", "unsupported", "decline", Nothing}
         /\ Composed(f) \in {"refusal", "declined", "floor", "answer", "fails"}
<1>1. SettledCause(f) # Nothing => SettledCause(f) \in Causes \ {"unread"}
  BY DEF SettledCause, Causes
<1>2. TruerCause(f) \in {"floor", "unsupported", Nothing} /\ DeclinedCause(f) \in {"floor", "unsupported", "decline", Nothing}
  BY DEF TruerCause, DeclinedCause
<1>3. Composed(f) \in {"refusal", "declined", "floor", "answer", "fails"}
  BY DEF Composed, Facts
<1>4. QED
  BY <1>1, <1>2, <1>3

\* An answer made without the model is one of its question.
LEMMA FastAnswer ==
  ASSUME WebTypeOK, asking \in Questions, reading \in {asking, Nothing},
         NEW cause \in Causes \ {"unread"}, Fast(cause)
  PROVE  said' \in Answers /\ Own(said', asking) /\ stage' = "said"
  BY DEF Fast, Answer, Answers, Own, PlannedShape, WebTypeOK, Causes

\* An answer states the reason and the shape of the question asked: the Agent's
\* attributes are of no other by the time they are read.
LEMMA RunAnswers ==
  ASSUME WebTypeOK, TurnInv, AnswerInv, AgentStep, ~Record
  PROVE  /\ {reading', query', normalized', unanswered', unansweredAs'} \subseteq Questions \cup {Nothing}
         /\ said' \in Answers \cup {Nothing}
         /\ reading' \in {asking, Nothing} /\ query' \in {asking, Nothing}
         /\ stage' \in {"model", "parse", "settle", "compose"} => unanswered' = Nothing /\ unansweredAs' = Nothing
         /\ stage' = "unread" => unanswered' = asking /\ unansweredAs' \in {asking, Nothing}
         /\ stage' = "said" => said' \in Answers /\ Own(said', asking)
<1> USE DEF WebTypeOK, AnswerInv, attributes
<1>0. /\ asking \in Questions /\ facts[asking] \in Facts
      /\ reading \in {asking, Nothing} /\ query \in {asking, Nothing}
  BY RunStep DEF TurnInv
<1>1. CASE RefuseShort
  BY <1>0, <1>1 DEF RefuseShort, Answer, Answers, Own, Causes
<1>2. CASE AskTheModel
  BY <1>0, <1>2 DEF AskTheModel, DropTheLastReason
<1>3. CASE ModelUnavailable
  BY <1>0, <1>3 DEF ModelUnavailable
<1>4. CASE ModelUnusable
  BY <1>0, <1>4 DEF ModelUnusable
<1>5. CASE ModelReplies
  BY <1>0, <1>5 DEF ModelReplies
<1>6. CASE ParseRefuses
  BY <1>0, <1>6 DEF ParseRefuses
<1>7. CASE ParseFails
  BY <1>0, <1>7 DEF ParseFails
<1>8. CASE ParseReads
  BY <1>0, <1>8 DEF ParseReads
<1>9. CASE Settle
  <2> DEFINE c == SettledCause(facts[asking])
  <2>1. CASE c = Nothing
    BY <1>0, <1>9, <2>1 DEF Settle
  <2>2. CASE c # Nothing
    <3>1. Fast(c) /\ UNCHANGED attributes
      BY <1>9, <2>2 DEF Settle
    <3>2. QED
      BY <1>0, <2>2, <3>1, CausesSaid, FastAnswer
  <2>3. QED
    BY <2>1, <2>2
<1>10. CASE Compose
  <2> DEFINE f == facts[asking]
  <2>1. UNCHANGED << reading, query, normalized >> /\ stage = "compose"
    BY <1>10 DEF Compose
  <2>2. ASSUME NEW c \in Causes \ {"unread"}, Fast(c), UNCHANGED << unanswered, unansweredAs >>
        PROVE  /\ said' \in Answers /\ Own(said', asking) /\ stage' = "said"
               /\ {unanswered', unansweredAs'} \subseteq Questions \cup {Nothing}
    BY <1>0, <2>2, FastAnswer
  <2>3. \/ \E c \in Causes \ {"unread"} : Fast(c) /\ UNCHANGED << unanswered, unansweredAs >>
        \/ stage' = "raised" /\ UNCHANGED << said, unanswered, unansweredAs >>
        \/ unanswered' = asking /\ unansweredAs' = asking /\ stage' = "unread" /\ UNCHANGED said
    <3>1. CASE TruerCause(f) # Nothing
      BY <1>0, <1>10, <3>1, CausesSaid DEF Compose, Causes
    <3>2. CASE TruerCause(f) = Nothing /\ Composed(f) = "fails"
      BY <1>10, <3>2 DEF Compose
    <3>3. CASE TruerCause(f) = Nothing /\ Composed(f) = "declined"
      BY <1>0, <1>10, <3>3, CausesSaid DEF Compose, Causes
    <3>4. CASE TruerCause(f) = Nothing /\ Composed(f) \notin {"fails", "declined"}
      BY <1>0, <1>10, <3>4, CausesSaid DEF Compose, Causes
    <3>5. QED
      BY <3>1, <3>2, <3>3, <3>4
  <2>4. QED
    BY <1>0, <2>1, <2>2, <2>3
<1>11. CASE Refuse
  <2>1. stage = "unread" /\ unanswered = asking /\ unansweredAs \in {asking, Nothing}
    BY <1>11 DEF Refuse
  <2>2. said' \in Answers /\ Own(said', asking)
    BY <1>0, <1>11, <2>1 DEF Refuse, Answer, Answers, Own, Causes
  <2>3. QED
    BY <1>0, <1>11, <2>2 DEF Refuse
<1>12. QED
  BY <1>1, <1>2, <1>3, <1>4, <1>5, <1>6, <1>7, <1>8, <1>9, <1>10, <1>11 DEF AgentStep

-----------------------------------------------------------------------------
(* Types *)

\* It all holds before the first question.
LEMMA WebInitInv == ASSUME WebInit PROVE IInv
<1> USE DEF WebInit, AgentInit
<1>1. WebTypeOK
  BY DEF WebTypeOK, Threads
<1>2. TurnInv /\ RequestInv /\ RecordInv /\ AnswerInv /\ EventInv
  BY AgentAssumption DEF TurnInv, RequestInv, RecordInv, HasRecord, AnswerInv, EventInv, Holding
<1>3. LineInv
  BY DEF LineInv, LineOf, ProgressTo, Total
<1>4. QED
  BY <1>1, <1>2, <1>3 DEF IInv

\* What a worker or a POST hands over, and what a run writes.
LEMMA EventsMade ==
  ASSUME NEW q \in Questions
  PROVE  /\ result[q] \in Answers \cup {Nothing} => Outcome(q) \in Events
         /\ Line(q) \in Events /\ [kind |-> "done", of |-> q] \in Events
         /\ Outcome(q).kind \in Said /\ Outcome(q).of = q
         /\ Outcome(q).kind = "answer" => Outcome(q).answer = result[q] /\ result[q] # Nothing
  BY DEF Outcome, Line, Events, Said

\* A line put for whoever listens is one of the events.
LEMMA HeardType ==
  ASSUME WebTypeOK, NEW q \in Questions, NEW s \in Questions \cup {Discard}
  PROVE  Heard(s, q) \in [Questions -> Seq(Events)]
<1>1. events \in [Questions -> Seq(Events)] /\ Line(q) \in Events
  BY EventsMade DEF WebTypeOK
<1>2. \A p \in Questions : Append(events[p], Line(q)) \in Seq(Events)
  BY <1>1
<1>3. QED
  BY <1>1, <1>2 DEF Heard

\* The types hold on.
LEMMA WebTypeStep == ASSUME WebTypeOK, TurnInv, AnswerInv, [WebNext]_webVars PROVE WebTypeOK'
<1> USE DEF WebTypeOK, webVars, agentVars, attributes
<1>1. ASSUME NEW q \in Questions, CheckBusy(q) \/ StartWorker(q) \/ Post(q) \/ Acquire(q) \/ Release(q) \/ Leave(q)
      PROVE  WebTypeOK'
  <2>1. CASE CheckBusy(q) BY <2>1 DEF CheckBusy
  <2>2. CASE StartWorker(q) BY <2>2 DEF StartWorker, Work, Threads
  <2>3. CASE Post(q) BY <2>3, ZenonT(60) DEF Post, Work, Threads
  <2>4. CASE Acquire(q) BY <2>4 DEF Acquire, Work, Threads, Holding
  <2>5. CASE Release(q) BY <2>5 DEF Release, Work, Threads
  <2>6. CASE Leave(q) BY <2>6 DEF Leave
  <2>7. QED BY <1>1, <2>1, <2>2, <2>3, <2>4, <2>5, <2>6
<1>2. ASSUME NEW q \in Questions, Swap(q) PROVE WebTypeOK'
  BY <1>2, ZenonT(60) DEF Swap, Work, Threads, Holding
<1>3. ASSUME NEW q \in Questions, BeginAsk(q) PROVE WebTypeOK'
  BY <1>3, FactsAssumption, SMTT(60) DEF BeginAsk, Begin, Work, Threads, Holding
<1>4. ASSUME NEW q \in Questions, Restore(q) PROVE WebTypeOK'
  BY <1>4 DEF Restore, Work, Threads, Holding, TurnInv
<1>5. ASSUME NEW q \in Questions, PutOutcome(q) PROVE WebTypeOK'
  <2>1. events[q] \in Seq(Events) /\ Outcome(q) \in Events
    BY EventsMade
  <2>2. Append(events[q], Outcome(q)) \in Seq(Events)
    BY <2>1
  <2>3. QED
    BY <1>5, <2>2 DEF PutOutcome, Work, Threads
<1>6. ASSUME NEW q \in Questions, PutDone(q) PROVE WebTypeOK'
  <2>1. events[q] \in Seq(Events) /\ [kind |-> "done", of |-> q] \in Events
    BY EventsMade
  <2>2. Append(events[q], [kind |-> "done", of |-> q]) \in Seq(Events)
    BY <2>1
  <2>3. QED
    BY <1>6, <2>2 DEF PutDone, Work, Threads
<1>7. ASSUME NEW q \in Questions, Yield(q) PROVE WebTypeOK'
  <2>1. /\ Tail(events[q]) \in Seq(Events) /\ Append(sent[q], Head(events[q])) \in Seq(Events)
    BY <1>7, PlaceOfSent DEF Yield
  <2>2. QED
    BY <1>7, <2>1, ZenonT(60) DEF Yield
<1>8. ASSUME NEW q \in Questions, Respond(q) PROVE WebTypeOK'
  <2>1. sent[q] \in Seq(Events) /\ Outcome(q) \in Events
    BY EventsMade
  <2>2. Append(sent[q], Outcome(q)) \in Seq(Events)
    BY <2>1
  <2>3. QED
    BY <1>8, <2>2 DEF Respond, Work, Threads
<1>9. ASSUME AskStep, ~Record PROVE WebTypeOK'
  <2>1. asking \in Questions
    BY <1>9, RunStep DEF AskStep, TurnInv
  <2>2. events' \in [Questions -> Seq(Events)]
    BY <1>9, <2>1, RunStep, HeardType DEF AskStep
  <2>3. QED
    BY <1>9, <2>2, RunStep, RunAnswers DEF AskStep
<1>10. ASSUME AskStep, Record PROVE WebTypeOK'
  <2>1. asking \in Questions
    BY <1>10 DEF Record, TurnInv
  <2>2. events' \in [Questions -> Seq(Events)]
    BY <1>10, <2>1, HeardType DEF Record
  <2>3. records' \in Seq([of : Questions, raised : BOOLEAN])
    BY <1>10, <2>1 DEF Record
  <2>4. said' \in Answers \cup {Nothing}
    <3>1. CASE stage = "raised"
      BY <1>10, <3>1 DEF Record
    <3>2. CASE stage = "said"
      <4>1. said \in Answers /\ said' = [said EXCEPT !.file = Len(records) + 1] /\ Len(records) + 1 \in Nat
        BY <1>10, <3>2 DEF Record, AnswerInv
      <4>2. QED
        BY <4>1 DEF Answers
    <3>3. QED
      BY <1>10, <3>1, <3>2 DEF Record
  <2>5. QED
    BY <1>10, <2>2, <2>3, <2>4 DEF Record, AskStep
<1>11. CASE Quiet \/ UNCHANGED webVars
  BY <1>11 DEF Quiet
<1>12. QED
  BY <1>1, <1>2, <1>3, <1>4, <1>5, <1>6, <1>7, <1>8, <1>9, <1>10, <1>11 DEF WebNext

-----------------------------------------------------------------------------
(* Who holds the lock, and whose thread is where *)

\* The Agent's own steps move no thread.
LEMMA TurnStep == ASSUME WebTypeOK, TurnInv, RequestInv, [WebNext]_webVars PROVE TurnInv'
<1> USE DEF WebTypeOK, TurnInv, webVars, agentVars, Holding
<1>1. ASSUME NEW q \in Questions, CheckBusy(q) \/ Leave(q) \/ Yield(q) PROVE TurnInv'
  BY <1>1 DEF CheckBusy, Leave, Yield
<1>2. ASSUME NEW q \in Questions, StartWorker(q) PROVE TurnInv'
  BY <1>2 DEF StartWorker, Work
<1>3. ASSUME NEW q \in Questions, Post(q) PROVE TurnInv'
  BY <1>3 DEF Post, Work
<1>4. ASSUME NEW q \in Questions, Acquire(q) PROVE TurnInv'
  BY <1>4, AgentAssumption DEF Acquire, Work
<1>5. ASSUME NEW q \in Questions, Swap(q) PROVE TurnInv'
  BY <1>5, AgentAssumption DEF Swap, Work
<1>6. ASSUME NEW q \in Questions, BeginAsk(q) PROVE TurnInv'
  BY <1>6, AgentAssumption, FactsAssumption DEF BeginAsk, Begin, Work
<1>7. ASSUME NEW q \in Questions, Restore(q) PROVE TurnInv'
  BY <1>7, AgentAssumption DEF Restore, Work
<1>8. ASSUME NEW q \in Questions, Release(q) PROVE TurnInv'
  BY <1>8, AgentAssumption DEF Release, Work
<1>9. ASSUME NEW q \in Questions, PutOutcome(q) PROVE TurnInv'
  BY <1>9, ZenonT(60) DEF PutOutcome, Work
<1>10. ASSUME NEW q \in Questions, PutDone(q) PROVE TurnInv'
  BY <1>10, ZenonT(60) DEF PutDone, Work
<1>11. ASSUME NEW q \in Questions, Respond(q) PROVE TurnInv'
  BY <1>11 DEF Respond, Work
<1>12. ASSUME AskStep, ~Record PROVE TurnInv'
  BY <1>12, RunStep DEF AskStep
<1>13. ASSUME AskStep, Record PROVE TurnInv'
  BY <1>13 DEF AskStep, Record
<1>14. CASE Quiet \/ UNCHANGED webVars
  BY <1>14 DEF Quiet
<1>15. QED
  BY <1>1, <1>2, <1>3, <1>4, <1>5, <1>6, <1>7, <1>8, <1>9, <1>10, <1>11, <1>12, <1>13, <1>14 DEF WebNext

\* What the handler takes from the queue is next after all it has sent.
LEMMA NextOfLine ==
  ASSUME WebTypeOK, NEW q \in Questions, events[q] # <<>>
  PROVE  /\ Total(q) \in Nat /\ Len(sent[q]) \in Nat /\ Len(sent[q]) + 1 \in 1..Total(q)
         /\ Head(events[q]) \in Events
         /\ Head(events[q]).kind = KindAt(q, Len(sent[q]) + 1)
         /\ Head(events[q]) = events[q][1] /\ Len(events[q]) >= 1
<1>1. events[q] \in Seq(Events) /\ sent[q] \in Seq(Events)
  BY DEF WebTypeOK
<1>2. Head(events[q]) \in Events /\ Head(events[q]) = Place(sent[q], events[q], Len(sent[q]) + 1)
  BY <1>1, PlaceOfSent
<1>3. Len(events[q]) >= 1 /\ Len(events[q]) \in Nat /\ Len(sent[q]) \in Nat
  BY <1>1, PlaceOfSent
<1>4. Head(events[q]) = events[q][1]
  BY <1>1
<1>5. Head(events[q]).kind = KindAt(q, Len(sent[q]) + 1)
  BY <1>2, Zenon DEF KindAt
<1>6. Total(q) \in Nat /\ Len(sent[q]) + 1 \in 1..Total(q)
  <2>1. \A m, n \in Nat : n >= 1 => m + n \in Nat /\ m + 1 \in 1..(m + n)
    OBVIOUS
  <2>2. QED
    BY <1>3, <2>1, Zenon DEF Total
<1>7. QED
  BY <1>2, <1>3, <1>4, <1>5, <1>6

\* Only what a stream's worker put last can be its outcome, or its end.
LEMMA KindsOfLine ==
  ASSUME WebTypeOK, LineInv, NEW q \in Questions, NEW i \in 1..Total(q)
  PROVE  /\ KindAt(q, i) \in {"progress", "done"} \cup Said
         /\ KindAt(q, i) = "done" => worker[q] = "done" /\ request[q] # "ended" /\ i = Total(q)
         /\ KindAt(q, i) \in Said =>
              /\ worker[q] \in {"put", "done"} /\ ProgressTo(q, i - 1)
              /\ i = Total(q) \/ (i = Total(q) - 1 /\ worker[q] = "done" /\ request[q] # "ended")
<1>1. Total(q) \in Nat
  BY DEF WebTypeOK, Total
<1>2. CASE worker[q] \notin {"put", "done"}
  BY <1>2 DEF LineInv, LineOf, ProgressTo, Said
<1>3. CASE worker[q] = "put"
  BY <1>1, <1>3 DEF LineInv, LineOf, ProgressTo, Said
<1>4. CASE worker[q] = "done" /\ request[q] # "ended"
  BY <1>1, <1>4 DEF LineInv, LineOf, ProgressTo, Said
<1>5. CASE worker[q] = "done" /\ request[q] = "ended"
  BY <1>1, <1>5 DEF LineInv, LineOf, ProgressTo, Said
<1>6. QED
  BY <1>2, <1>3, <1>4, <1>5

\* What is known of each request stays so.
LEMMA RequestStep == ASSUME WebTypeOK, TurnInv, RequestInv, LineInv, [WebNext]_webVars PROVE RequestInv'
<1> USE DEF WebTypeOK, RequestInv, webVars, Threads, Holding
<1>1. ASSUME NEW q \in Questions, CheckBusy(q) \/ Leave(q) PROVE RequestInv'
  BY <1>1, ZenonT(60) DEF CheckBusy, Leave
<1>2. ASSUME NEW q \in Questions, StartWorker(q) PROVE RequestInv'
  BY <1>2 DEF StartWorker, Work
<1>3. ASSUME NEW q \in Questions, Post(q) PROVE RequestInv'
  BY <1>3 DEF Post, Work
<1>4. ASSUME NEW q \in Questions, Acquire(q) PROVE RequestInv'
  BY <1>4 DEF Acquire, Work
<1>5. ASSUME NEW q \in Questions, Swap(q) PROVE RequestInv'
  BY <1>5 DEF Swap, Work
<1>6. ASSUME NEW q \in Questions, BeginAsk(q) PROVE RequestInv'
  BY <1>6 DEF BeginAsk, Work
<1>7. ASSUME NEW q \in Questions, Restore(q) PROVE RequestInv'
  BY <1>7 DEF Restore, Work
<1>8. ASSUME NEW q \in Questions, Release(q) PROVE RequestInv'
  BY <1>8 DEF Release, Work
<1>9. ASSUME NEW q \in Questions, PutOutcome(q) PROVE RequestInv'
  BY <1>9 DEF PutOutcome, Work, Streams
<1>10. ASSUME NEW q \in Questions, PutDone(q) PROVE RequestInv'
  BY <1>10 DEF PutDone, Work
<1>11. ASSUME NEW q \in Questions, Respond(q) PROVE RequestInv'
  BY <1>11 DEF Respond, Work
<1>12. ASSUME NEW q \in Questions, Yield(q) PROVE RequestInv'
  <2>1. Head(events[q]).kind = "done" => worker[q] = "done"
    BY <1>12, NextOfLine, KindsOfLine DEF Yield
  <2>2. QED
    BY <1>12, <2>1, ZenonT(60) DEF Yield
<1>13. ASSUME AskStep PROVE RequestInv'
  BY <1>13 DEF AskStep
<1>14. CASE Quiet \/ UNCHANGED webVars
  BY <1>14 DEF Quiet
<1>15. QED
  BY <1>1, <1>2, <1>3, <1>4, <1>5, <1>6, <1>7, <1>8, <1>9, <1>10, <1>11, <1>12, <1>13, <1>14 DEF WebNext

-----------------------------------------------------------------------------
(* What is recorded, answered and put in a queue *)

\* A question has its record from when it is recorded, and not before.
LEMMA RecordStep == ASSUME WebTypeOK, TurnInv, RecordInv, [WebNext]_webVars PROVE RecordInv'
<1> USE DEF WebTypeOK, RecordInv, webVars, agentVars, Threads, Holding
<1>1. ASSUME NEW q \in Questions, CheckBusy(q) \/ Leave(q) \/ Yield(q) PROVE RecordInv'
  BY <1>1 DEF CheckBusy, Leave, Yield
<1>2. ASSUME NEW q \in Questions, StartWorker(q) \/ Post(q) \/ Acquire(q) PROVE RecordInv'
  <2>1. /\ worker' = [worker EXCEPT ![q] = worker'[q]] /\ UNCHANGED << records, stage >>
        /\ worker[q] \in {"none", "waiting"} /\ worker'[q] \in {"waiting", "holding"}
    BY <1>2 DEF StartWorker, Post, Acquire, Work
  <2>2. QED
    BY <2>1
<1>3. ASSUME NEW q \in Questions, Swap(q) PROVE RecordInv'
  BY <1>3 DEF Swap, Work, TurnInv
<1>4. ASSUME NEW q \in Questions, BeginAsk(q) PROVE RecordInv'
  BY <1>4 DEF BeginAsk, Begin, Work, TurnInv
<1>5. ASSUME NEW q \in Questions, Restore(q) PROVE RecordInv'
  BY <1>5 DEF Restore, Work, TurnInv
<1>6. ASSUME NEW q \in Questions, Release(q) \/ PutOutcome(q) \/ PutDone(q) \/ Respond(q) PROVE RecordInv'
  <2>1. /\ worker' = [worker EXCEPT ![q] = worker'[q]] /\ UNCHANGED << records, stage >>
        /\ worker[q] \in {"restored", "released", "put"} /\ worker'[q] \in {"released", "put", "done"}
    BY <1>6 DEF Release, PutOutcome, PutDone, Respond, Work
  <2>2. QED
    BY <2>1
<1>7. ASSUME AskStep, ~Record PROVE RecordInv'
  BY <1>7, RunStep DEF AskStep
<1>8. ASSUME AskStep, Record PROVE RecordInv'
  <2>1. /\ asking \in Questions /\ worker[asking] = "asking" /\ stage' = "recorded" /\ worker' = worker
        /\ stage # "recorded" /\ \A q \in Questions \ {asking} : worker[q] # "asking"
    BY <1>8 DEF AskStep, Record, TurnInv
  <2> DEFINE n == Len(records)
  <2>2. n \in Nat /\ Len(records') = n + 1
    BY <1>8, <2>1 DEF Record
  <2>3. records'[n + 1].of = asking /\ \A i \in 1..n : records'[i] = records[i]
    BY <1>8, <2>1, <2>2 DEF Record
  <2> HIDE DEF n
  <2>4. \A q : HasRecord(q, records) <=> \E i \in 1..n : records'[i].of = q
    BY <2>2, <2>3, Zenon DEF HasRecord, n
  <2>5. \A q : HasRecord(q, records') <=> \E i \in 1..(n + 1) : records'[i].of = q
    BY <2>2, Zenon DEF HasRecord
  <2>6. \A i \in 1..(n + 1) : i \in 1..n \/ i = n + 1
    BY <2>2
  <2>7. n + 1 \in 1..(n + 1) /\ \A i \in 1..n : i \in 1..(n + 1)
    BY <2>2
  <2>8. \A q \in Questions : HasRecord(q, records') <=> HasRecord(q, records) \/ q = asking
    BY <2>3, <2>4, <2>5, <2>6, <2>7, Zenon
  <2>9. QED
    BY <2>1, <2>8
<1>9. CASE Quiet \/ UNCHANGED webVars
  BY <1>9 DEF Quiet
<1>10. QED
  BY <1>1, <1>2, <1>3, <1>4, <1>5, <1>6, <1>7, <1>8, <1>9 DEF WebNext

\* A record keeps its place.
LEMMA RecordsKept ==
  ASSUME WebTypeOK, TurnInv, [WebNext]_webVars
  PROVE  \A a, q : OwnRecorded(a, q, records) => OwnRecorded(a, q, records')
<1> USE DEF WebTypeOK, webVars, agentVars, OwnRecorded, Own
<1>1. CASE UNCHANGED records
  BY <1>1
<1>2. CASE AskStep /\ Record
  <2>1. asking \in Questions
    BY <1>2 DEF Record, TurnInv
  <2>2. /\ Len(records') = Len(records) + 1 /\ Len(records) \in Nat
        /\ \A i \in 1..Len(records) : records'[i] = records[i]
    BY <1>2, <2>1 DEF Record
  <2>3. QED
    BY <2>2
<1>3. CASE AskStep /\ ~Record
  BY <1>1, <1>3, RunStep DEF AskStep
<1>4. ASSUME NEW q \in Questions,
             \/ CheckBusy(q) \/ StartWorker(q) \/ Post(q)
             \/ Acquire(q) \/ Swap(q) \/ BeginAsk(q) \/ Restore(q) \/ Release(q)
             \/ PutOutcome(q) \/ PutDone(q) \/ Yield(q) \/ Respond(q) \/ Leave(q)
      PROVE  UNCHANGED records
  BY <1>4 DEF CheckBusy, StartWorker, Post, Acquire, Swap, BeginAsk, Begin, Restore, Release,
              PutOutcome, PutDone, Yield, Respond, Leave
<1>5. CASE Quiet \/ UNCHANGED webVars
  BY <1>1, <1>5 DEF Quiet
<1>6. QED
  BY <1>1, <1>2, <1>3, <1>4, <1>5 DEF WebNext

\* An answer is kept with the record its run left.
LEMMA AnswerStep == ASSUME WebTypeOK, TurnInv, AnswerInv, [WebNext]_webVars PROVE AnswerInv'
<1> DEFINE OfRun == << stage, reading, query, unanswered, unansweredAs, said, asking >>
<1>1. CASE UNCHANGED OfRun /\ UNCHANGED result
  <2>1. \A q \in Questions : result'[q] = Nothing \/ OwnRecorded(result'[q], q, records')
    BY <1>1, RecordsKept DEF AnswerInv
  <2>2. stage' = "recorded" => said' = Nothing \/ OwnRecorded(said', asking', records')
    BY <1>1, RecordsKept DEF AnswerInv
  <2>3. QED
    BY <1>1, <2>1, <2>2 DEF AnswerInv, Own
<1>2. ASSUME NEW q \in Questions,
             \/ CheckBusy(q) \/ StartWorker(q) \/ Post(q) \/ Acquire(q) \/ Swap(q) \/ Release(q)
             \/ PutOutcome(q) \/ PutDone(q) \/ Yield(q) \/ Respond(q) \/ Leave(q)
      PROVE  AnswerInv'
  <2>1. UNCHANGED OfRun /\ UNCHANGED result
    BY <1>2 DEF CheckBusy, StartWorker, Post, Acquire, Swap, Release, PutOutcome, PutDone, Yield,
                Respond, Leave, agentVars, attributes
  <2>2. QED
    BY <1>1, <2>1
<1>3. ASSUME NEW q \in Questions, BeginAsk(q) PROVE AnswerInv'
  <2>1. stage' = "words" /\ reading' = Nothing /\ query' = Nothing /\ UNCHANGED result
    BY <1>3 DEF BeginAsk, Begin
  <2>2. \A p \in Questions : result'[p] = Nothing \/ OwnRecorded(result'[p], p, records')
    BY <2>1, RecordsKept DEF AnswerInv
  <2>3. QED
    BY <2>1, <2>2 DEF AnswerInv
<1>4. ASSUME NEW q \in Questions, Restore(q) PROVE AnswerInv'
  <2>1. /\ stage' = "idle" /\ result' = [result EXCEPT ![q] = said]
        /\ said = Nothing \/ OwnRecorded(said, q, records)
    BY <1>4 DEF Restore, AnswerInv
  <2>2. \A p \in Questions : result'[p] = Nothing \/ OwnRecorded(result'[p], p, records')
    BY <2>1, RecordsKept DEF AnswerInv, WebTypeOK
  <2>3. QED
    BY <2>1, <2>2 DEF AnswerInv
<1>5. ASSUME AskStep, ~Record PROVE AnswerInv'
  <2>1. UNCHANGED << asking, result >> /\ stage' \in {"model", "parse", "settle", "compose", "unread", "said", "raised"}
    BY <1>5, RunStep DEF AskStep
  <2>2. \A p \in Questions : result'[p] = Nothing \/ OwnRecorded(result'[p], p, records')
    BY <2>1, RecordsKept DEF AnswerInv
  <2>3. stage' = "said" => said' \in Answers /\ Own(said', asking')
    BY <1>5, <2>1, RunAnswers DEF AskStep
  <2>4. QED
    BY <1>5, <2>1, <2>2, <2>3, RunAnswers DEF AskStep, AnswerInv, Own
<1>6. ASSUME AskStep, Record PROVE AnswerInv'
  <2>1. /\ stage' = "recorded" /\ UNCHANGED << asking, result, reading, query >>
        /\ asking \in Questions /\ reading \in {asking, Nothing} /\ query \in {asking, Nothing}
    BY <1>6 DEF AskStep, Record, AnswerInv, TurnInv, attributes
  <2>2. \A p \in Questions : result'[p] = Nothing \/ OwnRecorded(result'[p], p, records')
    BY <2>1, RecordsKept DEF AnswerInv
  <2>3. said' = Nothing \/ OwnRecorded(said', asking', records')
    <3>1. CASE stage = "raised"
      BY <1>6, <3>1 DEF Record
    <3>2. CASE stage = "said"
      <4>1. said \in Answers /\ Own(said, asking) /\ said' = [said EXCEPT !.file = Len(records) + 1]
        BY <1>6, <3>2 DEF Record, AnswerInv
      <4>2. Own(said', asking) /\ said'.file = Len(records) + 1
        BY <4>1 DEF Answers, Own
      <4>3. Len(records) + 1 \in 1..Len(records') /\ records'[Len(records) + 1].of = asking
        BY <1>6, <2>1 DEF Record, WebTypeOK
      <4>4. QED
        BY <2>1, <4>2, <4>3 DEF OwnRecorded, Own
    <3>3. QED
      BY <1>6, <3>1, <3>2 DEF Record
  <2>4. QED
    BY <2>1, <2>2, <2>3 DEF AnswerInv
<1>7. CASE Quiet \/ UNCHANGED webVars
  BY <1>1, <1>7 DEF Quiet, webVars, agentVars, attributes
<1>8. QED
  BY <1>2, <1>3, <1>4, <1>5, <1>6, <1>7 DEF WebNext

\* An event put or sent for a client is of his own question.
LEMMA EventStep == ASSUME WebTypeOK, TurnInv, AnswerInv, EventInv, [WebNext]_webVars PROVE EventInv'
<1> DEFINE Kept(es, p) == \A i \in 1..Len(es) : OwnEvent(es[i], p, records')
<1>1. \A p \in Questions : Kept(events[p], p) /\ Kept(sent[p], p)
  BY RecordsKept DEF EventInv, OwnEvent
<1>2. ASSUME NEW es \in Seq(Events), NEW e \in Events, NEW p \in Questions, Kept(es, p), OwnEvent(e, p, records')
      PROVE  Kept(Append(es, e), p)
  BY <1>2
<1>3. ASSUME NEW p \in Questions
      PROVE  OwnEvent(Line(p), p, records') /\ OwnEvent([kind |-> "done", of |-> p], p, records')
  BY DEF OwnEvent, Line
<1>4. \A p \in Questions : events[p] \in Seq(Events) /\ sent[p] \in Seq(Events)
  BY DEF WebTypeOK
<1>5. SUFFICES \A p \in Questions : Kept(events'[p], p) /\ Kept(sent'[p], p)
  BY DEF EventInv
<1> HIDE DEF Kept
<1>6. CASE UNCHANGED << events, sent >>
  BY <1>1, <1>6
<1>7. ASSUME NEW q \in Questions, NEW e \in Events, OwnEvent(e, q, records'),
             events' = [events EXCEPT ![q] = Append(@, e)], UNCHANGED sent
      PROVE  \A p \in Questions : Kept(events'[p], p) /\ Kept(sent'[p], p)
  <2>1. Kept(Append(events[q], e), q)
    BY <1>1, <1>2, <1>4, <1>7
  <2>2. QED
    BY <1>1, <1>7, <2>1 DEF WebTypeOK
<1>8. ASSUME NEW q \in Questions, Outcome(q) \in Events, OwnEvent(Outcome(q), q, records)
      PROVE  OwnEvent(Outcome(q), q, records')
  BY <1>8, RecordsKept DEF OwnEvent
<1>9. ASSUME NEW q \in Questions PROVE Outcome(q) \in Events /\ OwnEvent(Outcome(q), q, records)
  BY EventsMade DEF WebTypeOK, AnswerInv, OwnEvent
<1>10. ASSUME NEW q \in Questions, PutOutcome(q) PROVE \A p \in Questions : Kept(events'[p], p) /\ Kept(sent'[p], p)
  <2>1. events' = [events EXCEPT ![q] = Append(@, Outcome(q))] /\ UNCHANGED sent
    BY <1>10 DEF PutOutcome
  <2>2. QED
    BY <1>7, <1>8, <1>9, <2>1
<1>11. ASSUME NEW q \in Questions, PutDone(q) PROVE \A p \in Questions : Kept(events'[p], p) /\ Kept(sent'[p], p)
  <2>1. events' = [events EXCEPT ![q] = Append(@, [kind |-> "done", of |-> q])] /\ UNCHANGED sent
    BY <1>11 DEF PutDone
  <2>2. QED
    BY <1>3, <1>7, <2>1, EventsMade
<1>12. ASSUME NEW q \in Questions, Respond(q) PROVE \A p \in Questions : Kept(events'[p], p) /\ Kept(sent'[p], p)
  <2>1. sent' = [sent EXCEPT ![q] = Append(@, Outcome(q))] /\ UNCHANGED events
    BY <1>12 DEF Respond, agentVars
  <2>2. Kept(Append(sent[q], Outcome(q)), q)
    BY <1>1, <1>2, <1>4, <1>8, <1>9
  <2>3. QED
    BY <1>1, <2>1, <2>2 DEF WebTypeOK
<1>13. ASSUME NEW q \in Questions, Yield(q) PROVE \A p \in Questions : Kept(events'[p], p) /\ Kept(sent'[p], p)
  <2>1. /\ events[q] # <<>> /\ events' = [events EXCEPT ![q] = Tail(@)]
        /\ sent' = sent \/ sent' = [sent EXCEPT ![q] = Append(@, Head(events[q]))]
    BY <1>13 DEF Yield
  <2>2. /\ Head(events[q]) \in Events /\ Head(events[q]) = events[q][1] /\ Len(events[q]) >= 1
    BY <2>1, NextOfLine
  <2>3. OwnEvent(Head(events[q]), q, records')
    BY <1>1, <1>4, <2>2 DEF Kept
  <2>4. Kept(Tail(events[q]), q)
    BY <1>1, <1>4, <2>1 DEF Kept
  <2>5. Kept(Append(sent[q], Head(events[q])), q)
    BY <1>1, <1>2, <1>4, <2>2, <2>3
  <2>6. QED
    BY <1>1, <2>1, <2>4, <2>5 DEF WebTypeOK
<1>14. ASSUME NEW s \in {asking, Discard}, stage # "idle", events' = Heard(s, asking), UNCHANGED sent
       PROVE  \A p \in Questions : Kept(events'[p], p) /\ Kept(sent'[p], p)
  <2>1. CASE s \in Questions
    <3>1. s = asking /\ events' = [events EXCEPT ![asking] = Append(@, Line(asking))]
      BY <1>14, <2>1, AgentAssumption DEF Heard
    <3>2. QED
      BY <1>3, <1>7, <1>14, <2>1, <3>1, EventsMade
  <2>2. CASE s \notin Questions
    BY <1>6, <1>14, <2>2 DEF Heard
  <2>3. QED
    BY <2>1, <2>2
<1>15. stage # "idle" => trace \in {asking, Discard} /\ sink \in {asking, Discard}
  BY DEF TurnInv
<1>16. ASSUME AskStep PROVE \A p \in Questions : Kept(events'[p], p) /\ Kept(sent'[p], p)
  <2>1. CASE Record
    BY <1>14, <1>15, <1>16, <2>1 DEF AskStep, Record
  <2>2. CASE ~Record
    BY <1>6, <1>14, <1>15, <1>16, <2>2, RunStep DEF AskStep
  <2>3. QED
    BY <2>1, <2>2
<1>17. ASSUME NEW q \in Questions,
              \/ CheckBusy(q) \/ StartWorker(q) \/ Post(q) \/ Acquire(q) \/ Swap(q)
              \/ BeginAsk(q) \/ Restore(q) \/ Release(q) \/ Leave(q)
       PROVE  UNCHANGED << events, sent >>
  BY <1>17 DEF CheckBusy, StartWorker, Post, Acquire, Swap, BeginAsk, Begin, Restore, Release, Leave, agentVars
<1>18. CASE Quiet \/ UNCHANGED webVars
  BY <1>6, <1>18 DEF Quiet, webVars, agentVars
<1>19. QED
  BY <1>6, <1>10, <1>11, <1>12, <1>13, <1>16, <1>17, <1>18 DEF WebNext

-----------------------------------------------------------------------------
(* The line of events put for a client *)

\* An event put for a client is the last of his line, and the line is longer by it.
LEMMA LinePut ==
  ASSUME WebTypeOK, NEW q \in Questions, NEW e \in Events, events'[q] = Append(events[q], e), sent'[q] = sent[q]
  PROVE  /\ Total(q) \in Nat /\ Total(q)' = Total(q) + 1
         /\ Len(events'[q]) = Len(events[q]) + 1 /\ Len(events[q]) \in Nat
         /\ Place(sent'[q], events'[q], Total(q) + 1).kind = e.kind
         /\ \A i \in 1..Total(q) : Place(sent'[q], events'[q], i).kind = KindAt(q, i)
<1>1. events[q] \in Seq(Events) /\ sent[q] \in Seq(Events)
  BY DEF WebTypeOK
<1> DEFINE m == Len(sent[q])
           n == Len(events[q])
           k == Len(events'[q])
<1>2. m \in Nat /\ n \in Nat /\ k = n + 1
  BY <1>1
<1>3. Len(sent'[q]) = m
  OBVIOUS
<1>4. /\ Place(sent[q], Append(events[q], e), m + n + 1) = e
      /\ \A i \in 1..(m + n) : Place(sent[q], Append(events[q], e), i) = Place(sent[q], events[q], i)
  <2>1. \A s, t \in Seq(Events) :
          /\ Place(s, Append(t, e), Len(s) + Len(t) + 1) = e
          /\ \A i \in 1..(Len(s) + Len(t)) : Place(s, Append(t, e), i) = Place(s, t, i)
    BY PlaceOfPut
  <2>2. QED
    BY <1>1, <2>1, Zenon
<1>5. Total(q) = m + n /\ Total(q)' = m + k
  BY <1>3, Zenon DEF Total
<1>6. Place(sent'[q], events'[q], Total(q) + 1).kind = e.kind
  BY <1>4, <1>5, Zenon
<1>7. \A i \in 1..Total(q) : Place(sent'[q], events'[q], i).kind = KindAt(q, i)
  BY <1>4, <1>5, Zenon DEF KindAt
<1> HIDE DEF m, n, k
<1>8. Total(q) \in Nat /\ Total(q)' = Total(q) + 1
  BY <1>2, <1>5
<1>9. Len(events'[q]) = Len(events[q]) + 1 /\ Len(events[q]) \in Nat
  BY <1>2, Zenon DEF n, k
<1>10. QED
  BY <1>6, <1>7, <1>8, <1>9, Zenon

\* Where nothing is put and no thread gets on, the line stands.
LEMMA LineKept ==
  ASSUME NEW q \in Questions, LineOf(q), sent'[q] = sent[q], events'[q] = events[q],
         worker'[q] = worker[q], request'[q] = request[q], q \in posts' <=> q \in posts,
         worker[q] = "asking" /\ stage' = "recorded" => stage = "recorded"
  PROVE  LineOf(q)'
  BY DEF LineOf, ProgressTo, KindAt, Total, Streams

\* A line written by a run.
LEMMA LineHeard ==
  ASSUME WebTypeOK, TurnInv, LineInv, RequestInv, NEW q \in Questions, asking = q, stage # "idle",
         events' = Heard(trace, q),
         UNCHANGED << sent, worker, request, posts >>
  PROVE  LineInv'
<1>1. /\ worker[q] = "asking" /\ request[q] # "ended"
      /\ trace = (IF q \in posts THEN Discard ELSE q)
      /\ \A p \in Questions \ {q} : worker[p] # "asking"
  BY DEF TurnInv, RequestInv
<1>2. ASSUME NEW p \in Questions \ {q} PROVE LineOf(p)'
  <2>1. events'[p] = events[p]
    BY <1>1, AgentAssumption DEF Heard, WebTypeOK
  <2>2. QED
    BY <1>1, <1>2, <2>1, LineKept DEF LineInv
<1>3. CASE q \in posts
  <2>1. events' = events
    BY <1>1, <1>3, AgentAssumption DEF Heard
  <2>2. LineOf(q)'
    BY <1>1, <1>3, <2>1 DEF LineInv, LineOf, ProgressTo, KindAt, Total, Streams, Holding
  <2>3. QED
    BY <1>2, <2>2 DEF LineInv
<1>4. CASE q \notin posts
  <2>1. events'[q] = Append(events[q], Line(q))
    BY <1>1, <1>4 DEF Heard, WebTypeOK
  <2>2. Line(q) \in Events /\ Line(q).kind = "progress"
    BY <1>1, EventsMade DEF Line
  <2>3. /\ Total(q) \in Nat /\ Total(q)' = Total(q) + 1
        /\ Place(sent'[q], events'[q], Total(q) + 1).kind = "progress"
        /\ \A i \in 1..Total(q) : Place(sent'[q], events'[q], i).kind = KindAt(q, i)
    BY <1>1, <2>1, <2>2, LinePut
  <2>4. ProgressTo(q, Total(q))
    BY <1>1 DEF LineInv, LineOf
  <2>5. ProgressTo(q, Total(q))'
    BY <2>3, <2>4 DEF ProgressTo, KindAt
  <2>6. LineOf(q)'
    BY <1>1, <1>4, <2>3, <2>5 DEF LineOf, Streams
  <2>7. QED
    BY <1>2, <2>6 DEF LineInv
<1>5. QED
  BY <1>3, <1>4

\* A worker that gets on without a word leaves the line as it is.
LEMMA LineQuiet ==
  ASSUME NEW q \in Questions, LineOf(q), sent'[q] = sent[q], events'[q] = events[q],
         worker[q] \notin {"put", "done"}, worker'[q] \notin {"put", "done"},
         request[q] # "ended", request'[q] # "ended",
         (q \in posts' <=> q \in posts) \/ worker[q] = "none",
         worker'[q] = "none" => worker[q] = "none",
         worker'[q] \in {"restored", "released"} =>
           worker[q] \in {"restored", "released"} \/ (worker[q] = "asking" /\ stage = "recorded"),
         worker'[q] = "asking" => stage' # "recorded"
  PROVE  LineOf(q)'
<1>1. UNCHANGED << Total(q), ProgressTo(q, Total(q)) >>
  BY DEF Total, ProgressTo, KindAt
<1>2. QED
  BY <1>1 DEF LineOf, Streams

\* A worker's outcome, and its done, come after the lines of its run.
LEMMA LineOutcome ==
  ASSUME WebTypeOK, TurnInv, LineInv, RequestInv, NEW q \in Questions, PutOutcome(q)
  PROVE  LineOf(q)'
<1>1. /\ worker[q] = "released" /\ worker'[q] = "put" /\ events'[q] = Append(events[q], Outcome(q))
      /\ sent'[q] = sent[q] /\ request' = request /\ posts' = posts /\ q \in Streams
  BY DEF PutOutcome, Work, WebTypeOK
<1>2. Outcome(q) \in Events /\ Outcome(q).kind \in Said
  BY EventsMade DEF WebTypeOK
<1>3. /\ Total(q) \in Nat /\ Total(q)' = Total(q) + 1
      /\ Place(sent'[q], events'[q], Total(q) + 1).kind = Outcome(q).kind
      /\ \A i \in 1..Total(q) : Place(sent'[q], events'[q], i).kind = KindAt(q, i)
  BY <1>1, <1>2, LinePut
<1>4. ProgressTo(q, Total(q)) /\ Total(q) >= 1 /\ request[q] # "ended"
  BY <1>1 DEF LineInv, LineOf, RequestInv
<1>5. Total(q)' - 1 = Total(q) /\ Total(q)' >= 2
  BY <1>3, <1>4
<1>6. KindAt(q, Total(q))' \in Said /\ ProgressTo(q, Total(q) - 1)'
  BY <1>2, <1>3, <1>4, <1>5 DEF KindAt, ProgressTo
<1>7. QED
  BY <1>1, <1>4, <1>5, <1>6 DEF LineOf, Streams

\* Done is put once, at the end of the line.
LEMMA LineDone ==
  ASSUME WebTypeOK, LineInv, RequestInv, NEW q \in Questions, PutDone(q)
  PROVE  LineOf(q)'
<1> DEFINE e == [kind |-> "done", of |-> q]
<1>1. /\ worker[q] = "put" /\ worker'[q] = "done" /\ events'[q] = Append(events[q], e)
      /\ sent'[q] = sent[q] /\ request' = request /\ posts' = posts
  BY DEF PutDone, Work, WebTypeOK
<1>2. e \in Events /\ e.kind = "done"
  BY EventsMade
<1>3. /\ Total(q) \in Nat /\ Total(q)' = Total(q) + 1
      /\ Len(events'[q]) = Len(events[q]) + 1 /\ Len(events[q]) \in Nat
      /\ Place(sent'[q], events'[q], Total(q) + 1).kind = "done"
      /\ \A i \in 1..Total(q) : Place(sent'[q], events'[q], i).kind = KindAt(q, i)
  BY <1>1, <1>2, LinePut
<1>4. /\ Total(q) >= 2 /\ KindAt(q, Total(q)) \in Said /\ ProgressTo(q, Total(q) - 1)
      /\ request[q] # "ended" /\ q \notin posts
  BY <1>1 DEF LineInv, LineOf, RequestInv
<1>5. Total(q)' - 1 = Total(q) /\ Total(q)' - 2 = Total(q) - 1 /\ Total(q)' >= 3
  BY <1>3, <1>4
<1>6. /\ KindAt(q, Total(q))' = "done" /\ KindAt(q, Total(q) - 1)' \in Said /\ ProgressTo(q, Total(q) - 2)'
  <2>1. KindAt(q, Total(q))' = "done"
    BY <1>3, Zenon DEF KindAt
  <2>2. Total(q) \in 1..Total(q) /\ \A i \in 1..(Total(q) - 1) : i \in 1..Total(q)
    BY <1>3, <1>4
  <2>3. KindAt(q, Total(q) - 1)' \in Said
    BY <1>3, <1>4, <1>5, <2>2, Zenon DEF KindAt
  <2>4. ProgressTo(q, Total(q) - 2)'
    BY <1>3, <1>4, <1>5, <2>2, Zenon DEF KindAt, ProgressTo
  <2>5. QED
    BY <2>1, <2>3, <2>4
<1>7. Len(events'[q]) >= 1
  BY <1>3
<1>8. QED
  BY <1>1, <1>4, <1>5, <1>6, <1>7 DEF LineOf, Streams

\* A POST's response is all its client hears.
LEMMA LineResponse ==
  ASSUME WebTypeOK, LineInv, RequestInv, NEW q \in Questions, Respond(q)
  PROVE  LineOf(q)'
<1>1. /\ worker[q] = "released" /\ worker'[q] = "done" /\ request'[q] = "ended" /\ q \in posts
      /\ sent'[q] = Append(sent[q], Outcome(q)) /\ events'[q] = events[q] /\ posts' = posts
  BY DEF Respond, Work, WebTypeOK, agentVars
<1>2. Outcome(q) \in Events /\ Outcome(q).kind \in Said
  BY EventsMade DEF WebTypeOK
<1>3. sent[q] \in Seq(Events) /\ events[q] \in Seq(Events) /\ Len(events[q]) = 0
  BY <1>1 DEF LineInv, LineOf, WebTypeOK
<1> DEFINE n == Len(sent[q])
<1>4. n \in Nat /\ Len(sent'[q]) = n + 1
  BY <1>1, <1>2, <1>3
<1>5. /\ \A i \in 1..n : Place(sent[q], events[q], i) = sent[q][i]
      /\ \A i \in 1..n : Append(sent[q], Outcome(q))[i] = sent[q][i]
      /\ Append(sent[q], Outcome(q))[n + 1] = Outcome(q)
  BY <1>2, <1>3 DEF Place
<1> HIDE DEF n
<1>6. Total(q) = n + 0 /\ Total(q)' = n + 1 + 0
  BY <1>1, <1>3, <1>4, Zenon DEF Total, n
<1>7. Total(q) = n /\ Total(q)' = n + 1 /\ Total(q)' - 1 = n
  BY <1>4, <1>6
<1>8. \A i \in 1..n : sent[q][i].kind = "progress"
  BY <1>1, <1>5, <1>7 DEF LineInv, LineOf, ProgressTo, KindAt
<1>9. \A i \in 1..(n + 1) : Place(sent'[q], events'[q], i) = sent'[q][i]
  BY <1>4 DEF Place
<1>10. \A i \in 1..n : i \in 1..(n + 1) /\ n + 1 \in 1..(n + 1)
  BY <1>4
<1>11. n + 1 \in 1..(n + 1) /\ n + 1 >= 1
  BY <1>4
<1>12. KindAt(q, Total(q))' \in Said
  BY <1>1, <1>2, <1>5, <1>7, <1>9, <1>11, Zenon DEF KindAt
<1>13. ProgressTo(q, Total(q) - 1)'
  <2>1. \A i \in 1..n : sent'[q][i].kind = "progress"
    BY <1>1, <1>5, <1>8, Zenon
  <2>2. \A i \in 1..n : Place(sent'[q], events'[q], i).kind = "progress"
    BY <1>9, <1>10, <2>1, Zenon
  <2>3. QED
    BY <1>7, <2>2, Zenon DEF KindAt, ProgressTo
<1>14. QED
  BY <1>1, <1>3, <1>7, <1>11, <1>12, <1>13 DEF LineOf, Streams

\* What the handler sends on is the line's next event; done is its last.
LEMMA LineYielded ==
  ASSUME WebTypeOK, LineInv, RequestInv, NEW q \in Questions, Yield(q)
  PROVE  LineOf(q)'
<1> DEFINE m == Len(sent[q])
           n == Len(events[q])
<1>1. /\ events[q] # <<>> /\ events'[q] = Tail(events[q]) /\ request[q] = "streaming"
      /\ worker' = worker /\ posts' = posts
      /\ events[q] \in Seq(Events) /\ sent[q] \in Seq(Events) /\ q \notin posts
  BY DEF Yield, WebTypeOK, RequestInv
<1>2. /\ m \in Nat /\ n \in Nat /\ n >= 1 /\ Len(events'[q]) = n - 1
  BY <1>1, PlaceOfSent
<1>3. /\ Total(q) \in Nat /\ m + 1 \in 1..Total(q)
      /\ Head(events[q]).kind = KindAt(q, m + 1)
  BY <1>1, NextOfLine
<1>4. CASE Head(events[q]).kind # "done"
  <2>1. sent'[q] = Append(sent[q], Head(events[q])) /\ request' = request
    BY <1>4 DEF Yield, WebTypeOK
  <2>2. Len(sent'[q]) = m + 1
    BY <1>1, <2>1, PlaceOfSent
  <2>3. \A i \in 1..(m + n) : Place(sent'[q], events'[q], i) = Place(sent[q], events[q], i)
    <3>1. \A s, t \in Seq(Events) : t # <<>> =>
            \A i \in 1..(Len(s) + Len(t)) : Place(Append(s, Head(t)), Tail(t), i) = Place(s, t, i)
      BY PlaceOfSent
    <3>2. QED
      BY <1>1, <2>1, <3>1, Zenon
  <2>4. Total(q) = m + n /\ Total(q)' = m + 1 + (n - 1)
    BY <1>2, <2>2, Zenon DEF Total
  <2> HIDE DEF m, n
  <2>5. Total(q)' = Total(q)
    BY <1>2, <2>4
  <2>6. \A i \in 1..Total(q) : KindAt(q, i)' = KindAt(q, i)
    BY <2>3, <2>4, Zenon DEF KindAt
  <2>7. worker[q] = "done" => n >= 2
    <3>1. worker[q] = "done" => m + 1 # Total(q)
      BY <1>1, <1>3, <1>4 DEF LineInv, LineOf
    <3>2. QED
      BY <1>2, <2>4, <3>1
  <2>8. worker[q] = "done" => Len(events'[q]) >= 1
    BY <1>2, <2>7
  <2>9. \A k \in Nat : k <= Total(q) /\ ProgressTo(q, k) => ProgressTo(q, k)'
    BY <1>3, <2>6 DEF ProgressTo
  <2>10. LineOf(q) /\ worker[q] # "none"
    BY <1>1 DEF LineInv, RequestInv
  <2>11. QED
    BY <1>1, <1>3, <2>1, <2>5, <2>6, <2>8, <2>9, <2>10 DEF LineOf, Streams
<1>5. CASE Head(events[q]).kind = "done"
  <2>1. sent'[q] = sent[q] /\ request'[q] = "ended"
    BY <1>5 DEF Yield, WebTypeOK
  <2>2. worker[q] = "done" /\ m + 1 = Total(q)
    BY <1>3, <1>5, KindsOfLine
  <2>3. /\ Total(q) >= 3 /\ KindAt(q, Total(q) - 1) \in Said /\ ProgressTo(q, Total(q) - 2)
    BY <1>1, <2>2 DEF LineInv, LineOf
  <2>4. Total(q) = m + n /\ Total(q)' = m + (n - 1)
    BY <1>2, <2>1, Zenon DEF Total
  <2>5. \A i \in 1..m : Place(sent'[q], events'[q], i) = Place(sent[q], events[q], i)
    BY <1>2, <2>1 DEF Place
  <2> HIDE DEF m, n
  <2>6. Total(q)' = m /\ n = 1 /\ m >= 2 /\ Total(q) - 1 = m /\ Total(q) - 2 = m - 1
    BY <1>2, <2>2, <2>3, <2>4
  <2>7. Len(events'[q]) = 0
    BY <1>2, <2>6
  <2>8. \A i \in 1..m : KindAt(q, i)' = KindAt(q, i)
    BY <2>5, Zenon DEF KindAt
  <2>9. KindAt(q, Total(q))' \in Said /\ ProgressTo(q, Total(q) - 1)'
    BY <1>2, <2>3, <2>6, <2>8 DEF ProgressTo
  <2>10. QED
    BY <1>1, <1>2, <2>1, <2>2, <2>6, <2>7, <2>9 DEF LineOf, Streams
<1>6. QED
  BY <1>4, <1>5

\* Every step leaves each client's line in its order.
LEMMA LineStep == ASSUME WebTypeOK, TurnInv, RequestInv, LineInv, [WebNext]_webVars PROVE LineInv'
<1>1. CASE UNCHANGED << sent, events, worker, request, posts, stage >>
  BY <1>1, LineKept DEF LineInv
<1>2. ASSUME NEW q \in Questions, LineOf(q)',
             \A p \in Questions \ {q} :
               /\ sent'[p] = sent[p] /\ events'[p] = events[p] /\ worker'[p] = worker[p]
               /\ request'[p] = request[p] /\ (p \in posts' <=> p \in posts),
             stage' = "recorded" => stage = "recorded"
      PROVE  LineInv'
  BY <1>2, LineKept DEF LineInv
<1>3. ASSUME NEW q \in Questions, CheckBusy(q) \/ Leave(q) PROVE LineInv'
  <2>1. /\ UNCHANGED << sent, events, worker, posts, stage >>
        /\ request' = [request EXCEPT ![q] = request'[q]]
        /\ request[q] # "ended" /\ request'[q] # "ended"
    BY <1>3 DEF CheckBusy, Leave, agentVars, WebTypeOK
  <2>2. LineOf(q)'
    BY <2>1 DEF LineInv, LineOf, ProgressTo, KindAt, Total, Streams
  <2>3. QED
    BY <1>2, <2>1, <2>2 DEF WebTypeOK
<1>4. ASSUME NEW q \in Questions,
             StartWorker(q) \/ Post(q) \/ Acquire(q) \/ Swap(q) \/ BeginAsk(q) \/ Restore(q) \/ Release(q)
      PROVE  LineInv'
  <2>1. /\ UNCHANGED << sent, events >>
        /\ stage' = "recorded" => stage = "recorded"
        /\ worker'[q] = "asking" => stage' # "recorded"
        /\ worker' = [worker EXCEPT ![q] = worker'[q]]
        /\ worker[q] \notin {"put", "done"} /\ worker'[q] \notin {"none", "put", "done"}
        /\ worker'[q] \in {"restored", "released"} =>
             worker[q] = "restored" \/ (worker[q] = "asking" /\ stage = "recorded")
    BY <1>4 DEF StartWorker, Post, Acquire, Swap, BeginAsk, Begin, Restore, Release, Work, agentVars, WebTypeOK
  <2>2. request[q] # "ended"
    BY <2>1 DEF RequestInv
  <2>3. /\ request' = [request EXCEPT ![q] = request'[q]]
        /\ request'[q] # "ended"
        /\ (q \in posts' <=> q \in posts) \/ worker[q] = "none"
        /\ \A p \in Questions \ {q} : p \in posts' <=> p \in posts
    <3>1. CASE StartWorker(q) BY <3>1 DEF StartWorker, WebTypeOK
    <3>2. CASE Post(q) BY <3>2 DEF Post, Work, WebTypeOK
    <3>3. CASE \/ Acquire(q) \/ Swap(q) \/ BeginAsk(q) \/ Restore(q) \/ Release(q)
      <4>1. UNCHANGED << request, posts >>
        BY <3>3 DEF Acquire, Swap, BeginAsk, Restore, Release
      <4>2. QED
        BY <2>2, <4>1 DEF WebTypeOK
    <3>4. QED BY <1>4, <3>1, <3>2, <3>3
  <2>4. LineOf(q) /\ (worker'[q] = "none" => worker[q] = "none")
    BY <2>1 DEF LineInv
  <2>5. sent'[q] = sent[q] /\ events'[q] = events[q]
    BY <2>1
  <2>6. LineOf(q)'
    BY <2>1, <2>2, <2>3, <2>4, <2>5, LineQuiet
  <2>7. \A p \in Questions \ {q} : worker'[p] = worker[p] /\ request'[p] = request[p]
    BY <2>1, <2>3 DEF WebTypeOK
  <2>8. QED
    BY <1>2, <2>1, <2>3, <2>6, <2>7
<1>5. ASSUME NEW q \in Questions, PutOutcome(q) \/ PutDone(q) \/ Respond(q) \/ Yield(q) PROVE LineInv'
  <2>1. LineOf(q)'
    BY <1>5, LineOutcome, LineDone, LineResponse, LineYielded
  <2>2. \A p \in Questions \ {q} :
          /\ sent'[p] = sent[p] /\ events'[p] = events[p] /\ worker'[p] = worker[p]
          /\ request'[p] = request[p] /\ (p \in posts' <=> p \in posts)
    <3>1. CASE PutOutcome(q) BY <3>1 DEF PutOutcome, Work, WebTypeOK
    <3>2. CASE PutDone(q) BY <3>2 DEF PutDone, Work, WebTypeOK
    <3>3. CASE Respond(q) BY <3>3 DEF Respond, Work, WebTypeOK, agentVars
    <3>4. CASE Yield(q) BY <3>4 DEF Yield, WebTypeOK
    <3>5. QED BY <1>5, <3>1, <3>2, <3>3, <3>4
  <2>3. stage' = stage
    BY <1>5 DEF PutOutcome, PutDone, Respond, Yield, agentVars
  <2>4. QED
    BY <1>2, <2>1, <2>2, <2>3
<1>6. ASSUME AskStep PROVE LineInv'
  <2>1. PICK q \in Questions : q = asking /\ stage # "idle"
    <3>1. CASE Record BY <3>1 DEF Record, TurnInv
    <3>2. CASE ~Record BY <1>6, <3>2, RunStep DEF AskStep, TurnInv
    <3>3. QED BY <3>1, <3>2
  <2>2. UNCHANGED << sent, worker, request, posts >> /\ sink = trace
    BY <1>6, <2>1 DEF AskStep, TurnInv
  <2>3. CASE events' = Heard(trace, q)
    BY <2>1, <2>2, <2>3, LineHeard
  <2>4. CASE events' = events /\ ~Record
    <3>1. stage' # "recorded"
      BY <1>6, <2>4, RunStep DEF AskStep
    <3>2. QED
      BY <2>2, <2>4, <3>1, LineKept DEF LineInv
  <2>5. QED
    <3>1. CASE Record BY <2>1, <2>3, <3>1 DEF Record
    <3>2. CASE ~Record BY <1>6, <2>1, <2>2, <2>3, <2>4, <3>2, RunStep DEF AskStep
    <3>3. QED BY <3>1, <3>2
<1>7. CASE Quiet \/ UNCHANGED webVars
  BY <1>1, <1>7 DEF Quiet, webVars, agentVars
<1>8. QED
  BY <1>3, <1>4, <1>5, <1>6, <1>7 DEF WebNext

-----------------------------------------------------------------------------
(* The theorems *)

\* Every step keeps it all.
LEMMA WebStep == ASSUME IInv, [WebNext]_webVars PROVE IInv'
  BY WebTypeStep, TurnStep, RequestStep, RecordStep, AnswerStep, EventStep, LineStep DEF IInv

\* So it all holds throughout.
LEMMA WebInvariant == WebSpec => []IInv
<1>1. WebInit => IInv
  BY WebInitInv
<1>2. IInv /\ [WebNext]_webVars => IInv'
  BY WebStep
<1>3. QED
  BY <1>1, <1>2, PTL DEF WebSpec

\* What is put for a client or sent to him is of his own question.
LEMMA SentIsOwn ==
  ASSUME IInv, NEW q \in Questions
  PROVE  /\ DOMAIN events[q] = 1..Len(events[q]) /\ DOMAIN sent[q] = 1..Len(sent[q])
         /\ \A i \in 1..Len(events[q]) : OwnEvent(events[q][i], q, records)
         /\ \A i \in 1..Len(sent[q]) : OwnEvent(sent[q][i], q, records)
<1>1. events[q] \in Seq(Events) /\ sent[q] \in Seq(Events)
  BY DEF IInv, WebTypeOK
<1>2. DOMAIN events[q] = 1..Len(events[q]) /\ DOMAIN sent[q] = 1..Len(sent[q])
  BY <1>1
<1>3. QED
  BY <1>2, Zenon DEF IInv, EventInv

\* Whatever threads interleave, clients leave and runs raise, a trace that
\* reaches a client is of its own question: AgentRunner.ask swaps the sink, and
\* restores it, under the lock.
THEOREM WebTracesReachTheirOwner == WebSpec => []TracesReachTheirOwner
<1>1. ASSUME IInv PROVE TracesReachTheirOwner
  BY SentIsOwn, <1>1, Zenon DEF TracesReachTheirOwner, OwnEvent
<1>2. QED
  BY <1>1, WebInvariant, PTL

\* So is the answer that reaches it, whatever was asked before: Agent.ask drops
\* the attributes of the question before, and each answer keeps its record.
THEOREM WebAnswersItsOwnQuestion == WebSpec => []AnswersItsOwnQuestion
<1>1. ASSUME IInv PROVE AnswersItsOwnQuestion
  <2> SUFFICES ASSUME NEW q \in Questions, NEW i \in Outcomes(q), sent[q][i].kind = "answer"
               PROVE  OwnRecorded(sent[q][i].answer, q, records)
    BY DEF AnswersItsOwnQuestion, OwnRecorded, Own
  <2>1. i \in DOMAIN sent[q]
    BY DEF Outcomes
  <2>2. QED
    BY SentIsOwn, <1>1, <2>1, Zenon DEF OwnEvent
<1>2. QED
  BY <1>1, WebInvariant, PTL

\* A stream that ended said its outcome once, after its run's lines.
THEOREM WebStreamsWhole == WebSpec => []EndedStreamsAreWhole
<1>1. ASSUME IInv, NEW q \in Streams, request[q] = "ended"
      PROVE  Outcomes(q) = {Len(sent[q])} /\ Len(sent[q]) > 1 /\ events[q] = <<>>
  <2>1. /\ q \in Questions /\ sent[q] \in Seq(Events) /\ events[q] \in Seq(Events)
        /\ worker[q] = "done"
    BY <1>1 DEF IInv, WebTypeOK, RequestInv, Streams
  <2>2. /\ Len(events[q]) = 0 /\ KindAt(q, Total(q)) \in Said /\ ProgressTo(q, Total(q) - 1) /\ Total(q) >= 2
    BY <1>1, <2>1 DEF IInv, LineInv, LineOf
  <2>3. events[q] = <<>>
    BY <2>1, <2>2
  <2> DEFINE n == Len(sent[q])
  <2>4. n \in Nat /\ DOMAIN sent[q] = 1..n /\ \A i \in 1..n : KindAt(q, i) = sent[q][i].kind
    BY <2>1 DEF KindAt, Place
  <2>5. Total(q) = n + 0
    BY <2>2, Zenon DEF Total
  <2>6. \A i \in DOMAIN sent[q] : i \in Outcomes(q) <=> sent[q][i].kind \in Said
    BY Zenon DEF Outcomes, Said
  <2>7. Outcomes(q) \subseteq DOMAIN sent[q]
    BY DEF Outcomes
  <2> HIDE DEF n
  <2>8. Total(q) = n /\ n >= 2
    BY <2>2, <2>4, <2>5
  <2>9. n \in Outcomes(q)
    BY <2>2, <2>4, <2>6, <2>8
  <2>10. ASSUME NEW i \in Outcomes(q) PROVE i = n
    BY <2>2, <2>4, <2>6, <2>7, <2>8 DEF ProgressTo, Said
  <2>11. QED
    BY <2>3, <2>8, <2>9, <2>10 DEF n
<1>2. IInv => EndedStreamsAreWhole
  BY <1>1 DEF EndedStreamsAreWhole
<1>3. QED
  BY <1>2, WebInvariant, PTL

-----------------------------------------------------------------------------
(* Web implements Answering *)

Statuses == [q \in Questions |-> Status(q)]
Ran == [i \in DOMAIN records |-> records[i].of]
HeardBy == [q \in Questions |-> [p \in Questions |-> Cardinality(OutcomesOf(p, q))]]

\* The abstract steps, of the mapped variables.
LEMMA MappedSteps ==
  ASSUME NEW q \in Questions
  PROVE  /\ (Statuses[q] = "new" /\ Statuses' = [Statuses EXCEPT ![q] = "waiting"]
              /\ UNCHANGED << lock, Ran, HeardBy >>) => OneAtATime!Ask(q)
         /\ (Statuses[q] = "waiting" /\ Statuses' = [Statuses EXCEPT ![q] = "answering"]
              /\ lock = Nothing /\ lock' = q /\ UNCHANGED << Ran, HeardBy >>) => OneAtATime!Start(q)
         /\ (lock = q /\ (\A i \in 1..Len(Ran) : Ran[i] # q) /\ Ran' = Append(Ran, q)
              /\ UNCHANGED << Statuses, lock, HeardBy >>) => OneAtATime!Write(q)
         /\ (Statuses[q] = "answering" /\ Statuses' = [Statuses EXCEPT ![q] = "ready"]
              /\ lock = q /\ lock' = Nothing /\ (\E i \in 1..Len(Ran) : Ran[i] = q)
              /\ UNCHANGED << Ran, HeardBy >>) => OneAtATime!Finish(q)
         /\ (Statuses[q] = "ready" /\ Statuses' = [Statuses EXCEPT ![q] = "over"]
              /\ UNCHANGED << lock, Ran, HeardBy >>) => OneAtATime!End(q)
         /\ (Statuses[q] = "new" /\ Statuses' = [Statuses EXCEPT ![q] = "over"]
              /\ UNCHANGED << lock, Ran, HeardBy >>) => OneAtATime!Forget(q)
         /\ (Statuses[q] \in {"ready", "over"} /\ (\A p \in Questions : HeardBy[q][p] = 0)
              /\ HeardBy' = [HeardBy EXCEPT ![q][q] = 1]
              /\ (Statuses' = Statuses \/ (Statuses[q] = "ready" /\ Statuses' = [Statuses EXCEPT ![q] = "over"]))
              /\ UNCHANGED << lock, Ran >>) => OneAtATime!Hear(q)
  BY DEF Statuses, Ran, HeardBy, OneAtATime!Ask, OneAtATime!Start, OneAtATime!Write, OneAtATime!Finish,
         OneAtATime!End, OneAtATime!Forget, OneAtATime!Hear, OneAtATime!Become

\* Where the abstract variables stand.
LEMMA StatusIs ==
  ASSUME NEW q \in Questions
  PROVE  /\ Statuses[q] = Status(q)
         /\ worker[q] = "none" => Status(q) = IF request[q] = "left" THEN "over" ELSE "new"
         /\ worker[q] = "waiting" => Status(q) = "waiting"
         /\ worker[q] \in Holding => Status(q) = "answering"
         /\ worker[q] \in {"released", "put"} => Status(q) = "ready"
         /\ worker[q] = "done" => Status(q) = "over"
  BY DEF Statuses, Status, Holding

\* A step of one question's worker moves that question's status alone.
LEMMA StatusMoves ==
  ASSUME NEW q \in Questions,
         \A p \in Questions \ {q} : worker'[p] = worker[p] /\ request'[p] = request[p]
  PROVE  Statuses' = [Statuses EXCEPT ![q] = Status(q)']
<1>1. \A p \in Questions \ {q} : Status(p)' = Status(p)
  BY DEF Status
<1>2. QED
  BY <1>1 DEF Statuses

\* Where nothing is sent nothing is heard.
LEMMA NothingHeard == ASSUME sent' = sent PROVE HeardBy' = HeardBy
  BY DEF HeardBy, OutcomesOf, Outcomes

\* A line of the trace is no outcome.
LEMMA TraceHeard ==
  ASSUME WebTypeOK, NEW q \in Questions, NEW e \in Events, e.kind = "progress",
         sent' = [sent EXCEPT ![q] = Append(@, e)]
  PROVE  HeardBy' = HeardBy
<1>1. sent[q] \in Seq(Events) /\ sent' = [sent EXCEPT ![q] = sent'[q]] /\ sent'[q] = Append(sent[q], e)
  BY DEF WebTypeOK
<1> DEFINE n == Len(sent[q])
<1>2. n \in Nat /\ DOMAIN sent[q] = 1..n /\ DOMAIN sent'[q] = 1..(n + 1)
  BY <1>1
<1>3. sent'[q][n + 1] = e /\ \A i \in 1..n : sent'[q][i] = sent[q][i]
  BY <1>1
<1> HIDE DEF n
<1>4. Outcomes(q)' = Outcomes(q)
  BY <1>2, <1>3 DEF Outcomes
<1>5. \A p : OutcomesOf(p, q)' = OutcomesOf(p, q)
  BY <1>2, <1>3, <1>4 DEF OutcomesOf, Outcomes
<1>6. \A r \in Questions \ {q} : \A p : OutcomesOf(p, r)' = OutcomesOf(p, r)
  BY DEF WebTypeOK, OutcomesOf, Outcomes
<1>7. QED
  BY <1>5, <1>6 DEF HeardBy

\* The first outcome a client hears, of its own question.
LEMMA OutcomeHeard ==
  ASSUME WebTypeOK, NEW q \in Questions, NEW e \in Events, e.kind \in Said, OwnEvent(e, q, records),
         sent' = [sent EXCEPT ![q] = Append(@, e)],
         \A i \in 1..Len(sent[q]) : sent[q][i].kind = "progress"
  PROVE  /\ \A p \in Questions : HeardBy[q][p] = 0
         /\ HeardBy' = [HeardBy EXCEPT ![q][q] = 1]
<1>1. sent[q] \in Seq(Events) /\ sent' = [sent EXCEPT ![q] = sent'[q]] /\ sent'[q] = Append(sent[q], e)
  BY DEF WebTypeOK
<1> DEFINE n == Len(sent[q])
<1>2. n \in Nat /\ DOMAIN sent[q] = 1..n /\ DOMAIN sent'[q] = 1..(n + 1)
  BY <1>1
<1>3. sent'[q][n + 1] = e /\ \A i \in 1..n : sent'[q][i] = sent[q][i]
  BY <1>1
<1>4. \A i \in 1..n : sent[q][i].kind = "progress"
  OBVIOUS
<1> HIDE DEF n
<1>5. Outcomes(q) = {} /\ Outcomes(q)' = {n + 1}
  BY <1>2, <1>3, <1>4 DEF Outcomes, Said
<1>6. \A p : OutcomesOf(p, q) = {}
  BY <1>5 DEF OutcomesOf
<1>7. q = IF e.kind = "answer" THEN e.answer.of ELSE q
  BY DEF OwnEvent, OwnRecorded, Own
<1>8. \A p : OutcomesOf(p, q)' = IF p = q THEN {n + 1} ELSE {}
  <2>1. sent'[q][n + 1].kind = e.kind /\ sent'[q][n + 1].answer = e.answer
    BY <1>3, Zenon
  <2>2. \A i \in Outcomes(q)' : q = IF sent'[q][i].kind = "answer" THEN sent'[q][i].answer.of ELSE q
    BY <1>5, <1>7, <2>1
  <2>3. QED
    BY <1>5, <2>2 DEF OutcomesOf
<1>9. \A r \in Questions \ {q} : \A p : OutcomesOf(p, r)' = OutcomesOf(p, r)
  BY DEF WebTypeOK, OutcomesOf, Outcomes
<1>10. Cardinality({}) = 0 /\ Cardinality({n + 1}) = 1
  BY FS_EmptySet, FS_Singleton
<1>11. \A p \in Questions : HeardBy[q][p] = 0
  BY <1>6, <1>10 DEF HeardBy
<1>12. QED
  BY <1>6, <1>8, <1>9, <1>10, <1>11 DEF HeardBy

\* A run's one record.
LEMMA RunWritten ==
  ASSUME WebTypeOK, TurnInv, RecordInv, NEW q \in Questions, asking = q, Record
  PROVE  lock = q /\ (\A i \in 1..Len(Ran) : Ran[i] # q) /\ Ran' = Append(Ran, q)
<1>1. worker[q] = "asking" /\ lock = q /\ stage # "recorded"
  BY DEF Record, TurnInv, Holding
<1>2. ~HasRecord(q, records)
  BY <1>1 DEF RecordInv
<1> DEFINE n == Len(records)
<1>3. n \in Nat /\ DOMAIN records = 1..n /\ DOMAIN records' = 1..(n + 1)
  BY DEF Record, WebTypeOK
<1>4. records'[n + 1].of = q /\ \A i \in 1..n : records'[i] = records[i]
  BY DEF Record, WebTypeOK
<1>5. ~\E i \in 1..n : records[i].of = q
  BY <1>2 DEF HasRecord
<1>6. \A i \in 1..n : records[i].of \in Questions
  <2>1. \A S : \A s \in Seq(S) : \A i \in 1..Len(s) : s[i] \in S
    OBVIOUS
  <2>2. records \in Seq([of : Questions, raised : BOOLEAN])
    BY DEF WebTypeOK
  <2>3. \A i \in 1..n : records[i] \in [of : Questions, raised : BOOLEAN]
    BY <2>1, <2>2, Zenon
  <2>4. QED
    BY <2>3
<1> HIDE DEF n
<1>7. Ran = [i \in 1..n |-> records[i].of] /\ Ran \in Seq(Questions) /\ Len(Ran) = n
  BY <1>3, <1>6 DEF Ran
<1>8. Ran' = [i \in 1..(n + 1) |-> IF i = n + 1 THEN q ELSE records[i].of]
  BY <1>3, <1>4 DEF Ran
<1>9. Append(Ran, q) = [i \in 1..(n + 1) |-> IF i = n + 1 THEN q ELSE records[i].of]
  BY <1>3, <1>7
<1>10. QED
  BY <1>1, <1>5, <1>7, <1>8, <1>9

\* Every step of the web interface is a step of what it promises, or none of it.
LEMMA WebSimulates ==
  ASSUME IInv, [WebNext]_webVars
  PROVE  [OneAtATime!Next]_<< Statuses, lock, Ran, HeardBy >>
<1> USE DEF IInv
<1> DEFINE Same == UNCHANGED << Statuses, lock, Ran, HeardBy >>
           Step(q) == \/ OneAtATime!Ask(q) \/ OneAtATime!Start(q) \/ OneAtATime!Write(q) \/ OneAtATime!Finish(q)
                      \/ OneAtATime!Hear(q) \/ OneAtATime!End(q) \/ OneAtATime!Forget(q)
<1>1. SUFFICES Same \/ \E q \in Questions : Step(q)
  BY DEF OneAtATime!Next
<1>2. ASSUME NEW q \in Questions, UNCHANGED << lock, records, sent >>,
             \A p \in Questions \ {q} : worker'[p] = worker[p] /\ request'[p] = request[p],
             Status(q)' = Status(q)
      PROVE  Same
  BY <1>2, StatusMoves, StatusIs, NothingHeard DEF Ran, Statuses
<1>3. ASSUME NEW q \in Questions, CheckBusy(q) PROVE Same
  <2>1. /\ UNCHANGED << lock, records, sent, worker >> /\ request' = [request EXCEPT ![q] = "checked"]
        /\ request[q] = "new" /\ worker[q] = "none"
    BY <1>3 DEF CheckBusy, agentVars, RequestInv
  <2>2. Status(q)' = Status(q)
    BY <2>1 DEF Status, WebTypeOK
  <2>3. QED
    BY <1>2, <2>1, <2>2 DEF WebTypeOK
<1>4. ASSUME NEW q \in Questions, Swap(q) \/ BeginAsk(q) \/ Restore(q) \/ PutOutcome(q) PROVE Same
  <2>1. /\ UNCHANGED << lock, records, sent, request >> /\ worker' = [worker EXCEPT ![q] = worker'[q]]
        /\ \/ worker[q] \in Holding /\ worker'[q] \in Holding
           \/ worker[q] = "released" /\ worker'[q] = "put"
    BY <1>4 DEF Swap, BeginAsk, Begin, Restore, PutOutcome, Work, WebTypeOK, Holding
  <2>2. Status(q)' = Status(q)
    BY <2>1 DEF Status, Holding
  <2>3. QED
    BY <1>2, <2>1, <2>2 DEF WebTypeOK
<1>5. ASSUME NEW q \in Questions, StartWorker(q) \/ Post(q) PROVE OneAtATime!Ask(q)
  <2>1. /\ UNCHANGED << lock, records, sent >> /\ worker[q] = "none" /\ worker'[q] = "waiting"
        /\ request[q] \in {"new", "checked"}
        /\ \A p \in Questions \ {q} : worker'[p] = worker[p] /\ request'[p] = request[p]
    BY <1>5 DEF StartWorker, Post, Work, WebTypeOK, agentVars
  <2>2. Status(q) = "new" /\ Status(q)' = "waiting"
    BY <2>1 DEF Status
  <2>3. QED
    BY <2>1, <2>2, StatusMoves, StatusIs, NothingHeard, MappedSteps DEF Ran
<1>6. ASSUME NEW q \in Questions, Acquire(q) PROVE OneAtATime!Start(q)
  <2>1. /\ UNCHANGED << records, sent >> /\ worker[q] = "waiting" /\ worker'[q] = "holding"
        /\ lock = Nothing /\ lock' = q
        /\ \A p \in Questions \ {q} : worker'[p] = worker[p] /\ request'[p] = request[p]
    BY <1>6 DEF Acquire, Work, WebTypeOK, agentVars
  <2>2. Status(q) = "waiting" /\ Status(q)' = "answering"
    BY <2>1 DEF Status
  <2>3. QED
    BY <2>1, <2>2, StatusMoves, StatusIs, NothingHeard, MappedSteps DEF Ran
<1>7. ASSUME NEW q \in Questions, Release(q) PROVE OneAtATime!Finish(q)
  <2>1. /\ UNCHANGED << records, sent >> /\ worker[q] = "restored" /\ worker'[q] = "released"
        /\ lock' = Nothing
        /\ \A p \in Questions \ {q} : worker'[p] = worker[p] /\ request'[p] = request[p]
    BY <1>7 DEF Release, Work, WebTypeOK, agentVars
  <2>2. Status(q) = "answering" /\ Status(q)' = "ready"
    BY <2>1 DEF Status
  <2>3. lock = q /\ HasRecord(q, records)
    BY <2>1 DEF TurnInv, RecordInv, Holding
  <2>4. \E i \in 1..Len(Ran) : Ran[i] = q
    BY <2>3 DEF HasRecord, Ran, WebTypeOK
  <2>5. QED
    BY <2>1, <2>2, <2>3, <2>4, StatusMoves, StatusIs, NothingHeard, MappedSteps DEF Ran
<1>8. ASSUME NEW q \in Questions, PutDone(q) PROVE OneAtATime!End(q)
  <2>1. /\ UNCHANGED << lock, records, sent >> /\ worker[q] = "put" /\ worker'[q] = "done"
        /\ \A p \in Questions \ {q} : worker'[p] = worker[p] /\ request'[p] = request[p]
    BY <1>8 DEF PutDone, Work, WebTypeOK
  <2>2. Status(q) = "ready" /\ Status(q)' = "over"
    BY <2>1 DEF Status
  <2>3. QED
    BY <2>1, <2>2, StatusMoves, StatusIs, NothingHeard, MappedSteps DEF Ran
<1>9. ASSUME NEW q \in Questions, Leave(q) PROVE Same \/ OneAtATime!Forget(q)
  <2>1. /\ UNCHANGED << lock, records, sent, worker >> /\ request[q] # "left" /\ request'[q] = "left"
        /\ \A p \in Questions \ {q} : worker'[p] = worker[p] /\ request'[p] = request[p]
    BY <1>9 DEF Leave, WebTypeOK, agentVars
  <2>2. CASE worker[q] = "none"
    <3>1. Status(q) = "new" /\ Status(q)' = "over"
      BY <2>1, <2>2 DEF Status
    <3>2. QED
      BY <2>1, <3>1, StatusMoves, StatusIs, NothingHeard, MappedSteps DEF Ran
  <2>3. CASE worker[q] # "none"
    <3>1. Status(q)' = Status(q)
      BY <2>1, <2>3 DEF Status
    <3>2. QED
      BY <1>2, <2>1, <3>1
  <2>4. QED
    BY <2>2, <2>3
<1>10. ASSUME AskStep PROVE Same \/ \E q \in Questions : OneAtATime!Write(q)
  <2>1. Statuses' = Statuses /\ HeardBy' = HeardBy /\ lock' = lock
    BY <1>10, NothingHeard DEF AskStep, Statuses, Status
  <2>2. CASE Record
    <3>1. PICK q \in Questions : asking = q
      BY <2>2 DEF Record, TurnInv
    <3>2. QED
      BY <2>1, <2>2, <3>1, RunWritten, MappedSteps
  <2>3. CASE ~Record
    BY <1>10, <2>1, <2>3, RunStep DEF AskStep, Ran
  <2>4. QED
    BY <2>2, <2>3
<1>11. ASSUME NEW q \in Questions PROVE Outcome(q) \in Events /\ OwnEvent(Outcome(q), q, records)
  BY EventsMade DEF WebTypeOK, AnswerInv, OwnEvent
<1>12. ASSUME NEW q \in Questions, Respond(q) PROVE OneAtATime!Hear(q)
  <2>1. /\ UNCHANGED << lock, records >> /\ worker[q] = "released" /\ worker'[q] = "done"
        /\ sent' = [sent EXCEPT ![q] = Append(@, Outcome(q))]
        /\ \A p \in Questions \ {q} : worker'[p] = worker[p] /\ request'[p] = request[p]
    BY <1>12 DEF Respond, Work, WebTypeOK, agentVars
  <2>2. Status(q) = "ready" /\ Status(q)' = "over"
    BY <2>1 DEF Status
  <2>3. sent[q] \in Seq(Events) /\ events[q] \in Seq(Events)
    BY DEF WebTypeOK
  <2>4. \A i \in 1..Len(sent[q]) : i \in 1..Total(q) /\ KindAt(q, i) = sent[q][i].kind
    <3>1. Len(sent[q]) \in Nat /\ Len(events[q]) \in Nat
      BY <2>3
    <3>2. \A m, n \in Nat : \A i \in 1..m : i \in 1..(m + n)
      OBVIOUS
    <3>3. \A i \in 1..Len(sent[q]) : i \in 1..Total(q)
      BY <3>1, <3>2, Zenon DEF Total
    <3>4. \A i \in 1..Len(sent[q]) : KindAt(q, i) = sent[q][i].kind
      BY <2>3 DEF KindAt, Place
    <3>5. QED
      BY <3>3, <3>4
  <2>5. \A i \in 1..Len(sent[q]) : sent[q][i].kind = "progress"
    BY <2>1, <2>4 DEF LineInv, LineOf, ProgressTo
  <2>6. (\A p \in Questions : HeardBy[q][p] = 0) /\ HeardBy' = [HeardBy EXCEPT ![q][q] = 1]
    BY <1>11, <2>1, <2>5, EventsMade, OutcomeHeard DEF WebTypeOK
  <2>7. QED
    BY <2>1, <2>2, <2>6, StatusMoves, StatusIs, MappedSteps DEF Ran
<1>13. ASSUME NEW q \in Questions, Yield(q) PROVE Same \/ OneAtATime!Hear(q)
  <2> DEFINE e == Head(events[q])
  <2>1. /\ UNCHANGED << lock, records, worker >> /\ worker[q] # "none" /\ events[q] # <<>>
        /\ \A p \in Questions \ {q} : worker'[p] = worker[p] /\ request'[p] = request[p]
    BY <1>13 DEF Yield, WebTypeOK, RequestInv
  <2>2. Statuses' = Statuses /\ Status(q)' = Status(q)
    BY <2>1 DEF Statuses, Status
  <2>3. /\ e \in Events /\ Len(sent[q]) \in Nat /\ Len(sent[q]) + 1 \in 1..Total(q)
        /\ e.kind = KindAt(q, Len(sent[q]) + 1) /\ Total(q) \in Nat
    BY <2>1, NextOfLine
  <2>4. OwnEvent(e, q, records)
    <3>1. e = events[q][1] /\ Len(events[q]) >= 1
      BY <2>1, NextOfLine
    <3>2. 1 \in 1..Len(events[q])
      BY <3>1 DEF WebTypeOK
    <3>3. QED
      BY <3>1, <3>2, Zenon DEF EventInv
  <2>5. CASE e.kind = "done"
    <3>1. sent' = sent
      BY <1>13, <2>5 DEF Yield
    <3>2. QED
      BY <2>1, <2>2, <3>1, NothingHeard DEF Ran
  <2>6. CASE e.kind = "progress"
    <3>1. sent' = [sent EXCEPT ![q] = Append(@, e)]
      BY <1>13, <2>6 DEF Yield
    <3>2. HeardBy' = HeardBy
      BY <2>3, <2>6, <3>1, TraceHeard
    <3>3. QED
      BY <2>1, <2>2, <3>2 DEF Ran
  <2>7. CASE e.kind \in Said
    <3>1. sent' = [sent EXCEPT ![q] = Append(@, e)]
      BY <1>13, <2>7 DEF Yield, Said
    <3>2. worker[q] \in {"put", "done"} /\ ProgressTo(q, Len(sent[q]) + 1 - 1)
      BY <2>3, <2>7, KindsOfLine
    <3>3. Len(sent[q]) + 1 - 1 = Len(sent[q])
      BY <2>3
    <3>4. sent[q] \in Seq(Events)
      BY DEF WebTypeOK
    <3>5. \A i \in 1..Len(sent[q]) : KindAt(q, i) = sent[q][i].kind
      BY <3>4 DEF KindAt, Place
    <3>6. \A i \in 1..Len(sent[q]) : sent[q][i].kind = "progress"
      BY <3>2, <3>3, <3>5, Zenon DEF ProgressTo
    <3>7. (\A p \in Questions : HeardBy[q][p] = 0) /\ HeardBy' = [HeardBy EXCEPT ![q][q] = 1]
      BY <2>3, <2>4, <2>7, <3>1, <3>6, OutcomeHeard
    <3>8. Statuses[q] \in {"ready", "over"}
      BY <3>2, StatusIs
    <3>9. QED
      BY <2>1, <2>2, <3>7, <3>8, MappedSteps DEF Ran
  <2>8. QED
    BY <2>3, <2>5, <2>6, <2>7, KindsOfLine
<1>14. CASE Quiet \/ UNCHANGED webVars
  <2>1. UNCHANGED << worker, request, lock, records, sent >>
    BY <1>14 DEF Quiet, webVars, agentVars
  <2>2. QED
    BY <2>1, NothingHeard DEF Statuses, Status, Ran
<1>15. QED
  BY <1>3, <1>4, <1>5, <1>6, <1>7, <1>8, <1>9, <1>10, <1>12, <1>13, <1>14 DEF WebNext

\* The lock, the swapped sink, the worker threads and the queues are, to
\* whoever asks, one question at a time, each answered once at most.
THEOREM WebAnswersOneAtATime == WebSpec => AnswersOneAtATime
<1>1. WebInit => OneAtATime!Init
  <2> SUFFICES ASSUME WebInit PROVE OneAtATime!Init
    OBVIOUS
  <2>1. \A q \in Questions : Status(q) = "new"
    BY DEF WebInit, Status
  <2>2. \A p, q \in Questions : OutcomesOf(p, q) = {}
    BY DEF WebInit, OutcomesOf, Outcomes
  <2>3. [i \in DOMAIN records |-> records[i].of] = <<>>
    BY DEF WebInit, AgentInit
  <2>4. QED
    BY <2>1, <2>2, <2>3, FS_EmptySet DEF WebInit, OneAtATime!Init
<1>2. IInv /\ [WebNext]_webVars => [OneAtATime!Next]_<< Statuses, lock, Ran, HeardBy >>
  BY WebSimulates
<1>3. QED
  BY <1>1, <1>2, WebInvariant, PTL DEF WebSpec, AnswersOneAtATime, OneAtATime!Spec, Statuses, Ran, HeardBy
=============================================================================
