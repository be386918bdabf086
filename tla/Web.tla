--------------------------------- MODULE Web ---------------------------------
(***************************************************************************)
(* The web interface over one Agent: web/runner.py's AgentRunner (a lock,  *)
(* and the Agent's trace sink swapped while it is held) and web/app.py's   *)
(* two ways to ask, POST /api/ask in the request's own thread and          *)
(* GET /api/ask/stream through a worker thread and a queue.                *)
(*                                                                         *)
(* Each question is one request.  Threads interleave at every step; a      *)
(* stream's client may go away at any time, which stops neither its worker *)
(* nor the model.                                                          *)
(***************************************************************************)
EXTENDS Agent

VARIABLES
  lock,       \* the question whose thread holds AgentRunner._lock, or Nothing
  worker,     \* worker[q]: where the thread that calls AgentRunner.ask is
  previous,   \* previous[q]: the sink q's swap put aside
  result,     \* result[q]: what agent.ask gave q's thread, or Nothing
  request,    \* request[q]: where the request handler (the generator) is
  told,       \* told[q]: the stream was sent a queued event
  posts,      \* the questions asked by POST; the others are streams
  sent        \* sent[q]: what reached q's client, in order

webVars == <<agentVars, lock, worker, previous, result, request, told, posts, sent>>

Streams == Questions \ posts

WebInit ==
  /\ AgentInit
  /\ lock = Nothing
  /\ worker = [q \in Questions |-> "none"]
  /\ previous = [q \in Questions |-> Nothing]
  /\ result = [q \in Questions |-> Nothing]
  /\ request = [q \in Questions |-> "new"]
  /\ told = [q \in Questions |-> FALSE]
  /\ posts = {}
  /\ sent = [q \in Questions |-> <<>>]

Work(q, from, to) == worker[q] = from /\ worker' = [worker EXCEPT ![q] = to]

\* _stream's look at the runner before anything is started.
CheckBusy(q) ==
  /\ request[q] = "new"
  /\ told' = [told EXCEPT ![q] = lock # Nothing]
  /\ request' = [request EXCEPT ![q] = "checked"]
  /\ UNCHANGED <<agentVars, lock, worker, previous, result, posts, sent>>

\* The worker thread is started only then, and the generator waits on its queue.
StartWorker(q) ==
  /\ request[q] = "checked"
  /\ request' = [request EXCEPT ![q] = "streaming"]
  /\ Work(q, "none", "waiting")
  /\ UNCHANGED <<agentVars, lock, previous, result, told, posts, sent>>

\* POST /api/ask calls the runner in its own thread.
Post(q) ==
  /\ request[q] = "new"
  /\ posts' = posts \union {q}
  /\ request' = [request EXCEPT ![q] = "posted"]
  /\ Work(q, "none", "waiting")
  /\ UNCHANGED <<agentVars, lock, previous, result, told, sent>>

-----------------------------------------------------------------------------
\* A mutation: the lock no longer waits for its holder.
AcquireAnyway(q) ==
  /\ Work(q, "waiting", "holding")
  /\ lock' = q
  /\ UNCHANGED <<agentVars, previous, result, request, told, posts, sent>>

\* AgentRunner.ask, under the lock: the sink swapped, the question asked, the
\* sink restored however it ended, and the lock let go.
Acquire(q) ==
  /\ lock = Nothing /\ lock' = q
  /\ Work(q, "waiting", "holding")
  /\ UNCHANGED <<agentVars, previous, result, request, told, posts, sent>>

Swap(q) ==
  /\ Work(q, "holding", "swapped")
  /\ previous' = [previous EXCEPT ![q] = trace]
  /\ trace' = IF q \in posts THEN Discard ELSE q
  /\ UNCHANGED <<facts, asking, stage, sink, attributes, said, records, events>>
  /\ UNCHANGED <<lock, result, request, told, posts, sent>>

BeginAsk(q) ==
  /\ Work(q, "swapped", "asking")
  /\ Begin(q)
  /\ UNCHANGED <<lock, previous, result, request, told, posts, sent>>

AskStep == AgentStep /\ UNCHANGED <<lock, worker, previous, result, request, told, posts, sent>>

Restore(q) ==
  /\ stage = "recorded" /\ asking = q
  /\ Work(q, "asking", "restored")
  /\ trace' = previous[q]
  /\ result' = [result EXCEPT ![q] = said]
  /\ stage' = "idle" /\ asking' = Nothing
  /\ UNCHANGED <<facts, sink, attributes, said, records, events>>
  /\ UNCHANGED <<lock, previous, request, told, posts, sent>>

\* A mutation: an exception leaves the lock held.
ReleaseOnReturn(q) ==
  /\ lock' = IF result[q] = Nothing THEN lock ELSE Nothing
  /\ Work(q, "restored", "released")
  /\ UNCHANGED <<agentVars, previous, result, request, told, posts, sent>>

Release(q) ==
  /\ lock' = Nothing
  /\ Work(q, "restored", "released")
  /\ UNCHANGED <<agentVars, previous, result, request, told, posts, sent>>

-----------------------------------------------------------------------------
\* A mutation: the record's name read back from the Agent after the lock.
OutcomeNamedLate(q) ==
  IF result[q] = Nothing
    THEN [kind |-> "error", of |-> q, answer |-> Nothing]
    ELSE [kind |-> "answer", of |-> q, answer |-> [result[q] EXCEPT !.file = Len(records)]]

Outcome(q) ==
  IF result[q] = Nothing
    THEN [kind |-> "error", of |-> q, answer |-> Nothing]
    ELSE [kind |-> "answer", of |-> q, answer |-> result[q]]

\* A mutation: an exception is left to the thread, with the stream none the wiser.
PutAnswerOnly(q) ==
  /\ q \in Streams
  /\ Work(q, "released", "put")
  /\ events' = IF result[q] = Nothing THEN events
               ELSE [events EXCEPT ![q] = Append(@, Outcome(q))]
  /\ UNCHANGED <<facts, asking, stage, trace, sink, attributes, said, records>>
  /\ UNCHANGED <<lock, previous, result, request, told, posts, sent>>

\* The worker's last words: its answer, or the exception's name, then done.
PutOutcome(q) ==
  /\ q \in Streams
  /\ Work(q, "released", "put")
  /\ events' = [events EXCEPT ![q] = Append(@, Outcome(q))]
  /\ UNCHANGED <<facts, asking, stage, trace, sink, attributes, said, records>>
  /\ UNCHANGED <<lock, previous, result, request, told, posts, sent>>

PutDone(q) ==
  /\ Work(q, "put", "done")
  /\ events' = [events EXCEPT ![q] = Append(@, [kind |-> "done", of |-> q])]
  /\ UNCHANGED <<facts, asking, stage, trace, sink, attributes, said, records>>
  /\ UNCHANGED <<lock, previous, result, request, told, posts, sent>>

\* The generator's loop: each event to the client until done ends the stream.
Yield(q) ==
  /\ request[q] = "streaming" /\ events[q] # <<>>
  /\ events' = [events EXCEPT ![q] = Tail(@)]
  /\ IF Head(events[q]).kind = "done"
       THEN request' = [request EXCEPT ![q] = "ended"] /\ UNCHANGED sent
       ELSE sent' = [sent EXCEPT ![q] = Append(@, Head(events[q]))] /\ UNCHANGED request
  /\ UNCHANGED <<facts, asking, stage, trace, sink, attributes, said, records>>
  /\ UNCHANGED <<lock, worker, previous, result, told, posts>>

\* A POST's response, or its 500.
Respond(q) ==
  /\ q \in posts
  /\ Work(q, "released", "done")
  /\ sent' = [sent EXCEPT ![q] = Append(@, Outcome(q))]
  /\ request' = [request EXCEPT ![q] = "ended"]
  /\ UNCHANGED <<agentVars, lock, previous, result, told, posts>>

\* A stream's client goes away: the generator is closed where it stands.
Leave(q) ==
  /\ request[q] \in {"checked", "streaming"}
  /\ request' = [request EXCEPT ![q] = "left"]
  /\ UNCHANGED <<agentVars, lock, worker, previous, result, told, posts, sent>>

\* Everything asked and answered, or left.
Quiet == /\ \A q \in Questions : request[q] \in {"ended", "left"} /\ worker[q] \in {"none", "done"}
         /\ UNCHANGED webVars

WebNext ==
  \/ \E q \in Questions :
       \/ CheckBusy(q) \/ StartWorker(q) \/ Post(q)
       \/ Acquire(q) \/ Swap(q) \/ BeginAsk(q) \/ Restore(q) \/ Release(q)
       \/ PutOutcome(q) \/ PutDone(q) \/ Yield(q) \/ Respond(q) \/ Leave(q)
  \/ AskStep
  \/ Quiet

\* The scheduler runs every thread that can go on, the lock passes to a waiting
\* thread, and every call to the model and the warehouse returns.  Nobody is
\* obliged to ask, to read on, or to leave.
WebFairness ==
  /\ WF_webVars(AskStep)
  /\ \A q \in Questions :
       /\ WF_webVars(StartWorker(q)) /\ WF_webVars(Acquire(q)) /\ WF_webVars(Swap(q))
       /\ WF_webVars(BeginAsk(q)) /\ WF_webVars(Restore(q)) /\ WF_webVars(Release(q))
       /\ WF_webVars(PutOutcome(q)) /\ WF_webVars(PutDone(q))
       /\ WF_webVars(Yield(q)) /\ WF_webVars(Respond(q))

WebSpec == WebInit /\ [][WebNext]_webVars /\ WebFairness

-----------------------------------------------------------------------------
Outcomes(q) == {i \in DOMAIN sent[q] : sent[q][i].kind \in {"answer", "error"}}

\* Every event queued for a client or sent to it is of that client's own
\* question: a trace line written by another's run never reaches its stream,
\* which is what swapping the Agent's sink under the lock is for (runner.ask).
TracesReachTheirOwner ==
  \A q \in Questions :
    /\ \A i \in DOMAIN events[q] : events[q][i].of = q
    /\ \A i \in DOMAIN sent[q] : sent[q][i].of = q

\* An answer states nothing of another question: its reason, the shape its
\* refusal names and the shape the page renders by are its own question's, and
\* the history file it names is the record of its own run (Agent.ask, Answered).
AnswersItsOwnQuestion ==
  \A q \in Questions : \A i \in Outcomes(q) :
    LET o == sent[q][i] IN
      o.kind = "answer" =>
        /\ o.answer.of = q
        /\ {o.answer.why, o.answer.as, o.answer.shape} \subseteq {q, Nothing}
        /\ o.answer.cause = "unread" => o.answer.why = q
        /\ records[o.answer.file].of = q

\* A stream that ended said one outcome, last, after the closing trace line of
\* its run at least, and nothing is left in its queue (_stream, Agent.ask).
EndedStreamsAreWhole ==
  \A q \in Streams : request[q] = "ended" =>
    /\ Outcomes(q) = {Len(sent[q])} /\ Len(sent[q]) > 1
    /\ events[q] = <<>>

\* Every question that begins to wait for the Agent is answered or fails, and a
\* stream whose client stays is ended: a client that left, a run that raised
\* and a refused question wedge nobody behind them.
EveryoneIsServed ==
  \A q \in Questions :
    worker[q] = "waiting" ~> (worker[q] = "done" /\ request[q] \in {"ended", "left"})

\* What the threads and queues come to: one question at a time.
Status(q) ==
  CASE worker[q] = "none" -> IF request[q] = "left" THEN "over" ELSE "new"
    [] worker[q] = "waiting" -> "waiting"
    [] worker[q] \in {"released", "put"} -> "ready"
    [] worker[q] = "done" -> "over"
    [] OTHER -> "answering"

\* The outcomes q's client was sent that are of p.
OutcomesOf(p, q) ==
  {i \in Outcomes(q) : p = IF sent[q][i].kind = "answer" THEN sent[q][i].answer.of ELSE q}

OneAtATime == INSTANCE Answering WITH
  status <- [q \in Questions |-> Status(q)],
  current <- lock,
  ran <- [i \in DOMAIN records |-> records[i].of],
  heard <- [q \in Questions |-> [p \in Questions |-> Cardinality(OutcomesOf(p, q))]]

\* The lock, the swapped sink, the worker threads and the queues implement the
\* promise of Answering: questions are taken one at a time, each run leaves one
\* record, and each client hears the outcome of its own question once at most.
AnswersOneAtATime == OneAtATime!Spec
==============================================================================
