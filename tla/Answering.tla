------------------------------ MODULE Answering ------------------------------
(***************************************************************************)
(* What the web interface promises of the questions put to it, whatever    *)
(* threads and queues do it: one question is answered at a time, each run  *)
(* leaves one record of its own question, and what reaches a client is the *)
(* outcome of its own question, at most once, and nothing after it.        *)
(***************************************************************************)
EXTENDS Naturals, Sequences

CONSTANTS Questions, Nothing

VARIABLES
  status,    \* status[q]: "new", "waiting", "answering", "ready", "over"
  current,   \* the question being answered, or Nothing
  ran,       \* the questions whose runs were recorded, in order
  heard      \* heard[q][p]: how many outcomes of p q's client was sent

Init ==
  /\ status = [q \in Questions |-> "new"]
  /\ current = Nothing /\ ran = <<>>
  /\ heard = [q \in Questions |-> [p \in Questions |-> 0]]

Become(q, from, to) == status[q] = from /\ status' = [status EXCEPT ![q] = to]

Ask(q) == Become(q, "new", "waiting") /\ UNCHANGED <<current, ran, heard>>

Start(q) ==
  /\ current = Nothing /\ current' = q
  /\ Become(q, "waiting", "answering") /\ UNCHANGED <<ran, heard>>

Write(q) ==
  /\ current = q
  /\ \A i \in 1..Len(ran) : ran[i] # q
  /\ ran' = Append(ran, q) /\ UNCHANGED <<status, current, heard>>

\* The next question may start before this one's outcome is handed over.
Finish(q) ==
  /\ current = q /\ current' = Nothing
  /\ \E i \in 1..Len(ran) : ran[i] = q
  /\ Become(q, "answering", "ready") /\ UNCHANGED <<ran, heard>>

Hear(q) ==
  /\ status[q] \in {"ready", "over"} /\ (\A p \in Questions : heard[q][p] = 0)
  /\ heard' = [heard EXCEPT ![q][q] = 1]
  /\ UNCHANGED status \/ Become(q, "ready", "over")
  /\ UNCHANGED <<current, ran>>

\* Over once the outcome is out of the server's hands, heard or not.
End(q) == Become(q, "ready", "over") /\ UNCHANGED <<current, ran, heard>>

\* A client that leaves while it is told to wait is never asked about.
Forget(q) == Become(q, "new", "over") /\ UNCHANGED <<current, ran, heard>>

Next == \E q \in Questions :
  Ask(q) \/ Start(q) \/ Write(q) \/ Finish(q) \/ Hear(q) \/ End(q) \/ Forget(q)

Spec == Init /\ [][Next]_<<status, current, ran, heard>>
==============================================================================
