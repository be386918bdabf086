------------------------------- MODULE Client -------------------------------
(***************************************************************************)
(* fetch/client.py: ESPNClient, shared by the pull's worker threads.  A    *)
(* thread reads one resource (get_json) or one paged collection            *)
(* (get_collection); every request waits its turn in _throttle, and is     *)
(* tried again after what may pass.                                        *)
(*                                                                         *)
(* Time is what the throttle reads of it: the age of the last turn, up to  *)
(* Interval, and what a sleeping thread has left.  ESPN's collection is a  *)
(* sequence of items it serves by pages, of a size it may change from one  *)
(* answer to the next; the collection may gain or lose its first item      *)
(* between two requests, MaxMoves times.                                   *)
(***************************************************************************)
EXTENDS Integers, Sequences, FiniteSets, SequencesExt, FiniteSetsExt

CONSTANTS
  Threads,      \* the threads of the pull
  CallsOf,      \* CallsOf[t]: what t may ask for, "json" or "collection"
  NoOne,        \* no thread, no exception, no count
  Interval,     \* 1 / rate_limit, in ticks of the clock
  MaxRetries,   \* max_retries
  Collection,   \* what ESPN's collection holds at first
  PageSizes,    \* the sizes ESPN may give a page of a collection
  Envelopes,    \* the fields it may give with one: sets of "count", "pageCount"
  MaxMoves      \* how often ESPN's collection changes: a bound

\* What a success says: a page, or something that is no collection at all.
Body == [kind : {"page", "other"}, items : Seq(Nat), count : Nat \cup {NoOne}, pages : Nat \cup {NoOne}]

ASSUME ClientAssumption ==
  /\ Interval \in Nat /\ MaxRetries \in Nat /\ MaxMoves \in Nat
  /\ Collection \in Seq(Nat) /\ PageSizes \subseteq Nat \ {0}
  /\ NoOne \notin Threads \cup {"broken"} /\ NoOne \notin Nat /\ NoOne \notin Body
  /\ \A t \in Threads : CallsOf[t] \subseteq {"json", "collection"}

VARIABLES
  collection,  \* the collection ESPN holds
  age,         \* time.monotonic() - _last_request, no more than Interval
  gap,         \* the age the last turn was given at: how far apart two were
  turn,        \* the thread holding _throttle_lock
  sleep,       \* sleep[t]: what is left of t's time.sleep in the throttle
  call,        \* call[t]: where t is
  asks,        \* asks[t]: "json", "collection"
  seen,        \* seen[t]: the replies to this request, one per attempt
  lastExc,     \* lastExc[t]: last_exc, or NoOne
  reply,       \* reply[t]: what _request_json returned, or NoOne for None
  page, items, expected,   \* get_collection's locals
  first,       \* first[t]: the collection as the first page that gave its count found it
  still,       \* still[t]: it has not changed since t's first page
  size,        \* size[t]: the size of the last page t was given
  shrunk,      \* shrunk[t]: some page of t's was of a smaller size than the one before
  warned,      \* warned[t]: a warning of a short collection was logged
  moves        \* how often the collection changed

throttleVars == <<age, gap, turn, sleep>>
pageVars == <<first, still, size, shrunk>>
callVars == <<asks, page, items, expected, pageVars, warned>>
clientVars == <<collection, throttleVars, call, seen, lastExc, reply, callVars, moves>>

NotFound == {"missing"}                  \* NOT_FOUND_STATUS
Retryable == {"busy"}                    \* RETRYABLE_STATUS
\* "broken" is a connection that failed, "refused" any other status, "empty" and
\* "body" a success without and with content.
Replies == NotFound \cup Retryable \cup {"broken", "refused", "empty", "body"}

ClientInit ==
  /\ collection = Collection /\ moves = 0
  /\ age = Interval /\ gap = Interval /\ turn = NoOne
  /\ sleep = [t \in Threads |-> 0]
  /\ call = [t \in Threads |-> "idle"]
  /\ asks = [t \in Threads |-> "json"]
  /\ seen = [t \in Threads |-> <<>>]
  /\ lastExc = [t \in Threads |-> NoOne]
  /\ reply = [t \in Threads |-> NoOne]
  /\ page = [t \in Threads |-> 1]
  /\ items = [t \in Threads |-> <<>>]
  /\ expected = [t \in Threads |-> NoOne]
  /\ first = [t \in Threads |-> <<>>]
  /\ still = [t \in Threads |-> FALSE]
  /\ size = [t \in Threads |-> 0]
  /\ shrunk = [t \in Threads |-> FALSE]
  /\ warned = [t \in Threads |-> FALSE]

Goes(t, from, to) == call[t] = from /\ call' = [call EXCEPT ![t] = to]

\* A thread takes up a resource or a collection.
BeginCall(t) ==
  /\ Goes(t, "idle", "request")
  /\ \E c \in CallsOf[t] : asks' = [asks EXCEPT ![t] = c]
  /\ UNCHANGED <<collection, throttleVars, seen, lastExc, reply, page, items, expected, pageVars, warned, moves>>

\* ESPN's own doing: the collection grows or shrinks at its front.
EspnCollection ==
  /\ moves < MaxMoves /\ moves' = moves + 1
  /\ \/ collection # <<>> /\ collection' = Tail(collection)
     \/ collection' = <<0>> \o collection
  /\ still' = [t \in Threads |-> FALSE]
  /\ UNCHANGED <<throttleVars, call, seen, lastExc, reply, asks, page, items, expected, first, size, shrunk, warned>>

-----------------------------------------------------------------------------
\* A mutation: the wait is measured and slept outside the lock.
ThrottleUnlocked(t) ==
  /\ Goes(t, "request", "throttled")
  /\ sleep' = [sleep EXCEPT ![t] = Interval - age]
  /\ turn' = t
  /\ UNCHANGED <<collection, age, gap, seen, lastExc, reply, callVars, moves>>

\* _throttle: under the lock, the wait until the last turn is Interval old ...
Throttle(t) ==
  /\ turn = NoOne
  /\ Goes(t, "request", "throttled")
  /\ sleep' = [sleep EXCEPT ![t] = Interval - age]
  /\ turn' = t
  /\ UNCHANGED <<collection, age, gap, seen, lastExc, reply, callVars, moves>>

\* ... slept out before the lock is let go.
TakeTurn(t) ==
  /\ sleep[t] = 0
  /\ Goes(t, "throttled", "send")
  /\ gap' = age /\ age' = 0 /\ turn' = NoOne
  /\ UNCHANGED <<collection, sleep, seen, lastExc, reply, callVars, moves>>

TimePasses ==
  /\ age < Interval \/ \E t \in Threads : sleep[t] > 0
  /\ age' = IF age < Interval THEN age + 1 ELSE age
  /\ sleep' = [t \in Threads |-> IF sleep[t] > 0 THEN sleep[t] - 1 ELSE 0]
  /\ UNCHANGED <<collection, gap, turn, call, seen, lastExc, reply, callVars, moves>>

-----------------------------------------------------------------------------
\* The page of the collection a request for page p is answered with, when pages
\* are of size n: its items, its count and how many pages there are, as far as
\* the answer says so; ESPN may also answer with something that is no
\* collection at all.
PageOf(p, n) == SubSeq(collection, (p - 1) * n + 1, Min({p * n, Len(collection)}))
PagesOf(n) == (Len(collection) + n - 1) \div n

Bodies(t, n) ==
  {[kind |-> "page", items |-> PageOf(page[t], n),
    count |-> IF "count" \in says THEN Len(collection) ELSE NoOne,
    pages |-> IF "pageCount" \in says THEN PagesOf(n) ELSE NoOne] : says \in Envelopes}
  \cup {[kind |-> "other", items |-> <<>>, count |-> NoOne, pages |-> NoOne]}

Attempts(t) == Len(seen'[t])
\* A mutation: the attempts that found the connection broken are not counted.
SpentOnStatus(t) == Cardinality({i \in DOMAIN seen'[t] : seen'[t][i] # "broken"}) = MaxRetries + 1

Spent(t) == Attempts(t) = MaxRetries + 1

\* One attempt of _request_json's loop.  A reply that may pass is waited out and
\* tried again while attempts are left; then the last connection error is raised
\* if there ever was one, else that the retries are spent.
Attempt(t) ==
  /\ \E r \in Replies :
       /\ seen' = [seen EXCEPT ![t] = Append(@, r)]
       /\ lastExc' = [lastExc EXCEPT ![t] = IF r = "broken" THEN r ELSE @]
       /\ CASE r \in Retryable \cup {"broken"} ->
                 /\ Goes(t, "send", IF ~Spent(t) THEN "request"
                                    ELSE IF lastExc'[t] # NoOne THEN "raised" ELSE "gave up")
                 /\ UNCHANGED <<reply, pageVars>>
            [] r = "refused" -> Goes(t, "send", "refused") /\ UNCHANGED <<reply, pageVars>>
            [] r = "body" ->
                 /\ Goes(t, "send", "replied")
                 /\ \E n \in PageSizes :
                      /\ \E b \in Bodies(t, n) : reply' = [reply EXCEPT ![t] = b]
                      /\ size' = [size EXCEPT ![t] = n]
                      /\ shrunk' = [shrunk EXCEPT ![t] = page[t] # 1 /\ (@ \/ n < size[t])]
                 /\ first' = [first EXCEPT ![t] = IF expected[t] = NoOne THEN collection ELSE @]
                 /\ still' = [still EXCEPT ![t] = page[t] = 1 \/ @]
            [] OTHER -> Goes(t, "send", "replied") /\ reply' = [reply EXCEPT ![t] = NoOne]
                        /\ UNCHANGED pageVars
  /\ UNCHANGED <<collection, throttleVars, asks, page, items, expected, warned, moves>>

-----------------------------------------------------------------------------
IsPage(b) == b # NoOne /\ b.kind = "page"

\* get_json: one reply, with a warning where it is one page of several.
GetJson(t) ==
  /\ asks[t] = "json"
  /\ Goes(t, "replied", "returned")
  /\ LET b == reply[t] IN
       /\ items' = [items EXCEPT ![t] = IF IsPage(b) THEN b.items ELSE <<>>]
       /\ warned' = [warned EXCEPT ![t] = IsPage(b) /\ b.pages # NoOne /\ b.pages > 1]
  /\ UNCHANGED <<collection, throttleVars, seen, lastExc, reply, asks, page, expected, pageVars, moves>>

\* get_collection's loop ends on a page that cannot be read, ...
UnreadablePage(t) ==
  /\ asks[t] = "collection" /\ ~IsPage(reply[t])
  /\ Goes(t, "replied", "counted")
  /\ warned' = [warned EXCEPT ![t] = page[t] = 1]
  /\ UNCHANGED <<collection, throttleVars, seen, lastExc, reply, asks, page, items, expected, pageVars, moves>>

\* ... or on the last page, an empty one or one that does not say how many.
LastPage(t, b) == b.items = <<>> \/ b.pages = NoOne \/ page[t] >= b.pages

ReadPage(t) ==
  /\ asks[t] = "collection" /\ IsPage(reply[t])
  /\ LET b == reply[t] IN
       /\ items' = [items EXCEPT ![t] = @ \o b.items]
       /\ expected' = [expected EXCEPT ![t] = IF @ = NoOne THEN b.count ELSE @]
       /\ IF LastPage(t, b)
            THEN Goes(t, "replied", "counted") /\ UNCHANGED <<page, seen, lastExc>>
            ELSE /\ Goes(t, "replied", "request")
                 /\ page' = [page EXCEPT ![t] = @ + 1]
                 /\ seen' = [seen EXCEPT ![t] = <<>>]
                 /\ lastExc' = [lastExc EXCEPT ![t] = NoOne]
  /\ UNCHANGED <<collection, throttleVars, reply, asks, pageVars, warned, moves>>

\* A mutation: only a collection longer than declared is warned of.
CountItemsShort(t) ==
  /\ Goes(t, "counted", "returned")
  /\ warned' = [warned EXCEPT ![t] = @ \/ (expected[t] # NoOne /\ Len(items[t]) > expected[t])]
  /\ UNCHANGED <<collection, throttleVars, seen, lastExc, reply, asks, page, items, expected, pageVars, moves>>

\* What was declared against what was fetched.
CountItems(t) ==
  /\ Goes(t, "counted", "returned")
  /\ warned' = [warned EXCEPT ![t] = @ \/ (expected[t] # NoOne /\ Len(items[t]) # expected[t])]
  /\ UNCHANGED <<collection, throttleVars, seen, lastExc, reply, asks, page, items, expected, pageVars, moves>>

Over(t) == call[t] \in {"returned", "raised", "gave up", "refused"}
ClientOver == (\A t \in Threads : call[t] = "idle" \/ Over(t)) /\ UNCHANGED clientVars

CallStep(t) ==
  \/ Throttle(t) \/ TakeTurn(t) \/ Attempt(t)
  \/ GetJson(t) \/ UnreadablePage(t) \/ ReadPage(t) \/ CountItems(t)
ClientNext ==
  \/ \E t \in Threads : BeginCall(t) \/ CallStep(t)
  \/ TimePasses \/ EspnCollection \/ ClientOver

ClientSpec == ClientInit /\ [][ClientNext]_clientVars

-----------------------------------------------------------------------------
\* Two turns are Interval apart whichever threads take them: the allowance is
\* one for all of them (_throttle).
TurnsAreSpaced == gap >= Interval

\* What _request_json ends with is what ESPN last said: None only for a missing
\* resource or an empty body, a value only for a body, giving up only after
\* every attempt met what might have passed, and a raised connection error
\* only if one of them was.
RequestsEndTruly ==
  \A t \in Threads :
    /\ call[t] \in {"raised", "gave up"} =>
         /\ Len(seen[t]) = MaxRetries + 1
         /\ ToSet(seen[t]) \subseteq Retryable \cup {"broken"}
         /\ call[t] = "raised" <=> "broken" \in ToSet(seen[t])
    /\ call[t] \in {"replied", "returned", "counted"} =>
         /\ reply[t] = NoOne <=> Last(seen[t]) \in {"missing", "empty"}
         /\ ToSet(Front(seen[t])) \subseteq Retryable \cup {"broken"}
         /\ Len(seen[t]) <= MaxRetries + 1

\* No short read is silent.  A thread that was not warned has as many items as
\* the collection had when ESPN first said how many, whatever sizes its pages
\* are of, whatever it leaves out of them and however the collection moves
\* meanwhile; and those very items if it did not move and no page was smaller
\* than the one before.  (A page that shrinks repeats items: where a larger one
\* or an unreadable one then loses as many, the count is right and nothing is
\* said.)  Of get_json's one page ESPN must have said how many there are, and
\* of a collection how many items.
ShortReadsAreSaid ==
  \A t \in Threads : call[t] = "returned" /\ ~warned[t] =>
    IF asks[t] = "json"
      THEN IsPage(reply[t]) => items[t] = first[t] \/ reply[t].pages = NoOne
      ELSE expected[t] # NoOne => /\ Len(items[t]) = Len(first[t])
                                  /\ still[t] /\ ~shrunk[t] => items[t] = first[t]
==============================================================================
