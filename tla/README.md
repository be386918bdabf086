# association: the specification

TLA+ modules for `association`, the local-first NBA statistics pipeline: what
`data pull` leaves on disk whatever happens to it, what a load makes of it and of
the rows ESPN serves wrong, and what a question asked of the warehouse may be
told. TLC checks small instances; TLAPS proves every safety property they check,
of the pull, the files, the warehouse, the web, the repairs and the readers, for
every instance.

    tlc -workers 2 -config MCPull.cfg MCPull     # a run; the others likewise
    tlapm PullProofs.tla                         # the proofs; so each *Proofs.tla

## The system

| Component | State | Operations | What makes it right |
|---|---|---|---|
| `fetch/client` | time of the last request, behind a lock | `get_json`, `get_collection`, `_throttle` | requests spaced across workers; a retry that ends in what ESPN last said; a short collection is noticed |
| `fetch/netpoints_client` | a lazily made S3 client | `get_daily`, `get_daily_players` | rows, or none |
| `fetch/parse`, `endpoints` | none | JSON to rows, the game and name indexes | rows say what ESPN says, of the game and man it says it of |
| `fetch/storage` | files, temporary files | `write_rows`, `mark_complete`, `exists` | a file is whole or not there |
| `fetch/pipeline` | none but the Parquet tree; in memory: ids, the pool, `written`, glossary | `run`: teams, season tables, per scope discovery, `fetch_game`, aggregates, marker; the daily NetPoints files | a checkpoint means the work behind it is done; a pull may be interrupted anywhere |
| `fetch/warehouse` | the DuckDB file, `.building` | full build, partial load | a query finds a finished warehouse |
| `fetch/repairs` | tables of the warehouse | rewrite or derive a table at the end of every build | a wrong column is put right or emptied, after whatever loads |
| `cli` | none | `data pull`, `data load`, `data check`, `query`, `web` | the warehouse follows the tree |
| `check` | none | reports what the tree lacks | |
| `web` | one Agent behind a lock, a queue per stream | `ask`, `stream`, `notes`, `artifacts` | one question at a time, each trace and answer to its own client |
| `query/agent`, `answer`, `history` | attributes of the last question; a history file per question | `ask`, `append_note` | refused or answered, recorded on every exit |
| `query` readers | none | question to reading to point: words, names, days, spans | the reading is the question's |
| `query/compose` | none | point to SQL to text: planner, readers, compilers | nothing asked is dropped; the rows counted are those asked for |
| `nba` | none | seasons, dates, coverage, period lines | boundaries of the calendar |

How they interact: a command builds a `Pipeline`, which calls the client and
writes the tree through storage; what it wrote, kept only in its memory, tells
the warehouse which tables to reload; every build ends with the repairs; the
query side opens the file read-only, from the same machine, while any of this
goes on; the web interface puts the questions of all its clients to one Agent.

What is hard: worker threads and the errors one of them raises; a kill between
any two writes (the tree *is* the checkpoint); answers ESPN does not give;
games that are scheduled, postponed and played while a pull runs; a completion
test that compares two numbers; totals that are stale when frozen; a season
that ends in the middle of a pull; a file replaced under its readers; repairs
that read what they wrote, over tables of different loads; an Agent whose
attributes outlive the question; and, on the query side, rows that are not
there: games with no box score, absences no row records, days that two rules
put in different seasons, men of one name. `PROJECT.json` lists these hazards
line by line, with the properties that watch them.

## The modules

**Pull** is `pipeline.py`. One action per operation; a phase that maps a
function over items (`_map`) keeps the items nobody has taken in `todo`.

| Variables | In the code |
|---|---|
| `espn`, `current` | the world: the state of every game, `current_season()` |
| `teamsFile`, `tree`, `resolved`, `complete`, `players`, `teamStats`, `careers`, `seasonFiles` | the Parquet tree: `teams/`, the six per-game tables, `_resolved/`, `_complete/`, and so on. A file that is rewritten during a season holds the set of games that were final when ESPN answered |
| `pc`, `season`, `type`, `ids`, `todo`, `done` | where `run` and `_run_season_type` are; `done` is `season_complete` |
| `job` | per worker the `fetch_game` it is in, and which of its writes is next |
| `failed`, `written` | a worker raised; `self.written` |
| `cut`, `missed`, `known`, `promised` | history: games a kill, or a write that raised, left half written, requests answered with nothing, games listed when a schedule was read, and what a marker vouches for |

`fetch_game` is a request (one step: skipped, final, void, nothing, or an
error) and then one step per file, in the order of the code, so that other
workers and a kill come in between. `_map`'s abort waits for running items and
takes no new ones once the main thread has seen the failure. A write is one
step, since `storage.write_rows` replaces the file by rename: it replaces the
file, or raises and leaves it (`WriteRaises`; the disk is full), and then the
game's remaining files are not written. `Kill` may come at every step and loses
whatever is in memory.

**FetchCommand** extends it with `data pull` as a command and `data load`: the
warehouse is the set of tables it holds an old copy of.

Around the pull:

- **Client** is `client.py` under the worker threads. The lock, the turn and the
  sleep of `_throttle` are steps of their own; `_request_json` counts its
  attempts over broken connections and retryable statuses; `get_collection`
  reads page after page of a collection that gains or loses items meanwhile. Each
  page is of a size ESPN chooses anew (`PageSizes`) and comes with its counts or
  without (`Envelopes`); an answer may also be no collection at all. `first`
  is history: the collection as it was when ESPN first said how many items it
  has; `still` says whether it has stayed so since the first page, `shrunk`
  whether a page was of a smaller size than the one before. An unwarned reader can
  be held only to the number of items of `first`: items skipped and repeated in
  equal number leave the count right and the items wrong, and the code compares
  counts. It takes a change of the collection, or a page that shrank (which
  repeats items) and one that grew or could not be read.
- **Storage** is `storage.py`: temporary names made of pid and thread, writes in
  pieces, `os.replace`, failures at each of them, a kill, and another process
  that may get the same pid. Two threads may cache one player's bio at once.
  That a file is whole or absent is what lets `Pull` take a write as one step.
- **NetPoints** is `fetch_net_points_daily`: two objects per date, each written
  and then marked, whose rows are given to a game by team and date
  (`parse.NetPointsGameIndex`), over evenings, afternoons and junk tips.
- **Athletes** is who a name is: the pull's resolution
  (`resolve_athlete_id`) and the load's merge of two ids of one man
  (`duplicate_athletes`), which must agree although they read different columns.
  `given` is the id a name was answered with at some moment of the pull, kept while
  more box scores are stored: NetPoints' rows stay under it, as their date is not
  asked for again and the load merges box scores alone.

The load:

- **Warehouse** takes `warehouse.build` apart: files by inode, names `db_path`
  and `.building`, one step per statement, DuckDB's lock, and readers.
- **TeamBoxRepair** is `team_box_repair.py` as operators on one row, under any
  sequence of builds. `Served` says what ESPN serves as the faults the docstring
  measures, so that the repaired row can be compared with the game.
- **SeasonTotals** is a traded player's season line, filled once by the pull and
  rebuilt once by the load. **RealGames** is `game_repair` and `real_games`:
  which listed rows are games, sides and rounds, after loads of any tables. A
  pull writes the rows ESPN lists (`WriteGame`) and their box scores (`WriteBox`)
  one by one, between any two loads, so that the two tables of the warehouse may
  be of different moments, either the older.
- **Season** is `nba/season.py`'s Eastern day, written three times in the code
  (a stamp, an SQL column, a range for a day), against a clock on the wall.

The web interface and the Agent:

- **Agent** is `Agent.ask`: the stages by which a question is refused, settled,
  composed or declined, each attribute recorded with the question it is about,
  and the record written on every exit. `facts` stands for what the words, the
  model and the warehouse turn out to hold.
- **Web** extends it with `AgentRunner` and `app.py`: one request per question,
  by POST or as a stream; the lock, the swapped sink, the worker thread and its
  queue, the generator, clients that leave, runs that raise.
- **Answering** is the abstract server: one question at a time, one record per
  run, at most one outcome per client, its own. `Web` implements it: the run
  `ends` checks `AnswersOneAtATime` under the refinement mapping in `Web`.
- **Notes** is `append_note` under concurrent requests: an append, and a
  correction that reads, truncates and writes back.

What is read from the warehouse (`query/`):

- **Plan** is what becomes of a question's cells (a round, a venue, a window):
  the per-shape table of what an answer's words state, and the planner, readers
  and two compilers that each consult it or a list of their own.
- **PeriodLines** is a quarter's figure, summed from the plays, with the bound
  the load recorded (`plays_complete`) and the games rebuilt (`reconstructed_box`).
  The stored plays (`held`) may hold anything beside what he did (`did`).
- **Streaks** is the longest runs, as `conditions.py` reads them, by gaps and
  islands, for a player and for a team, held against runs defined directly.
- **Presence** is the with-and-without split, whose stints are read off a man's
  own rows; **Absences** extends it with `player_relation.py`'s "games without
  X", the same question answered from his rows.
- **Names** is whom a name means: matches, elimination by what the warehouse
  holds, what is asked, offered or told. A question is over one season, a span
  (for which `career_end` gives the current season, wherever it ends) or a history.
- **Days** is the days a question names: the cut, and, settled apart from it, the
  seasons and types read.

`MC*` modules give the constants values, symmetry, and a view that leaves out
what nothing reads. Modules that share no state are checked side by side in one
run: `MCData`, `MCEnds` and `MCAnswers` have a variable `part` that says of
which module a behaviour is, and the others stay in an initial state; a property
of one module is then checked over exactly its own behaviours.

The theorems are in **PullProofs** and **CommandProofs** (the pull and the
commands), **DataProofs** (`Client`, `Storage`, `NetPoints`, `Notes`,
`Warehouse`), **RepairProofs** (`TeamBoxRepair`, `RealGames`, `Athletes`,
`SeasonTotals`), **WebProofs**, **ReaderProofs** (`Names`, `Streaks`,
`PeriodLines`, `Plan`, `Days`, `Season`) and **PresenceProofs** (`Presence`,
`Absences`). **SetLemmas** has the facts about least numbers and finite sums that
several of them need.

## The runs

| Run | Instance | What it shows |
|---|---|---|
| `pull` | one scope, 2 games, 2 teams, 1 player, 2 workers, with and without `--force`, one lost schedule a pass | types; checkpoints say what ESPN says; a marker covers every listed game; a half-written game is one whose own writes were cut short; an open scope's totals are not behind its box scores |
| `ends` | a postseason, a scheduled and an unscheduled game, 2 workers, the calendar rolling over; two questions, each a stream or a POST | every pull ends; every question is answered unless its client left; traces and answers reach their own client; streams are whole when they end; `Web` implements `Answering` |
| `data` | ten parts, below | what a request, a file, a date, a name, a note or a row goes through between ESPN and the warehouse |
| `answers` | seven parts, below | the rebuild forgets nothing a pull that got to it wrote; what is settled is not read again; the readers tell what the rows say |
| `pull_interrupted` | as `pull` | **violated**: a marker does not mean fetched, after a kill, or a write that raises, in `fetch_game` |
| `pull_totals` | as `pull` | **violated**: the last game's totals are frozen one pull too early |
| `pull_finals` | a postseason with two games only the scoreboard lists, ending in the order of their days | **violated**: the scan anchored at the last stored game loses an earlier one |
| `fetch_stale` | one game and the standings, two calendar years | **violated**: a pull that wrote nothing may still need the rebuild |
| `warehouse_two_builds` | two full builders | **violated**: they share `.building` |
| `team_box_repair_twice` | as the part `box` | **violated**: 2008's total rebounds change with a second repair |
| `season_totals` | as the part `totals` | **violated**: the load empties the totals the pull filled |
| `query_drops` | as the part `plan` | **violated**: the league's team streaks drop a situation and a round |

The violated runs state what a docstring, a comment or the documentation says;
`PROJECT.json` quotes them under "findings", with the lines.

| Part of `data` | Instance | Properties |
|---|---|---|
| `client` | two requests at once, or one collection of 2 items in pages of 1 or 2 that gains or loses one; 1 retry | turns are spaced; a request ends in what ESPN last said; a short read is warned of |
| `storage` | 2 threads, a bio and a marker, 2 processes, 2 pids | a stored file is one writer's whole table |
| `netpoints` | 3 days, 2 pulls | rows name their game or none; a marked half is on disk |
| `notes` | 4 requests, each a new note or a correction of a saved one | a note is lost only to an overlap `append_note` leaves open |
| `clock` | 1985 to 2026: both rules of the calendar | the Eastern day of each of the three rules is the wall's |
| `totals` | 2 stints, 0 to 2 games and points | a season's total is the season's, or NULL |
| `games` | rows of games, duplicates, one row that is no game, a swapped game; one row pulled late, its box score after it | each game once, whichever load it and the box scores came with; a round true or unsaid; real sides |
| `athletes` | 3 ids, 2 names of one key, 2 box scores | the pull's id is the merge's; an id given early is the one merged into later; no line is lost by merging |
| `box` | seasons 1996, 2008, 2012, 2013, 2018; counts 0 and 3 | a column is right or NULL after any sequence of builds |
| `builds` | a full and a partial builder, a reader, 2 tables, 4 files | queries read repaired rows of one finished build, and one build throughout |

| Part of `answers` | Instance | Properties |
|---|---|---|
| `commands` | as `fetch_stale`, whole and partial loads | what a pull that reached its rebuild wrote is loaded; a past season's table and a marked scope's totals are not read again, the season turning over at any step |
| `plan` | every point of the table with two cells at most | only the team compiler drops a cell |
| `periods` | 2 games, 2 periods, points and assists, any plays, any tables loaded | a period's figure is within the bound said, unless a game's other periods make up for it |
| `streaks` | 4 games, 2 seasons, a trade | the runs told are the longest, maximal, and rightly "still going" |
| `presence` | 2 teams, 5 days, 3 seasons, every role of the second name | each game of their time together once, on its side; "without X" is one reading |
| `names` | 3 namesakes, 2 seasons, two tables, one of which may be missing | one man is meant, or the others are told or asked about |
| `days` | 11 games over three seasons, 15 days, every form | the games told are those on the days |

**Bounds.** Two workers are enough for every race of `fetch_game`: workers only
share `todo`, `failed`, the players' files and `written`. Two games tell "all"
from "some" and let a lost schedule hide one; completion needs a count that can
be wrong by one either way. Pulls repeat without a bound, so an error, a
`--force` or a kill in one meets the leftovers of any other. `MaxLost` bounds
the requests of one discovery pass that come back empty: at one, every game is
still on its other team's schedule. With two, both schedules of a game can be
lost in one pass, and the count would then close the scope without it: the
guarantee is exactly that of listing every game twice. `ScanDays` is 2 instead
of 28, with games at most two days apart. `LastSeason` bounds the calendar.
`File` bounds the connects of a run to those of four files at once, the most
two builders, a reader and the two names can hold (a file none of them has is
used again). `ReadsAlone` and `FewOddRows` keep apart what does not interact:
threads of the client share the throttle alone, which two single requests
exercise, so a collection is read by itself; of the rows that are no game one is
listed at a time, each being left out by its own columns; and sides are swapped
where the swapped row is alone. `NoneGiven` follows the id of one name in a
behaviour. `MaxVersion` is how often a table's Parquet changes: one is enough
for "loaded or not" (`data`), two to see an old version come back
(`warehouse_two_builds`).
The seasons of `TeamBoxRepair` are one of each fault, its boundary and one of
none; the counts 0 and 3 tell columns and their sums apart, 0 being what an empty
box score sums to.

`Interval` 1 tells "too soon" from "in time"; `MaxRetries` 1 has a first, a last
and no attempt after it; one move of ESPN's items is enough to skip or repeat one
across a page, pages of 1 and of 2 to repeat one, or skip one, of a collection
that stands still. `Late` 1 lets one row's game, and then its box score, come
between two loads. In a behaviour one name at most is given an id (`NoneGiven`), the property being of one
name at a time; the hand-listed game is served the wrong way round only beside
one listed row at most, since no rule reads both. `Processes` 2 lets a kill's leftovers meet a process of
the same pid. Three days hold a back-to-back beside a day off, and `NeverThreeRunning` is
the fact of the schedule `NetPointsGameIndex` rests on. Four requests overlap a
correction with another's read and with appends before and after. Two stints
with totals or without make every sum the repair compares. Three ids are a pair
and a bystander, or a chain. Two questions are enough for the lock, the sink and
the attributes: every fault of theirs is one question's trace, answer or lock met
by another. `LogStages` keeps the trace lines of two stages, the others going to
the same sink; `MCFactSets` has facts that lead out of `Agent.ask` by each exit.
`MCCellSets`, the cells one point may set, are the sets of two at most: what lets
a cell by is mostly another cell. `MaxInAPeriod` 1 is a stat there was or was
not, `MaxGames` and `MaxPoints` 2 make sums that agree by chance.
Four games over two seasons hold a run broken, carried over a season's end, and
split by an unseen game and by a trade. Five days give a man a stint that ends, a
return, and an unseen game at each place. In `periods` the first game is stored
with its plays and has a full box score, so that a figure is answered, and the
second has every kind of fault. The asked days include each month's and season's
edge; the second season is the one that ended in October (2020).

**Fairness.** Only `ends` needs it. Of the pull: weak fairness of the running
pull's own steps, `WF_vars(Working \/ Exit)`: the main thread and the pool's
threads are not suspended for ever, and every request ends, since the client
gives each a timeout and at most `max_retries` retries, then raises. Nothing is
assumed of ESPN, of the operator or of the calendar, nor of which worker gets on.
Of the web: `WebFairness`, weak fairness of each thread's own steps (the
scheduler runs it, and calls to the model and the warehouse return or raise).
`Acquire` needs no more: a question is asked once, so the lock is taken from a
waiting thread at most once by each other question. Nobody is assumed to ask, or to
leave.

## What is proved

Every theorem is about the specification TLC runs, for every value of the
constants that satisfies the assumptions of its module. Where a theorem needs
more, it says so in its own statement, and the list below says what for.

### The pull: `PullProofs`, `CommandProofs`

For every set of seasons, games, teams, players and workers that
satisfies `SeasonAssumption`, `EventAssumption` and `SettingAssumption`:

- `PullTypes`: `Spec => []TypeOK`. `TypeOK` alone is not inductive: that `todo`
  holds games, tables, teams or players depends on the phase, and a phase must
  not end with a worker still in a game. `PhaseInv` says so, and `PullInv` is
  both. The step is one case per action.
- `PullCheckpoints`: `Spec => []CheckpointsAreSettled`. Inductive once every
  running `fetch_game` is known to be of a final game (`SettledInv`): between the
  request and the first write, ESPN must not be able to take the result back.
- `PullMarkers`: `Spec => []MarkedScopeIsResolved`, if `MaxLost <= 1` and
  `Unscheduled = {}`. `season_complete` compares the number
  of checkpoint files with the number of ids, so equal numbers must mean equal
  sets. `CountInv` says why: a scope's checkpoints are games some pull found
  listed, this pull's ids are all the games listed so far, hence the first set
  is within the second (`FS_Subset` then gives equality); no game is counted
  twice, by `PullCheckpoints`. That the ids are all of them is where the two
  schedules of a game are needed (`EveryGameIsRead`). Without the two
  assumptions the property fails: `pull_finals` shows it for unscheduled games.
- `PullTornIsCutShort`: `Spec => []TornIsCutShort`. The strengthening, `TornInv`,
  says how far a worker's files go at each of its steps (`Halfway`), and that a
  torn game is either cut, by a kill or by its own write that raised, or halfway in
  some worker; two workers, `--force` on a stored game and an abort are the
  interesting cases.
- `PullOpenScopeIsFresh`: `Spec => []OpenScopeIsFresh`. The property speaks of
  the moment the last phase is over; `FreshInv` says how it comes about: through
  the two phases, what is no longer to do was read after the games were, unless
  something failed or was missed. `OpenInv` beside it: an unforced pull is in no
  scope that has its marker.
- `PullDecidedStays`: `Spec => DecidedStays`, a property of steps, from the same
  invariant.
- `CommandForgetsNothing`: `CSpec => []NothingForgotten`, over every action of
  `Pull` and of the commands. One lemma per action: a table whose files
  it changes is in `written` afterwards.
- `CommandKeepsThePull`: the commands and loads leave the pull's own guarantees
  as they are (`CSpec => [](CheckpointsAreSettled /\ OpenScopeIsFresh)`).

`StepKinds` reduces the steps of the pull to the few that touch what these
properties read; the rest is `Quiet`.

### What the pull rests on: `DataProofs`

- `StorageWhole`: `StorageSpec => []StoredIsWhole`. `ScratchInv` says what a
  thread's temporary file holds at each of its steps; it is inductive because no
  two threads of a process share a temporary name, and a killed process's
  leftovers are truncated when their name is used again.
- `StorageWritesAreAtomic`: a step changes at most one file, and what it puts
  there is whole. This is what `Pull` assumes of a write.
- `NetPointsRowsNameTheirGame`, for any number of days. That no team plays three
  days running, and that one stamp at most is junk, are facts of the calendar
  and kept in `CalendarInv`; the rest is that a date with two candidates in
  either index means none (`OnlyGameMeans`).
- `NetPointsMarkedAreWritten`: a half about to be marked was written or had
  nothing to write (`ToMarkInv`).
- `NotesAreLostOnlyToOverlap`: what a correction read has the line it is about,
  and every saved note it could have read (`NotesInv`); that the rewrite then
  keeps the others is a lemma about its operator on sequences (`FirstPlace`).
- `ClientTurnsAreSpaced`, `ClientRequestsEndTruly`, `ClientShortReadsAreSaid`, for
  any threads, page sizes, number of retries and collection. `ThrottleInv`: who is
  in the throttle holds its lock and sleeps long enough. `RequestOK`: what a
  request has met so far. `Held`: what a thread has read, has been answered and
  ends with, page by page, of a collection, and a page size, that move under it.

### The warehouse: `DataProofs`

For any builders, readers, tables and files, if `NoDb` is no file and versions
are numbers (`WarehouseSetting`):

- `LockHolds` (types, and DuckDB's lock: one writer or readers, `LockInv`) and
  `QueriesReadOneWarehouse` (`SnapshotStays`), for any number of builds of any
  kind at once.
- `WarehouseReadersSeeRepaired` and `WarehouseStaysFinished`, with one process
  making full builds and any number loading in place (`OneFullBuilder`).
  `BuildingInv` follows the file beside the warehouse through a full build,
  `RepairedInv` says that a warehouse nobody loads into is repaired or was cut.
  Without `OneFullBuilder` both fail: `warehouse_two_builds` is the run.

### The web and the Agent: `WebProofs`

For any set of questions, posted or streamed, that may hold any facts:

- `WebTracesReachTheirOwner`, `WebAnswersItsOwnQuestion`, `WebStreamsWhole`. The
  invariant `IInv` is seven parts: types; who holds the lock and whose the sink
  and the Agent are (`TurnInv`); which thread works for a request
  (`RequestInv`); one record per finished run (`RecordInv`); what the attributes
  and the answer are of, stage by stage (`AnswerInv`); that all that is queued or
  sent is its client's own (`EventInv`); and in what order it was put (`LineInv`).
- `WebAnswersOneAtATime`: `Web` implements `Answering`. Initial states map to
  initial states, and each action maps to a step of the abstract server or to a
  stutter, one lemma per action, under `IInv`.

### The repairs: `RepairProofs`

- `TeamBoxTrueOrNull` and `TeamBoxRepairedStays`, for every season and count
  (`CountAssumption`, and `RowAssumption`: NULL is no row): `Spec => []TrueOrNull`,
  `Spec => RepairedStays`. One invariant carries both: `BoxInv` says a repaired
  row equals, column by column, what the first repair makes of ESPN's row. A
  first repair is true or NULL (`FirstRepairTrueOrNull`), and a second one leaves
  each column as it found it (`SecondRepairIsFirst`), although the first may have
  filled an empty row and so changed which faults apply.
  Of a row just loaded and repaired 2008's total is right too
  (`TeamBoxFirstRepairIsRight`). (A second repair is the finding
  `team_box_repair_twice`.)
- `RealGamesHoldEachOnce`: `GamesSpec => []EachGameOnce`. `GamesInv`: each of the
  warehouse's tables holds part of what ESPN lists, or is not there, whichever pulls
  and loads came, and `real` is what the rules make of the two. By
  `ListingAssumption` the rows that pass the first three rules are the rows of
  games that have a tip or whose box score is loaded (`CandidatesAreGames`); among
  those of one game one is ahead of all others, the least in the order by box
  score and id (`OneIsAhead`), so it alone is kept. The condition `Judged` is needed: of a season with box scores, loaded without any of
  them, `real_games` keeps the rows that are no game.
  `ListingAssumption` states what the module's docstring measured of ESPN's rows:
  two teams meet once a day, and a row that is no game wants a winner, a team or a
  tip.
- `RealGamesSidesStay`: `GamesSpec => []SidesAreReal`.
- `RealGamesRoundsAreTrue`: `GamesSpec => []RoundIsTrueOrUnsaid`, for any bracket
  of `BracketAssumption`. A series' place by one side is the number
  of series that side had opened by then, which in a whole bracket is its round
  (`AsManyAsItsRound`); a round is said only if both sides agree. With one series
  missing, one side's place is still whole, since what two teams both played is
  their own series, so two that agree are right (`RoundsAre`).
- `SeasonsAreTrue`: `TotalsSpec => []SeasonIsTrueOrNull`, for any number of teams in
  a season. `TotalsInv`: every stint on disk and in the warehouse has its games,
  and its points or NULL, NULL for all or only where he did not score
  (`Stinted`); and what is in the warehouse has been rebuilt. So the repair knows a
  stint served as the season by its games (`AStintIsShorter`), and the line it
  sums instead is the season's or NULL (`SumOfTheStints`). Both are about sums over
  his stints (`SetLemmas`).
- `AthletesLinesSurvive`: `AthletesSpec => [](AtMostTwoFiled =>
  LinesSurviveTheMerge)`. The condition is needed: the SQL compares the lines of
  a box score that names exactly two ids, and would merge three unseen. That
  the id kept has the name merged (`CanonicalIs`) needs the order to have a first
  among any ids (`OneOutranks`).
- `AthletesGivenIdsSurvive`: `AthletesSpec => []GivenIdsSurvive`, with no hypothesis.
  An id given for a name outranked, when it was given, every other bearer of the
  name (`GivenOutranks`); a box score stored since lowers nobody's rank and raises
  only that of who is in it (`StoringKeepsRank`), so who outranks the id now was
  filed since.
- `AthletesNamesMeanTheMerged`: the order of `_established` and that of `ranked`
  are one order (`OneOrder`), so the pull's id of a pair is the load's
  (`ResolvedIsCanonical`). Two hypotheses on the spellings: a reduced one is
  reduced no further (`KeysAreReduced`: no name on record has two suffixes), and
  a name two ids bear is its own (`SharedNamesAreKeys`). Without the second,
  `resolve_athlete_id` would go on from a name it had refused as two people's to
  its reduced form, and answer with whoever bears that form exactly.

### The readers: `ReaderProofs`, `PresenceProofs`

- `NamesMeanOne`, for any namesakes, rows and limits, if a page of candidates
  holds two (it holds ten). A page that shows one man shows
  all there are (`PageShowsTwo`); each narrowing, by team, season or table, is then
  a case of its own, a missing table included (`NarrowedMeansOne`). The questions
  are those of `NameQuestions`: one season, a span settled by the current season,
  a history.
- `StreaksAreTold`, for any number of games and runs told. The SQL numbers a row's
  island by the misses before it; two rows have one number exactly if no miss
  lies between them (`SameIsland`), hence islands are the runs defined directly
  (`IslandsAreTheRuns`). What follows is what is said of each: maximal, among the
  longest (`ToldIslands`), and going on or not.
- `PeriodsAreBounded`, for any games, periods, stat and plays. What a game is off by
  in some quarters and in the others adds up to its gap (`OffSplits`); if the others
  do not make up for it, it is off by its own gap at most (`GameIsWithinItsGap`). The
  rest is a sum over the games (`PeriodsAnswer`). Without the condition the bound is
  false: see below.
- `PlannedIsTold`, for points that set *any* cells at once: the run has two at most,
  here `CellSets` is any set of sets of cells. `PlanInv` says at each stage what of
  the question is said already; one lemma reads off the tables' rows what a
  compiler says that a planner let by (`CompilerSays`, `SumSays`, `RunsSay`).
- `DatedIsTold`, for any games and any asked days of `DaysAssumption`. An answer is
  undated, or cut to a range of days; each form of words opens and closes its
  range (`OpensOn`, `RangeRuns`), and the seasons read for it are shown to hold
  the games of the range (`RangedIsTold`). `LatePostseason` is October 2020.
- `DatedByTheClock`, for any years between 1976 and 2100. The calendar is proved from
  the day arithmetic: when years begin, which dates are the Sundays of the three
  rules since 1967 (`RuleDaysAre`, `ChangesAre`; in 1974 and 1975 the clocks were
  put forward earlier), in
  which hours daylight time is on (`OffsetIs`). `ClockInv` keeps the watched hour
  to one year, from before its first change into the next January, and the wall
  to the side of each change it is on; the SQL's rule and the range of a day are
  then compared with the wall (`ClockAnswers`).
- `SplitsAreTrue` and `WithoutIsTrue`, for any calendar, teams and rows
  (`CalendarAssumption`, `PresenceAssumption`, `OpponentsAssumption`). A stint read
  off a man's rows covers a day exactly if he was on the team, by the rows
  around it (`CoveredIsOnTeam`, `OnTeamIsCovered`); the windows of two men are
  then the days they shared (`WindowsCover`), and what either reader counts is a
  set of days on one side of them (`TheSplit`, `TheList`, `SplitAgrees`).

The provers have no induction over data. Where one is needed (a least id, the sum over
a set, the number of misses before a row) the proof supposes a counterexample
and takes a least one, which exists because the naturals are well-founded
(`WFMin`): so `SetLemmas`' `LeastNat`, `AddsExists`, `SumTakeOut`, `SumSplit`.

### Only model-checked

- Liveness, which these provers do not reach: `PullEnds`, `EveryoneIsServed`.
- The violated runs' properties, which are false.

## What the models showed beside the findings

Two are disagreements of the code with its own words that no run is kept for, being
plain once stated (Period lines, Names). The others are not, or are documented
limits. The properties state them as exceptions or leave them out.

- Client: a page smaller than the one before repeats items, and where a larger page
  or an unreadable one then loses as many, the collection has the right count and
  the wrong items, and nothing is said.
- RealGames: of a season with box scores, loaded before any of its box scores, the
  rows that are no game are kept; one with a date and no tip is left out until its
  own box score is loaded. Both end with the next load of box scores.
- Athletes: a merge may move a name to another id than the one an earlier pull wrote
  NetPoints' rows under, once ESPN files that other id in more games. The rows keep
  the old id: their date is marked, and the load merges box scores only.
- Streaks: a game with no box score ends a run whatever the question narrows to,
  so "longest streak vs Boston" is ended by an unseen game against another team
  (`core.py:1119-1134`). A run carried over unseen games after a season's last
  recorded game, or before a trade, is the lower bound the docstring names.
- Presence: with a player who played beside, unseen games are excluded in SQL, so
  the count of games unseen is always 0.
- Absences: over one season in which two men shared a team without overlapping
  stints, the split refuses ("never together") and the player's list answers.
- Period lines: "a period's figure in that game is off by at most that much"
  (`nba/period_line.py:213-216`) is more than the check behind it can say. The gap
  is one difference of whole games, so a basket stored in the wrong quarter, or one
  left out of a quarter and one too many in another, leaves it 0 with both quarters
  wrong. `PeriodFiguresAreBounded` is what it does say, and states the exception.
- Names: `resolve_player` says an open name is settled by "the last season of the
  span (now, for a career)" (`entities.py:1497-1499`), but is given the current
  season for any span (`career_end`, `player_relation.py:442-448`): "from 1995 to
  1997" may be answered about a man who plays now and has no row in those seasons,
  which the answer then says. `NameMeansOne` is of the season the code settles by. A
  missing table's fallback forgets the season and the team asked. Two men of one full name are always asked about.
- Days: `season_of_day` numbers October by the ordinary calendar. The season that
  ended in October 2020 is misread: "since october 5 2020" reads from season 2021,
  "since 10/05/2020" from 2020, though `cuts.py` says the worded form reads as the
  numeric one does; "between oct 2 and oct 8 2020" reads season 2021 alone.
  `DatedIsItsGames` excepts that season's October games; none told is wrong. A
  career word beside a day whose words write one year is declined.

## Assumptions

Of the world, stated as `ASSUME`s of the modules or built into their steps; the runs'
instances satisfy each (TLC evaluates them), and the theorems use no others but those
in their statements. (The modules' other `ASSUME`s say what kind of value each
constant is.)

- What ESPN has settled stays settled (a final game is never reopened, a void
  one never played under its id): `fetch_game` relies on it. Every game is on the
  schedules of two teams, or, in a postseason, on none. One `data pull` runs at a
  time. A killed process leaves a file whole or not there, by `os.replace`.
- A request for a page is answered with that page of the collection as it is then,
  for a size of its own, and a count, where one is given, is right (`Bodies`).
- The schedule: no team plays three days running, and one stamp at most is junk
  (`NetPointsInit`). Two teams meet once a day, and a
  team plays one other (`OpponentsAssumption`). A game before October is filed
  under its year's season; a later one under that which begins or ends in its
  year; a postseason is played from April to September, or belongs to a season
  that ended late (`DaysAssumption`).
- The bracket: in a postseason a team meets one opponent in each round up to its
  last, and a round is over for a team before the next begins
  (`BracketAssumption`). A listed row that is no game lacks a winner, a team or a
  tip (`ListingAssumption`); it has no box score, a game listed twice has one at
  most, and in a season with box scores a game with a date only has its own
  (`GamesInit`).
- The repaired columns: ESPN serves the players' lines right, and a team's row right
  but for the faults `team_box_repair` measures (`Served`).
- The rows: a team's game with a box score has a row with minutes; a man with a row
  that day was on that team (`PresenceAssumption`). A player has a team in a
  season exactly if he has a box score in it (`NamesAssumption`). Who is listed and
  did not play has no figure and no plays (`PeriodsInit`); of the plays of who did,
  nothing is assumed.
- The Agent: what comes before its `try` does not raise. `RunHistory` only takes its
  arguments, and `latest_season_on_record` is None where DuckDB answers with an
  error; any other exception of it would end the question without a record.

## Not modelled, and why

The map covers about a tenth of the implementation's lines. Most of the rest has
no state and no control to check:

- the readers of the words (`parse`, `subject`, `point`, `reading`, `grammar`,
  `lexicon`): tables of English words and the order they are tried in; whether a
  phrase means what it says is a property of English, which the tests pin down
  phrase by phrase. What they hand on is `Plan`'s question;
- the sayers (`compose/say`) and the charts: wording and layout;
- the row parsers: JSON to columns, without state;
- the other condition readers (splits, records, meetings): sums over one
  relation, narrowed as `Plan` and `Absences` have it; the SQL of the views;
- teams' names and former franchises, coverage floors: tables of data;
- `check`, `coverage`, `health`, `artifacts`: they read and print. The option
  parser, logging, TLS impersonation and gzip;
- scripts, docs and tests.

Left to prove: nothing of safety that a run checks. The two liveness properties wait
for provers that can express ENABLED.
