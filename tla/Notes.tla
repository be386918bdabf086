-------------------------------- MODULE Notes --------------------------------
(***************************************************************************)
(* Notes added to one answer's history file: POST /api/notes (web/app.py)  *)
(* over history.append_note, run by as many request threads as ask and     *)
(* guarded by no lock.                                                     *)
(*                                                                         *)
(* A line of the file is RunLine (all that RunHistory.write laid down) or  *)
(* the note of one request: each request writes one line, and no two write *)
(* the same one.  An append is one write at the end of the file; a         *)
(* correction reads the file, truncates it by opening it to write, and     *)
(* writes the lines it read back from the start, over whatever came in     *)
(* between.                                                                *)
(***************************************************************************)
EXTENDS Naturals, Sequences, SequencesExt

CONSTANTS
  Posters,   \* the requests to add a note, each with a note of its own
  RunLine,   \* what the run itself wrote
  NoLine     \* replaces = None

ASSUME NotesAssumption == RunLine \notin Posters /\ NoLine \notin Posters \union {RunLine}

VARIABLES
  history,    \* the lines of the history file
  note,       \* note[w]: where request w is in append_note
  replaces,   \* replaces[w]: the line w corrects, or NoLine
  lines,      \* lines[w]: the lines w read
  saved,      \* the notes whose request was answered saved
  corrected,  \* the lines a saved request replaced in its own copy of the file
  overlapped, \* the lines saved while a correction was between its read and
              \* its write: what that correction cannot know of
  torn        \* a correction read the file between a truncation and its write,
              \* or was killed there: what the file then held is gone

noteVars == <<history, note, replaces, lines, saved, corrected, overlapped, torn>>

NotesInit ==
  /\ history = <<RunLine>>
  /\ note = [w \in Posters |-> "new"]
  /\ replaces = [w \in Posters |-> NoLine]
  /\ lines = [w \in Posters |-> <<>>]
  /\ saved = {} /\ corrected = {} /\ overlapped = {} /\ torn = FALSE

Step(w, from, to) == note[w] = from /\ note' = [note EXCEPT ![w] = to]

\* A correction that has read the file and not written it back yet.
Correcting(w) == note[w] \in {"read", "truncated"}

Truncated == \E w \in Posters : note[w] = "truncated"

\* The note is on file and its line goes back to the page: what a correction
\* under way has already read does not hold it.
Save(w) ==
  /\ saved' = saved \union {w}
  /\ overlapped' =
       IF \E v \in Posters \ {w} : Correcting(v) THEN overlapped \union {w} ELSE overlapped

\* A request names a line an earlier answer returned, or none.
RequestNote(w) ==
  /\ \E line \in saved \union {NoLine} :
       /\ replaces' = [replaces EXCEPT ![w] = line]
       /\ Step(w, "new", IF line = NoLine THEN "appending" ELSE "reading")
  /\ UNCHANGED <<history, lines, saved, corrected, overlapped, torn>>

\* A mutation: a line no longer on file is corrected at the place it would be.
CorrectAnyway(w) ==
  /\ lines' = [lines EXCEPT ![w] = history]
  /\ Step(w, "reading", "read")
  /\ torn' = (torn \/ Truncated)
  /\ UNCHANGED <<history, replaces, saved, corrected, overlapped>>

\* path.read_text: the line still there is corrected, any other is appended to.
ReadLines(w) ==
  /\ lines' = [lines EXCEPT ![w] = history]
  /\ Step(w, "reading", IF Contains(history, replaces[w]) THEN "read" ELSE "appending")
  /\ torn' = (torn \/ Truncated)
  /\ UNCHANGED <<history, replaces, saved, corrected, overlapped>>

\* path.write_text opens the file first, which empties it ...
Truncate(w) ==
  /\ Step(w, "read", "truncated")
  /\ history' = <<>>
  /\ UNCHANGED <<replaces, lines, saved, corrected, overlapped, torn>>

\* lines.index finds the first line that is the one replaced.
CorrectedLines(w) == ReplaceAt(lines[w], SelectInSeq(lines[w], LAMBDA l : l = replaces[w]), w)

\* ... and writes from its start.
WriteBack(w) ==
  /\ Step(w, "truncated", "done")
  /\ history' = CorrectedLines(w) \o SubSeq(history, Len(lines[w]) + 1, Len(history))
  /\ corrected' = corrected \union {replaces[w]}
  /\ Save(w)
  /\ UNCHANGED <<replaces, lines, torn>>

AppendNote(w) ==
  /\ Step(w, "appending", "done")
  /\ history' = Append(history, w)
  /\ Save(w)
  /\ UNCHANGED <<replaces, lines, corrected, torn>>

\* The server is killed: every request under way ends where it stands.
KillServer ==
  /\ \E w \in Posters : note[w] \notin {"new", "done", "killed"}
  /\ note' = [w \in Posters |-> IF note[w] \in {"new", "done"} THEN note[w] ELSE "killed"]
  /\ torn' = (torn \/ Truncated)
  /\ UNCHANGED <<history, replaces, lines, saved, corrected, overlapped>>

NotesOver == (\A w \in Posters : note[w] \in {"done", "killed"}) /\ UNCHANGED noteVars

NotesNext ==
  \/ \E w \in Posters :
       RequestNote(w) \/ ReadLines(w) \/ Truncate(w) \/ WriteBack(w) \/ AppendNote(w)
  \/ KillServer
  \/ NotesOver

NotesSpec == NotesInit /\ [][NotesNext]_noteVars

-----------------------------------------------------------------------------
Onfile(l) == Contains(history, l)

\* A saved note that nobody corrected is on file, unless a correction was under
\* way when it was saved, or one read a file another had just emptied: the only
\* ways append_note loses a note are the overlaps its read and write leave open.
NotesLostOnlyToOverlap ==
  ~torn /\ ~Truncated =>
    \A w \in saved \ (corrected \union overlapped) : Onfile(w)

==============================================================================
