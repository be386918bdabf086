------------------------------- MODULE Storage -------------------------------
(***************************************************************************)
(* fetch/storage.py under the pull's worker threads: write_rows and        *)
(* mark_complete, each through a temporary sibling of its own and          *)
(* os.replace, with the caller's look at exists before it                  *)
(* (Pipeline._cache_player_bio: two games that share a player cache him    *)
(* both at once).  A write may fail at every step, and the process may be  *)
(* killed and another started, whose pid may be the same again.            *)
(*                                                                         *)
(* A file's content is the sequence of what was written into it: two       *)
(* pieces of one writer's table, or nothing, for a marker.                 *)
(***************************************************************************)
EXTENDS Naturals, Sequences, FiniteSets

CONSTANTS
  Paths,      \* the Parquet files two threads may both write
  Markers,    \* the completion markers
  Writers,    \* the pool's threads
  Pids,       \* the process ids the system deals out
  NoFile,
  Processes   \* how many processes run, one after another: a bound

ASSUME StorageAssumption ==
  Paths \cap Markers = {} /\ Pids # {} /\ NoFile \notin Seq(Writers \X {1, 2})

VARIABLES
  files,     \* files[p]: the content under path p, or NoFile
  scratch,   \* scratch[n]: the content under temporary name n, or NoFile
  at,        \* at[w]: where thread w is, with the path it writes
  pid,       \* the process's own id
  process    \* which process runs

storageVars == <<files, scratch, at, pid, process>>

\* A mutation: one temporary name per path.
TmpNameOfPath(p, w) == <<p, 0, 0>>

\* _tmp_name: unique per process and thread.
TmpName(p, w) == <<p, pid, w>>

TmpNames == (Paths \cup Markers) \X (Pids \cup {0}) \X (Writers \cup {0})

\* exists: a zero-byte file is no file.
Exists(p) == files[p] \notin {NoFile, <<>>}

Idle == [step |-> "idle", path |-> NoFile]
StorageInit ==
  /\ files = [p \in Paths \cup Markers |-> NoFile]
  /\ scratch = [n \in TmpNames |-> NoFile]
  /\ at = [w \in Writers |-> Idle]
  /\ pid = (CHOOSE id \in Pids : TRUE)   \* one is as good as another
  /\ process = 1

WriterMoves(w, from, to, p) ==
  /\ at[w] = [step |-> from, path |-> p]
  /\ at' = [at EXCEPT ![w] = IF to = "idle" THEN Idle ELSE [step |-> to, path |-> p]]
  /\ UNCHANGED <<pid, process>>

\* The caller's look, which another thread's write may follow.
SeeMissing(w, p) ==
  /\ at[w] = Idle /\ p \in Paths /\ ~Exists(p)
  /\ at' = [at EXCEPT ![w] = [step |-> "open", path |-> p]]
  /\ UNCHANGED <<files, scratch, pid, process>>

\* pq.write_table creates its file, or empties the one of that name, ...
OpenTable(w, p) ==
  /\ p \in Paths /\ WriterMoves(w, "open", "first", p)
  /\ scratch' = [scratch EXCEPT ![TmpName(p, w)] = <<>>]
  /\ UNCHANGED files

\* ... writes the rows, then what makes it a whole table ...
WritePiece(w, p, i) ==
  /\ WriterMoves(w, IF i = 1 THEN "first" ELSE "second", IF i = 1 THEN "second" ELSE "replace", p)
  /\ scratch' = [scratch EXCEPT ![TmpName(p, w)] = IF @ = NoFile THEN @ ELSE Append(@, <<w, i>>)]
  /\ UNCHANGED files

\* ... and os.replace puts it under its name.
Replace(w, p) ==
  /\ scratch[TmpName(p, w)] # NoFile
  /\ WriterMoves(w, "replace", "idle", p)
  /\ files' = [files EXCEPT ![p] = scratch[TmpName(p, w)]]
  /\ scratch' = [scratch EXCEPT ![TmpName(p, w)] = NoFile]

\* A write or the replace raises: write_rows removes its temporary file.
FailWrite(w, p) ==
  /\ \E step \in {"first", "second", "replace"} : WriterMoves(w, step, "idle", p)
  /\ p \in Paths
  /\ scratch' = [scratch EXCEPT ![TmpName(p, w)] = NoFile]
  /\ UNCHANGED files

\* mark_complete: touched and replaced, and left where it is when that fails.
TouchMarker(w, p) ==
  /\ at[w] = Idle /\ p \in Markers /\ files[p] = NoFile
  /\ scratch' = [scratch EXCEPT ![TmpName(p, w)] = <<>>]
  /\ at' = [at EXCEPT ![w] = [step |-> "replace", path |-> p]]
  /\ UNCHANGED <<files, pid, process>>

FailMarker(w, p) ==
  /\ p \in Markers /\ WriterMoves(w, "replace", "idle", p)
  /\ UNCHANGED <<files, scratch>>

\* The process is killed where it stands; the next one may get its pid.
KillPull ==
  /\ process < Processes /\ process' = process + 1
  /\ at' = [w \in Writers |-> Idle]
  /\ pid' \in Pids
  /\ UNCHANGED <<files, scratch>>

\* Everything is on file and the last process has ended.
StorageOver ==
  /\ \A p \in DOMAIN files : files[p] # NoFile
  /\ \A w \in Writers : at[w] = Idle
  /\ process = Processes /\ UNCHANGED storageVars

StorageNext ==
  \/ \E w \in Writers, p \in Paths \cup Markers :
       \/ SeeMissing(w, p) \/ OpenTable(w, p) \/ (\E i \in {1, 2} : p \in Paths /\ WritePiece(w, p, i))
       \/ Replace(w, p) \/ FailWrite(w, p) \/ TouchMarker(w, p) \/ FailMarker(w, p)
  \/ KillPull
  \/ StorageOver

StorageSpec == StorageInit /\ [][StorageNext]_storageVars

-----------------------------------------------------------------------------
\* A file under its own name is one thread's whole table, whoever wrote it at
\* once, failed in it or was killed in it: existing is enough to be skipped
\* (storage's module docstring).
StoredIsWhole ==
  \A p \in Paths : files[p] # NoFile => \E w \in Writers : files[p] = << <<w, 1>>, <<w, 2>> >>
==============================================================================
