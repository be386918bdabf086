------------------------------ MODULE Warehouse ------------------------------
(***************************************************************************)
(* association.fetch.warehouse.build: how the DuckDB file is written and    *)
(* what a query may find in it.  A full build goes into a file beside the   *)
(* warehouse and is renamed over it; a partial load writes the warehouse in *)
(* place.  Each statement commits by itself, and a process may be killed    *)
(* between any two.  DuckDB locks the open file, not its name: one process  *)
(* writes it, or any number read it, and a connect that cannot have its     *)
(* lock raises.                                                             *)
(***************************************************************************)
EXTENDS Naturals

CONSTANTS
  Builder,     \* processes: `data load`, or the rebuild that ends a `data pull`
  Reader,      \* connections of the query side (connect_read_only)
  Table,       \* warehouse.TABLES
  File,        \* files the disk may hold (inodes); the bound on connects
  NoDb,        \* no file
  Kinds,       \* [Builder -> SUBSET {"full", "partial"}]
  MaxVersion   \* how often a table's Parquet may change

VARIABLES
  tree,      \* [Table -> version of its Parquet]: 0, no file yet
  db,        \* the file named db_path, or NoDb
  building,  \* the file named db_path.building, or NoDb
  held,      \* [File -> [Table -> version loaded]]: 0, no such table
  raw,       \* [File -> tables loaded since the repairs last ran]
  pc,        \* [Builder -> where build is]
  kind, open, todo,   \* [Builder -> what it builds, the file it has open, tables to load]
  reading,   \* [Reader -> the file it has open, or NoDb]
  cut        \* history: files a killed in-place load was open on

warehouseVars == << tree, db, building, held, raw, pc, kind, open, todo, reading, cut >>
dbFiles == << db, building, held, raw >>

WarehouseTypeOK ==
  /\ tree \in [Table -> 0..MaxVersion]
  /\ db \in File \cup {NoDb} /\ building \in File \cup {NoDb}
  /\ held \in [File -> [Table -> 0..MaxVersion]]
  /\ raw \in [File -> SUBSET Table]
  /\ pc \in [Builder -> {"idle", "unlink", "connect", "load", "close", "replace"}]
  /\ kind \in [Builder -> {"full", "partial"}]
  /\ open \in [Builder -> File \cup {NoDb}]
  /\ \A b \in Builder : open[b] # NoDb <=> pc[b] \in {"load", "close"}
  /\ todo \in [Builder -> SUBSET Table]
  /\ reading \in [Reader -> File \cup {NoDb}]
  /\ cut \subseteq File

NoTables == [t \in Table |-> 0]

WarehouseInit ==
  /\ tree = NoTables
  /\ db = NoDb /\ building = NoDb
  /\ held = [f \in File |-> NoTables] /\ raw = [f \in File |-> {}]
  /\ pc = [b \in Builder |-> "idle"] /\ kind = [b \in Builder |-> "full"]
  /\ open = [b \in Builder |-> NoDb] /\ todo = [b \in Builder |-> {}]
  /\ reading = [r \in Reader |-> NoDb]
  /\ cut = {}

-----------------------------------------------------------------------------
(* DuckDB's lock, and files *)

WritersOf(f) == {b \in Builder : open[b] = f}
Readers(f) == {r \in Reader : reading[r] = f}
NamedFiles == {db, building}
Fresh == {f \in File : f \notin NamedFiles /\ WritersOf(f) = {} /\ Readers(f) = {}}

\* mutant of Opens: a reader does not keep a writer out
OpensUnderReaders(b, name, f) ==
  /\ IF name = NoDb THEN f \in Fresh ELSE f = name /\ WritersOf(f) = {}
  /\ open' = [open EXCEPT ![b] = f]
  /\ held' = IF name = NoDb THEN [held EXCEPT ![f] = NoTables] ELSE held
  /\ raw' = IF name = NoDb THEN [raw EXCEPT ![f] = {}] ELSE raw
  /\ cut' = IF name = NoDb THEN cut \ {f} ELSE cut

\* `duckdb.connect(name)` to write: a file that is not there is created
Opens(b, name, f) ==
  /\ IF name = NoDb THEN f \in Fresh ELSE f = name /\ WritersOf(f) = {} /\ Readers(f) = {}
  /\ open' = [open EXCEPT ![b] = f]
  /\ held' = IF name = NoDb THEN [held EXCEPT ![f] = NoTables] ELSE held
  /\ raw' = IF name = NoDb THEN [raw EXCEPT ![f] = {}] ELSE raw
  /\ cut' = IF name = NoDb THEN cut \ {f} ELSE cut

BuildGoes(b, to) == pc' = [pc EXCEPT ![b] = to]

-----------------------------------------------------------------------------
(* build *)

\* a pull writes Parquet
TreeGrows(t) ==
  /\ tree[t] < MaxVersion
  /\ tree' = [tree EXCEPT ![t] = @ + 1]
  /\ UNCHANGED << dbFiles, pc, kind, open, todo, reading, cut >>

\* build(tables): None is every table
BeginBuild(b, k, tables) ==
  /\ pc[b] = "idle" /\ k \in Kinds[b]
  /\ k = "full" => tables = Table
  /\ kind' = [kind EXCEPT ![b] = k]
  /\ todo' = [todo EXCEPT ![b] = tables]
  /\ BuildGoes(b, IF k = "full" /\ building # NoDb THEN "unlink" ELSE "connect")
  /\ UNCHANGED << tree, dbFiles, open, reading, cut >>

\* _build_full removes the leftover of a build that did not finish, or is
\* still running; it raises if that went meanwhile
Unlink(b) ==
  /\ pc[b] = "unlink"
  /\ building' = NoDb
  /\ BuildGoes(b, IF building = NoDb THEN "idle" ELSE "connect")
  /\ UNCHANGED << tree, db, held, raw, kind, open, todo, reading, cut >>

\* mutant of Connect: a full build, too, writes the warehouse in place
ConnectInPlace(b, f) ==
  /\ pc[b] = "connect"
  /\ Opens(b, db, f)
  /\ db' = f
  /\ BuildGoes(b, "load")
  /\ UNCHANGED << tree, building, kind, todo, reading >>

Connect(b, f) ==
  /\ pc[b] = "connect"
  /\ LET name == IF kind[b] = "full" THEN building ELSE db IN Opens(b, name, f)
  /\ db' = IF kind[b] = "partial" THEN f ELSE db
  /\ building' = IF kind[b] = "full" THEN f ELSE building
  /\ BuildGoes(b, "load")
  /\ UNCHANGED << tree, kind, todo, reading >>

\* another process has the file open: duckdb.connect raises
ConnectFails(b) ==
  /\ pc[b] = "connect"
  /\ LET name == IF kind[b] = "full" THEN building ELSE db IN
       name # NoDb /\ (WritersOf(name) # {} \/ Readers(name) # {})
  /\ BuildGoes(b, "idle")
  /\ UNCHANGED << tree, dbFiles, kind, open, todo, reading, cut >>

\* _load_tables: one CREATE OR REPLACE a table, none for a table with no files
LoadTable(b, t) ==
  /\ pc[b] = "load" /\ t \in todo[b]
  /\ todo' = [todo EXCEPT ![b] = @ \ {t}]
  /\ held' = IF tree[t] = 0 THEN held ELSE [held EXCEPT ![open[b]][t] = tree[t]]
  /\ raw' = IF tree[t] = 0 THEN raw ELSE [raw EXCEPT ![open[b]] = @ \cup {t}]
  /\ UNCHANGED << tree, db, building, pc, kind, open, reading, cut >>

\* _repair_and_build_views: the rows ESPN serves wrong are rewritten, and
\* every derived table and view is rebuilt
RunRepairs(b) ==
  /\ pc[b] = "load" /\ todo[b] = {}
  /\ raw' = [raw EXCEPT ![open[b]] = {}]
  /\ BuildGoes(b, "close")
  /\ UNCHANGED << tree, db, building, held, kind, open, todo, reading, cut >>

\* mutant of Close: the connection is left to the garbage collector
CloseLater(b) ==
  /\ pc[b] = "close"
  /\ BuildGoes(b, IF kind[b] = "full" THEN "replace" ELSE "idle")
  /\ UNCHANGED << tree, dbFiles, kind, open, todo, reading, cut >>

Close(b) ==
  /\ pc[b] = "close"
  /\ open' = [open EXCEPT ![b] = NoDb]
  /\ BuildGoes(b, IF kind[b] = "full" THEN "replace" ELSE "idle")
  /\ UNCHANGED << tree, dbFiles, kind, todo, reading, cut >>

\* mutant of RenameOver: renamed before the connection is closed
RenameOpen(b) ==
  /\ pc[b] = "replace" \/ (kind[b] = "full" /\ pc[b] = "close")
  /\ db' = IF building = NoDb THEN db ELSE building
  /\ building' = NoDb
  /\ BuildGoes(b, "idle")
  /\ UNCHANGED << tree, held, raw, kind, open, todo, reading, cut >>

\* whatever file has the name is renamed; none, and it raises
RenameOver(b) ==
  /\ pc[b] = "replace"
  /\ db' = IF building = NoDb THEN db ELSE building
  /\ building' = NoDb
  /\ BuildGoes(b, "idle")
  /\ UNCHANGED << tree, held, raw, kind, open, todo, reading, cut >>

\* killed, or a statement raised (out of memory): its statements stay
KillBuild(b) ==
  /\ pc[b] # "idle"
  /\ open' = [open EXCEPT ![b] = NoDb]
  /\ cut' = IF kind[b] = "partial" /\ open[b] # NoDb THEN cut \cup {open[b]} ELSE cut
  /\ BuildGoes(b, "idle")
  /\ UNCHANGED << tree, dbFiles, kind, todo, reading >>

-----------------------------------------------------------------------------
(* A query *)

OpenRead(r) ==
  /\ reading[r] = NoDb /\ db # NoDb /\ WritersOf(db) = {}
  /\ reading' = [reading EXCEPT ![r] = db]
  /\ UNCHANGED << tree, dbFiles, pc, kind, open, todo, cut >>

CloseRead(r) ==
  /\ reading[r] # NoDb
  /\ reading' = [reading EXCEPT ![r] = NoDb]
  /\ UNCHANGED << tree, dbFiles, pc, kind, open, todo, cut >>

WarehouseNext ==
  \/ \E t \in Table : TreeGrows(t)
  \/ \E b \in Builder :
       \/ \E k \in {"full", "partial"}, tables \in SUBSET Table : BeginBuild(b, k, tables)
       \/ Unlink(b)
       \/ \E f \in File : Connect(b, f)
       \/ ConnectFails(b)
       \/ \E t \in Table : LoadTable(b, t)
       \/ RunRepairs(b) \/ Close(b) \/ RenameOver(b) \/ KillBuild(b)
  \/ \E r \in Reader : OpenRead(r) \/ CloseRead(r)

WarehouseSpec == WarehouseInit /\ [][WarehouseNext]_warehouseVars

-----------------------------------------------------------------------------
\* A query never reads rows ESPN served wrong and no repair has seen, unless an
\* in-place load of that very file was killed: a full build, finished, killed
\* or beside a partial load, never shows any.
ReadersSeeRepaired == \A r \in Reader : reading[r] # NoDb => raw[reading[r]] = {} \/ reading[r] \in cut

\* What _build_full's docstring says of a full build: it replaces the
\* warehouse only once every load, repair and view has finished.
WarehouseIsFinished == db # NoDb => \A b \in WritersOf(db) : kind[b] = "partial"

\* A query's tables are those it connected to: neither a load in place nor a
\* rename changes them under it.
SnapshotStays ==
  [][ \A r \in Reader : reading[r] # NoDb /\ reading'[r] = reading[r] =>
        held'[reading[r]] = held[reading[r]] /\ raw'[reading[r]] = raw[reading[r]] ]_warehouseVars
=============================================================================
