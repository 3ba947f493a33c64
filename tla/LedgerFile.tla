------------------------------ MODULE LedgerFile ------------------------------
(***************************************************************************)
(* The file of a ledger: how a command finds it, how init creates it, how  *)
(* connecting migrates it, and how snapshots of it are exported beside     *)
(* their metadata and imported again.                                      *)
(*                                                                         *)
(* A command decides on a path, and opens what is there later; an export   *)
(* or an import works on temporary files whose names depend on nothing but *)
(* its output, and moves them into place one after the other.  Processes   *)
(* may die between any two steps.                                          *)
(*                                                                         *)
(* A behaviour follows the location of ledgers, or the snapshots of one.   *)
(***************************************************************************)
EXTENDS Integers, FiniteSetsExt

CONSTANTS
  Procs,        \* processes
  Current,      \* CURRENT_SCHEMA_VERSION
  Migrations,   \* the versions that there is a migration to
  Depth,        \* directories 1 .. Depth, each the parent of the next
  GitRoots,     \* those with a .git
  Ledger,       \* by directory: its .experiments/ledger.sqlite
  Others,       \* other paths that a ledger may have
  Told,         \* those that a command may be told, by --ledger or the environment
  Snapshots,    \* paths of snapshots
  MaxRows,      \* bound: rows that are written
  Null          \* no file, no path, no configuration

VARIABLES
  follows,      \* what the behaviour is about
  disk,         \* by path: the file, and what an export or import keeps beside it
  config,       \* by directory: the path that its .fieldbook names
  ops,          \* per process: its request, and what it has found out
  torn          \* by snapshot: why its metadata may describe another one

vars == <<follows, disk, config, ops, torn>>

-----------------------------------------------------------------------------
Topics == {"location", "snapshot"}

Dirs == 1 .. Depth
Paths == {Ledger[d] : d \in Dirs} \cup Others

(* A database: its user_version, which is 0 until init has migrated it,    *)
(* and its rows.  Metadata say the same of the file that they describe.    *)
Content == [schema: 0 .. Current + 1, rows: 0 .. MaxRows]

Entry == [file: Content \cup {Null}, temp: Content \cup {Null},
          meta: Content \cup {Null}, tempMeta: Content \cup {Null}]

NoFile == [file |-> Null, temp |-> Null, meta |-> Null, tempMeta |-> Null]

(* flag and env: --ledger and FIELDBOOK_LEDGER                             *)
At(d) == [cwd |-> d, flag |-> Null, env |-> Null]
Where == [cwd: Dirs, flag: Told \cup {Null}, env: Told \cup {Null}]

(* from: where an init runs that is told of no path;                       *)
(* stale: files or configurations have changed since the command looked;   *)
(* moved: the ledger has changed since its backup; beside: another export  *)
(* to the same output has been under way (all kept for the properties).    *)
Idle == [does |-> "nothing"]

LocateOp ==
  [does: {"init", "use"}, from: Dirs \cup {Null}, path: Paths, stale: BOOLEAN]

ExportOp ==
  [does: {"export"}, phase: {"cleared", "copied", "counted", "placed"}, from: Paths,
   to: Snapshots, metadata: BOOLEAN, moved: BOOLEAN, beside: BOOLEAN]

ImportOp == [does: {"import"}, phase: {"cleared", "copied"}, from: Snapshots, to: Paths]

Op == {Idle} \cup LocateOp \cup ExportOp \cup ImportOp

Reasons == {"half placed", "bare", "moved", "beside"}

ASSUME NullAssumption == Null \notin Content \cup Paths \cup Snapshots
ASSUME PathAssumption ==
  /\ Depth \in Nat \ {0} /\ GitRoots \subseteq Dirs
  /\ Told \subseteq Paths
  /\ \A d, e \in Dirs : Ledger[d] = Ledger[e] => d = e
  /\ Paths \cap Snapshots = {}
ASSUME VersionAssumption ==
  /\ Current \in Nat \ {0} /\ MaxRows \in Nat
  /\ Migrations \subseteq 1 .. Current /\ Current \in Migrations

Exists(path) == disk[path].file # Null

(* Snapshots are followed from a ledger that is there already, which an    *)
(* older or a newer Fieldbook may have made.                               *)
Init ==
  /\ follows \in Topics
  /\ disk \in IF follows = "snapshot"
       THEN {[f \in Paths \cup Snapshots |->
               IF f = Ledger[1] THEN [NoFile EXCEPT !.file = [schema |-> v, rows |-> 0]] ELSE NoFile] :
             v \in 1 .. Current + 1}
       ELSE {[f \in Paths \cup Snapshots |-> NoFile]}
  /\ config = [d \in Dirs |-> Null]
  /\ ops = [p \in Procs |-> Idle]
  /\ torn = [s \in Snapshots |-> {}]

-----------------------------------------------------------------------------
(* resolve_ledger_location, resolve_init_location                          *)

Above(S, d) == {e \in S : e <= d}

GitRoot(d) == IF Above(GitRoots, d) = {} THEN d ELSE Max(Above(GitRoots, d))

WouldInitAt(d) == Ledger[GitRoot(d)]

Configured(d) == Above({e \in Dirs : config[e] # Null}, d)
Walked(d) == Above({e \in Dirs : Exists(Ledger[e])}, d)

Resolved(w) ==
  IF w.flag # Null THEN w.flag
  ELSE IF w.env # Null THEN w.env
  ELSE IF Configured(w.cwd) # {} THEN config[Max(Configured(w.cwd))]
  ELSE IF Walked(w.cwd) # {} THEN Ledger[Max(Walked(w.cwd))]
  ELSE Null

InitPath_AtGitRoot(w) ==
  IF w.flag # Null THEN w.flag ELSE IF w.env # Null THEN w.env ELSE WouldInitAt(w.cwd)

InitPath(w) == IF Resolved(w) = Null THEN WouldInitAt(w.cwd) ELSE Resolved(w)

(* Commands other than init need a ledger that exists.                     *)
UsePath(w) == IF Resolved(w) # Null /\ Exists(Resolved(w)) THEN Resolved(w) ELSE Null

-----------------------------------------------------------------------------
(* connect and apply_migrations: a database older than the first migration *)
(* is refused, and so is a newer one; any other is brought to the current  *)
(* version.                                                                *)
Supported(content) == content.schema \in {0} \cup Migrations
Migrated(content) == [content EXCEPT !.schema = Current]

(* What the steps of one process mean to the others.                       *)
Stale(op) == IF op.does \in {"init", "use"} THEN [op EXCEPT !.stale = TRUE] ELSE op

Moved(op) ==
  [op EXCEPT !.moved = @ \/ (op.phase = "copied" /\ disk'[op.from].file # disk[op.from].file)]

Beside(op, other) ==
  [op EXCEPT !.beside = @ \/ (other.does = "export" /\ other.to = op.to)]

Commit(p, op) ==
  ops' = [q \in Procs |->
    IF q = p THEN op
    ELSE IF ops[q].does = "export" THEN Beside(Moved(ops[q]), op) ELSE Stale(ops[q])]

(* sqlite3.connect creates the file that is not there.                     *)
Opened(path) == IF Exists(path) THEN disk[path].file ELSE [schema |-> 0, rows |-> 0]

Locate(p, does, w, path) ==
  /\ ops[p] = Idle
  /\ path \in Paths
  /\ ops' = [ops EXCEPT ![p] =
       [does |-> does, from |-> IF does = "init" /\ w = At(w.cwd) THEN w.cwd ELSE Null,
        path |-> path, stale |-> FALSE]]
  /\ UNCHANGED <<follows, disk, config, torn>>

(* init_ledger: the file is opened, which creates it, and then migrated.   *)
Create(p) ==
  /\ ops[p].does = "init" /\ ~Exists(ops[p].path)
  /\ disk' = [disk EXCEPT ![ops[p].path].file = Opened(ops[p].path)]
  /\ Commit(p, ops[p])
  /\ UNCHANGED <<follows, config, torn>>

Migrate(p) ==
  /\ ops[p].does = "init" /\ Exists(ops[p].path)
  /\ Supported(disk[ops[p].path].file)
  /\ disk' = [disk EXCEPT ![ops[p].path].file = Migrated(@)]
  /\ Commit(p, Idle)
  /\ UNCHANGED <<follows, config, torn>>

(* Any other command: connects, and may write a row.  One that is known to *)
(* read only also opens a newer ledger, and leaves it as it is.            *)
Use(p, written) ==
  /\ ops[p].does = "use"
  /\ LET content == Opened(ops[p].path)
     IN  /\ Supported(content)
         /\ content.rows + written <= MaxRows
         /\ disk' = [disk EXCEPT ![ops[p].path].file = [Migrated(content) EXCEPT !.rows = @ + written]]
  /\ Commit(p, Idle)
  /\ UNCHANGED <<follows, config, torn>>

Consult(p) ==
  /\ ops[p].does = "use"
  /\ Exists(ops[p].path) /\ disk[ops[p].path].file.schema > Current
  /\ UNCHANGED <<follows, disk, config, torn>>
  /\ Commit(p, Idle)

(* Somebody writes a .fieldbook, or removes it.                            *)
Configure(d, path) ==
  /\ follows = "location"
  /\ config' = [config EXCEPT ![d] = path]
  /\ ops' = [q \in Procs |-> Stale(ops[q])]
  /\ UNCHANGED <<follows, disk, torn>>

-----------------------------------------------------------------------------
(* export_snapshot                                                         *)
Unlinked(entry) == [entry EXCEPT !.temp = Null, !.tempMeta = Null]

(* Old temporary files are unlinked, with --no-metadata not those of the   *)
(* metadata.                                                               *)
ClearedFor(metadata, entry) == IF metadata THEN Unlinked(entry) ELSE [entry EXCEPT !.temp = Null]

ExportStart(p, from, to, replace, metadata) ==
  /\ ops[p] = Idle
  /\ ~replace => disk[to].file = Null /\ (metadata => disk[to].meta = Null)
  /\ Exists(from)
  /\ disk' = [disk EXCEPT ![to] = ClearedFor(metadata, @)]
  /\ Commit(p,
       [does |-> "export", phase |-> "cleared", from |-> from, to |-> to, metadata |-> metadata,
        moved |-> FALSE,
        beside |-> \E q \in Procs : ops[q].does = "export" /\ ops[q].to = to])
  /\ UNCHANGED <<follows, config, torn>>

Exporting(p, phase) == ops[p].does = "export" /\ ops[p].phase = phase

(* A file without a schema is refused.                                     *)
Backup(p) ==
  /\ Exporting(p, "cleared")
  /\ Exists(ops[p].from) /\ disk[ops[p].from].file.schema > 0
  /\ disk' = [disk EXCEPT ![ops[p].to].temp = disk[ops[p].from].file]
  /\ Commit(p, [ops[p] EXCEPT !.phase = "copied"])
  /\ UNCHANGED <<follows, config, torn>>

WithMetadata(entry, content) == [entry EXCEPT !.tempMeta = content]

(* The counts, the version and the identity are read from the ledger, not  *)
(* from the copy.                                                          *)
Describe(p) ==
  /\ Exporting(p, "copied")
  /\ disk' = IF ops[p].metadata
       THEN [disk EXCEPT ![ops[p].to] = WithMetadata(@, disk[ops[p].from].file)] ELSE disk
  /\ Commit(p, [ops[p] EXCEPT !.phase = "counted"])
  /\ UNCHANGED <<follows, config, torn>>

Placed_OnlyNew(entry) ==
  [entry EXCEPT !.file = IF entry.file = Null THEN entry.temp ELSE entry.file, !.temp = Null]

Placed(entry) == [entry EXCEPT !.file = entry.temp, !.temp = Null]
Described(entry) == [entry EXCEPT !.meta = entry.tempMeta, !.tempMeta = Null]

PlaceSnapshot(p) ==
  /\ Exporting(p, "counted") /\ disk[ops[p].to].temp # Null
  /\ disk' = [disk EXCEPT ![ops[p].to] = Placed(@)]
  /\ torn' = [torn EXCEPT ![ops[p].to] = @ \cup (IF ops[p].metadata THEN {"half placed"} ELSE {"bare"})]
  /\ Commit(p, IF ops[p].metadata THEN [ops[p] EXCEPT !.phase = "placed"] ELSE Idle)
  /\ UNCHANGED <<follows, config>>

PlaceMetadata(p) ==
  /\ Exporting(p, "placed") /\ disk[ops[p].to].tempMeta # Null
  /\ disk' = [disk EXCEPT ![ops[p].to] = Described(@)]
  /\ torn' = [torn EXCEPT ![ops[p].to] =
       (IF ops[p].moved THEN {"moved"} ELSE {}) \cup (IF ops[p].beside THEN {"beside"} ELSE {})]
  /\ Commit(p, Idle)
  /\ UNCHANGED <<follows, config>>

-----------------------------------------------------------------------------
(* import_snapshot: the copy is migrated before it takes its place.        *)
ImportStart(p, from, to, replace) ==
  /\ ops[p] = Idle
  /\ Exists(from) /\ disk[from].file.schema \in 1 .. Current
  /\ ~replace => ~Exists(to)
  /\ disk' = [disk EXCEPT ![to].temp = Null]
  /\ Commit(p, [does |-> "import", phase |-> "cleared", from |-> from, to |-> to])
  /\ UNCHANGED <<follows, config, torn>>

Importing(p, phase) == ops[p].does = "import" /\ ops[p].phase = phase

Copy(p) ==
  /\ Importing(p, "cleared")
  /\ Exists(ops[p].from) /\ Supported(disk[ops[p].from].file)
  /\ disk' = [disk EXCEPT ![ops[p].to].temp = Migrated(disk[ops[p].from].file)]
  /\ Commit(p, [ops[p] EXCEPT !.phase = "copied"])
  /\ UNCHANGED <<follows, config, torn>>

PlaceImport(p) ==
  /\ Importing(p, "copied") /\ disk[ops[p].to].temp # Null
  /\ disk' = [disk EXCEPT ![ops[p].to] = Placed(@)]
  /\ Commit(p, Idle)
  /\ UNCHANGED <<follows, config, torn>>

(* Whatever an export or an import fails of, a temporary file that is gone *)
(* included, it unlinks its temporary files on the way out: they may be    *)
(* those of another one.                                                   *)
Fail(p) ==
  /\ ops[p].does \in {"export", "import"}
  /\ disk' = [disk EXCEPT ![ops[p].to] =
       IF ops[p].does = "export" /\ ops[p].metadata THEN Unlinked(@) ELSE [@ EXCEPT !.temp = Null]]
  /\ Commit(p, Idle)
  /\ UNCHANGED <<follows, config, torn>>

(* The process dies, or a command that writes no temporary files fails.    *)
Die(p) ==
  /\ ops[p] # Idle
  /\ ops' = [ops EXCEPT ![p] = Idle]
  /\ UNCHANGED <<follows, disk, config, torn>>

-----------------------------------------------------------------------------
Locating(p) ==
  \/ \E w \in Where :
       /\ follows = "location" \/ w = At(1)
       /\ Locate(p, "init", w, InitPath(w)) \/ Locate(p, "use", w, UsePath(w))
  \/ Create(p) \/ Migrate(p)
  \/ \E written \in IF follows = "location" THEN {0} ELSE {0, 1} : Use(p, written)
  \/ Consult(p)

Copying(p) ==
  \/ /\ follows = "snapshot"
     /\ \E s \in Snapshots, replace \in BOOLEAN :
          \/ \E metadata \in BOOLEAN : ExportStart(p, Ledger[1], s, replace, metadata)
          \/ ImportStart(p, s, Ledger[1], replace)
  \/ Backup(p) \/ Describe(p) \/ PlaceSnapshot(p) \/ PlaceMetadata(p)
  \/ Copy(p) \/ PlaceImport(p) \/ Fail(p)

Next ==
  \/ \E p \in Procs : Locating(p) \/ Copying(p) \/ Die(p)
  \/ \E d \in Dirs, path \in Others \cup {Null} : Configure(d, path)

Spec == Init /\ [][Next]_vars

-----------------------------------------------------------------------------
TypeOK ==
  /\ follows \in Topics
  /\ disk \in [Paths \cup Snapshots -> Entry]
  /\ config \in [Dirs -> Paths \cup {Null}]
  /\ ops \in [Procs -> Op]
  /\ torn \in [Snapshots -> SUBSET Reasons]

(* Metadata beside a snapshot describe it, except for these: the second    *)
(* file has not been moved into place, or never will be; an export without *)
(* metadata has left the metadata of an older one; the ledger was written  *)
(* or migrated between the backup and the counts; and another export to    *)
(* the same output ran beside this one.                                    *)
MetadataDescribeSnapshot ==
  \A s \in Snapshots :
    disk[s].file # Null /\ disk[s].meta # Null /\ disk[s].meta # disk[s].file => torn[s] # {}

Resolution == [d \in Dirs |-> Resolved(At(d))]

(* An init that is told of no path, below no .fieldbook, creates a ledger  *)
(* that takes nobody's place: whichever directory had a ledger before it   *)
(* has the same one after it, unless files or configurations changed while *)
(* the init was under way.                                                 *)
InitShadowsNothing ==
  [][\A p \in Procs :
       /\ ops[p].does = "init" /\ ~ops[p].stale
       /\ ops[p].from # Null /\ Configured(ops[p].from) = {}
       /\ ~Exists(ops[p].path) /\ disk'[ops[p].path].file # Null
       => \A d \in Dirs : Resolution[d] # Null => Resolution'[d] = Resolution[d]]_vars
=============================================================================
