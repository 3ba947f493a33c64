--------------------------- MODULE LedgerFileProofs ---------------------------
(***************************************************************************)
(* Proofs about LedgerFile: its types; that the metadata beside a snapshot *)
(* describe it, but for the exceptions that the property names; and that   *)
(* init takes no directory's ledger away.                                  *)
(***************************************************************************)
EXTENDS LedgerFile, WellFoundedInduction, TLAPS

Exports(p) == ops[p].does = "export"

(* Exports to one output know of each other.                               *)
ExportersKnow ==
  \A p, q \in Procs :
    p # q /\ Exports(p) /\ Exports(q) /\ ops[p].to = ops[q].to => ops[p].beside

(* What an export has written, as long as nothing came between: the copy   *)
(* is the ledger, its metadata describe the copy, and then the snapshot.   *)
Undisturbed(p) == Exports(p) /\ ~ops[p].moved /\ ~ops[p].beside

Follows(d, op) ==
  /\ op.phase = "copied" => d[op.to].temp = d[op.from].file
  /\ op.phase = "counted" /\ op.metadata => d[op.to].tempMeta = d[op.to].temp
  /\ op.phase = "placed" => d[op.to].tempMeta = d[op.to].file

CopiesFollow == \A p \in Procs : Undisturbed(p) => Follows(disk, ops[p])

IInv == TypeOK /\ ExportersKnow /\ CopiesFollow /\ MetadataDescribeSnapshot

-----------------------------------------------------------------------------
LEMMA IdleType == Idle \in Op /\ Idle.does = "nothing"
  BY DEF Op, Idle

LEMMA OpKinds ==
  ASSUME NEW op \in Op
  PROVE  /\ op.does \in {"nothing", "init", "use", "export", "import"}
         /\ op.does = "nothing" => op = Idle
         /\ op.does \in {"init", "use"} => op \in LocateOp
         /\ op.does = "export" => op \in ExportOp
         /\ op.does = "import" => op \in ImportOp
  BY DEF Op, Idle, LocateOp, ExportOp, ImportOp

LEMMA StaleType ==
  ASSUME NEW op \in Op
  PROVE  Stale(op) \in Op /\ Stale(op).does = op.does /\ (op.does \notin {"init", "use"} => Stale(op) = op)
<1>1. CASE op.does \in {"init", "use"}
  <2>1. op \in LocateOp
    BY <1>1, OpKinds
  <2> QED BY <1>1, <2>1 DEF Stale, Op, LocateOp
<1>2. CASE op.does \notin {"init", "use"}
  BY <1>2 DEF Stale
<1> QED BY <1>1, <1>2

(* What op becomes when another process commits other.                     *)
Noted(noted, op, other) ==
  /\ noted \in ExportOp
  /\ noted.phase = op.phase /\ noted.from = op.from /\ noted.to = op.to
  /\ noted.metadata = op.metadata
  /\ noted.moved <=> op.moved \/ (op.phase = "copied" /\ disk'[op.from].file # disk[op.from].file)
  /\ noted.beside <=> op.beside \/ (other.does = "export" /\ other.to = op.to)

LEMMA ExportNoted ==
  ASSUME NEW op \in ExportOp, NEW other
  PROVE  Noted(Beside(Moved(op), other), op, other)
<1>1. /\ Moved(op) \in ExportOp
      /\ Moved(op).phase = op.phase /\ Moved(op).from = op.from /\ Moved(op).to = op.to
      /\ Moved(op).metadata = op.metadata /\ Moved(op).beside = op.beside
      /\ Moved(op).moved <=> op.moved \/ (op.phase = "copied" /\ disk'[op.from].file # disk[op.from].file)
  BY DEF ExportOp, Moved
<1>2. ASSUME NEW o \in ExportOp
      PROVE  /\ Beside(o, other) \in ExportOp
             /\ Beside(o, other).phase = o.phase /\ Beside(o, other).from = o.from
             /\ Beside(o, other).to = o.to /\ Beside(o, other).metadata = o.metadata
             /\ Beside(o, other).moved = o.moved
             /\ Beside(o, other).beside <=> o.beside \/ (other.does = "export" /\ other.to = o.to)
  BY DEF ExportOp, Beside
<1> QED BY <1>1, <1>2 DEF Noted

LEMMA Committed ==
  ASSUME TypeOK, NEW p \in Procs, NEW op \in Op, Commit(p, op)
  PROVE  /\ ops' \in [Procs -> Op]
         /\ ops'[p] = op
         /\ \A q \in Procs \ {p} :
              /\ ops'[q].does = ops[q].does
              /\ Exports(q) => ops'[q] = Beside(Moved(ops[q]), op)
<1>1. ASSUME NEW q \in Procs \ {p}
      PROVE  /\ ops'[q] \in Op
             /\ ops'[q].does = ops[q].does
             /\ Exports(q) => ops'[q] = Beside(Moved(ops[q]), op)
  <2>1. ops[q] \in Op
    BY DEF TypeOK
  <2>2. CASE Exports(q)
    <3>1. ops'[q] = Beside(Moved(ops[q]), op)
      BY <2>2 DEF Commit, Exports
    <3>2. Beside(Moved(ops[q]), op) \in ExportOp
      BY <2>1, <2>2, OpKinds, ExportNoted DEF Exports, Noted
    <3> QED BY <3>1, <3>2, <2>2 DEF Op, ExportOp, Exports
  <2>3. CASE ~Exports(q)
    BY <2>1, <2>3, StaleType DEF Commit, Exports
  <2> QED BY <2>2, <2>3
<1> QED BY <1>1 DEF Commit

(* A step of process p, which leaves op, and the disk as it was but for x, *)
(* which is a ledger or the output of an export of p.                      *)
Touches(p, op, x) ==
  \/ x \in Paths
  \/ Exports(p) /\ x = ops[p].to
  \/ op.does = "export" /\ x = op.to

Joins(p, op) ==
  op.does = "export" =>
    \A q \in Procs \ {p} : Exports(q) /\ ops[q].to = op.to => op.beside

Tells(s) == disk[s].file # Null /\ disk[s].meta # Null /\ disk[s].meta # disk[s].file => torn[s] # {}

LEMMA StepKeeps ==
  ASSUME IInv, NEW p \in Procs, NEW op \in Op, NEW x \in Paths \cup Snapshots,
         Commit(p, op), Joins(p, op), Touches(p, op, x),
         UNCHANGED <<follows, config>>,
         disk' \in [Paths \cup Snapshots -> Entry],
         \A y \in Paths \cup Snapshots : y # x => disk'[y] = disk[y],
         torn' \in [Snapshots -> SUBSET Reasons],
         \A s \in Snapshots : s # x => torn'[s] = torn[s],
         op.does = "export" /\ ~op.moved /\ ~op.beside => Follows(disk', op),
         x \in Snapshots => Tells(x)'
  PROVE  IInv'
<1>0. TypeOK /\ ExportersKnow /\ CopiesFollow /\ MetadataDescribeSnapshot
  BY DEF IInv
<1>a. /\ ops' \in [Procs -> Op] /\ ops'[p] = op
      /\ \A q \in Procs \ {p} :
           ops'[q].does = ops[q].does /\ (Exports(q) => ops'[q] = Beside(Moved(ops[q]), op))
  BY <1>0, Committed
<1>1. TypeOK'
  BY <1>0, <1>a DEF TypeOK
<1>2. ASSUME NEW q \in Procs \ {p}, Exports(q)'
      PROVE  Exports(q) /\ ops[q] \in ExportOp /\ Noted(ops'[q], ops[q], op)
  <2>1. Exports(q) /\ ops[q] \in ExportOp /\ ops'[q] = Beside(Moved(ops[q]), op)
    BY <1>0, <1>2, <1>a, OpKinds DEF Exports, TypeOK
  <2>2. Noted(Beside(Moved(ops[q]), op), ops[q], op)
    BY <2>1, ExportNoted
  <2> QED BY <2>1, <2>2
<1>3. ExportersKnow'
  <2> SUFFICES ASSUME NEW q \in Procs, NEW r \in Procs, q # r,
                      Exports(q)', Exports(r)', ops'[q].to = ops'[r].to
               PROVE  ops'[q].beside
    BY DEF ExportersKnow
  <2>1. CASE q = p
    <3>1. Exports(r) /\ ops[r].to = op.to /\ op.does = "export"
      BY <2>1, <1>2, <1>a DEF Noted, Exports
    <3> QED BY <2>1, <3>1, <1>a DEF Joins
  <2>2. CASE r = p
    BY <2>2, <1>2, <1>a DEF Noted, Exports
  <2>3. CASE q # p /\ r # p
    BY <1>0, <2>3, <1>2 DEF Noted, ExportersKnow
  <2> QED BY <2>1, <2>2, <2>3
<1>4. CopiesFollow'
  <2> SUFFICES ASSUME NEW q \in Procs, Undisturbed(q)'
               PROVE  Follows(disk', ops'[q])
    BY DEF CopiesFollow
  <2>1. CASE q = p
    BY <2>1, <1>a DEF Undisturbed, Exports
  <2>2. CASE q # p
    <3>1. Undisturbed(q) /\ ~(op.does = "export" /\ op.to = ops[q].to)
      BY <2>2, <1>2 DEF Noted, Undisturbed
    <3>2. ~(Exports(p) /\ ops[p].to = ops[q].to)
      BY <1>0, <2>2, <3>1 DEF Undisturbed, ExportersKnow
    <3>3. ops[q] \in ExportOp
      BY <2>2, <1>2 DEF Noted, Undisturbed
    <3>4. x # ops[q].to
      BY <3>1, <3>2, <3>3, PathAssumption DEF Touches, ExportOp
    <3>5. disk'[ops[q].to] = disk[ops[q].to]
      BY <3>3, <3>4 DEF ExportOp
    <3>6. ops[q].phase = "copied" => disk'[ops[q].from].file = disk[ops[q].from].file
      BY <2>2, <1>2 DEF Noted, Undisturbed
    <3> QED BY <1>0, <2>2, <1>2, <3>1, <3>5, <3>6 DEF Noted, CopiesFollow, Follows, Undisturbed
  <2> QED BY <2>1, <2>2
<1>5. MetadataDescribeSnapshot'
  <2> SUFFICES ASSUME NEW s \in Snapshots PROVE Tells(s)'
    BY DEF MetadataDescribeSnapshot, Tells
  <2>1. CASE s = x
    BY <2>1
  <2>2. CASE s # x
    BY <1>0, <2>2 DEF MetadataDescribeSnapshot, Tells
  <2> QED BY <2>1, <2>2
<1> QED BY <1>1, <1>3, <1>4, <1>5 DEF IInv

-----------------------------------------------------------------------------
LEMMA InitSound == Init => IInv
<1> SUFFICES ASSUME Init PROVE IInv
  OBVIOUS
<1>1. \A p \in Procs : ops[p] = Idle
  BY DEF Init
<1>2. TypeOK
  <2>1. NoFile \in Entry
    BY DEF NoFile, Entry
  <2>2. ASSUME NEW v \in 1 .. Current + 1
        PROVE  [NoFile EXCEPT !.file = [schema |-> v, rows |-> 0]] \in Entry
    BY VersionAssumption DEF NoFile, Entry, Content
  <2>3. disk \in [Paths \cup Snapshots -> Entry]
    BY <2>1, <2>2 DEF Init
  <2> QED BY <2>3, IdleType DEF Init, TypeOK
<1>3. ExportersKnow /\ CopiesFollow
  BY <1>1, IdleType DEF ExportersKnow, CopiesFollow, Undisturbed, Exports
<1>4. MetadataDescribeSnapshot
  BY DEF Init, MetadataDescribeSnapshot, NoFile
<1> QED BY <1>2, <1>3, <1>4 DEF IInv

(* A ledger that is opened.                                                *)
LEMMA EntryKept ==
  ASSUME NEW e \in Entry, NEW c \in Content \cup {Null}
  PROVE  /\ [e EXCEPT !.file = c] \in Entry
         /\ [e EXCEPT !.temp = c] \in Entry
         /\ [e EXCEPT !.tempMeta = c] \in Entry
  BY DEF Entry

(* Whatever is done to a ledger disturbs no export and no snapshot.        *)
LEMMA PathStep ==
  ASSUME IInv, NEW p \in Procs, NEW op \in Op, NEW x \in Paths, NEW e \in Entry,
         Commit(p, op), op.does # "export", disk' = [disk EXCEPT ![x] = e],
         UNCHANGED <<follows, config, torn>>
  PROVE  IInv'
<1>1. x \in Paths \cup Snapshots /\ x \notin Snapshots
  BY PathAssumption
<1>2. Joins(p, op) /\ Touches(p, op, x)
  BY DEF Joins, Touches
<1>3. /\ disk' \in [Paths \cup Snapshots -> Entry]
      /\ \A y \in Paths \cup Snapshots : y # x => disk'[y] = disk[y]
  BY DEF IInv, TypeOK
<1>4. torn' \in [Snapshots -> SUBSET Reasons] /\ \A s \in Snapshots : s # x => torn'[s] = torn[s]
  BY DEF IInv, TypeOK
<1> QED BY <1>1, <1>2, <1>3, <1>4, StepKeeps

(* Nor does a step that touches no file.                                   *)
LEMMA QuietStep ==
  ASSUME IInv, TypeOK', UNCHANGED <<disk, torn>>,
         \A q \in Procs : Exports(q)' => ops'[q] = ops[q]
  PROVE  IInv'
<1>1. ExportersKnow'
  BY DEF IInv, ExportersKnow, Exports
<1>2. CopiesFollow'
  BY DEF IInv, CopiesFollow, Undisturbed, Exports, Follows
<1>3. MetadataDescribeSnapshot'
  BY DEF IInv, MetadataDescribeSnapshot
<1> QED BY <1>1, <1>2, <1>3 DEF IInv

LEMMA ContentType ==
  /\ [schema |-> 0, rows |-> 0] \in Content
  /\ \A c \in Content : Migrated(c) \in Content
  /\ \A c \in Content, written \in {0, 1} :
       c.rows + written <= MaxRows => [Migrated(c) EXCEPT !.rows = @ + written] \in Content
<1>1. /\ [schema |-> 0, rows |-> 0] \in Content
      /\ \A c \in Content : Migrated(c) \in Content /\ Migrated(c).rows = c.rows
  BY VersionAssumption DEF Content, Migrated
<1>2. ASSUME NEW c \in Content, NEW written \in {0, 1}, c.rows + written <= MaxRows
      PROVE  [Migrated(c) EXCEPT !.rows = @ + written] \in Content
  <2>1. Migrated(c) \in Content /\ Migrated(c).rows + written \in 0 .. MaxRows
    BY <1>1, <1>2, VersionAssumption DEF Content
  <2> QED BY <2>1 DEF Content
<1> QED BY <1>1, <1>2

(* What is on the disk, by its type.                                       *)
LEMMA OnDisk ==
  ASSUME TypeOK, NEW x \in Paths \cup Snapshots
  PROVE  /\ disk[x] \in Entry
         /\ disk[x].file \in Content \cup {Null} /\ disk[x].temp \in Content \cup {Null}
         /\ disk[x].meta \in Content \cup {Null} /\ disk[x].tempMeta \in Content \cup {Null}
  BY DEF TypeOK, Entry

LEMMA OpenedType ==
  ASSUME TypeOK, NEW x \in Paths
  PROVE  Opened(x) \in Content
  BY OnDisk, ContentType DEF Opened, Exists

LEMMA LocatingStep ==
  ASSUME IInv, NEW p \in Procs, Locating(p)
  PROVE  IInv'
<1>0. TypeOK /\ ops[p] \in Op
  BY DEF IInv, TypeOK
<1>1. ASSUME NEW w \in Where, Locate(p, "init", w, InitPath(w)) \/ Locate(p, "use", w, UsePath(w))
      PROVE  IInv'
  <2>1. PICK does \in {"init", "use"}, path \in {InitPath(w), UsePath(w)} : Locate(p, does, w, path)
    BY <1>1
  <2>2. path \in Paths
    BY <2>1 DEF Locate
  <2>3. w.cwd \in Dirs
    BY DEF Where
  <2> DEFINE op == [does |-> does, from |-> IF does = "init" /\ w = At(w.cwd) THEN w.cwd ELSE Null,
                    path |-> path, stale |-> FALSE]
  <2>4. op \in Op /\ op.does # "export"
    BY <2>2, <2>3 DEF Op, LocateOp
  <2>5. TypeOK' /\ \A q \in Procs : Exports(q)' => ops'[q] = ops[q]
    BY <1>0, <2>1, <2>4 DEF Locate, TypeOK, Exports
  <2> QED BY <2>1, <2>5, QuietStep DEF Locate
<1>2. CASE Create(p)
  <2>1. ops[p].path \in Paths /\ ops[p].does # "export"
    BY <1>0, <1>2, OpKinds DEF Create, LocateOp
  <2>2. [disk[ops[p].path] EXCEPT !.file = Opened(ops[p].path)] \in Entry
    BY <1>0, <2>1, OnDisk, OpenedType, EntryKept
  <2> QED BY <1>0, <1>2, <2>1, <2>2, PathStep DEF Create
<1>3. CASE Migrate(p)
  <2>1. ops[p].path \in Paths
    BY <1>0, <1>3, OpKinds DEF Migrate, LocateOp
  <2>2. [disk[ops[p].path] EXCEPT !.file = Migrated(@)] \in Entry
    <3>1. disk[ops[p].path].file \in Content
      BY <1>0, <1>3, <2>1, OnDisk DEF Migrate, Exists
    <3> QED BY <1>0, <2>1, <3>1, OnDisk, EntryKept, ContentType
  <2> QED BY <1>0, <1>3, <2>1, <2>2, IdleType, PathStep DEF Migrate
<1>4. ASSUME NEW written \in {0, 1}, Use(p, written)
      PROVE  IInv'
  <2>1. ops[p].path \in Paths
    BY <1>0, <1>4, OpKinds DEF Use, LocateOp
  <2> DEFINE content == Opened(ops[p].path)
  <2>3. [disk[ops[p].path] EXCEPT !.file = [Migrated(content) EXCEPT !.rows = @ + written]] \in Entry
    <3>1. content \in Content
      BY <1>0, <2>1, OpenedType
    <3>2. [Migrated(content) EXCEPT !.rows = @ + written] \in Content
      BY <1>4, <3>1, ContentType DEF Use
    <3> QED BY <1>0, <2>1, <3>2, OnDisk, EntryKept
  <2> QED BY <1>0, <1>4, <2>1, <2>3, IdleType, PathStep DEF Use
<1>5. CASE Consult(p)
  <2>1. ops[p].path \in Paths
    BY <1>0, <1>5, OpKinds DEF Consult, LocateOp
  <2>2. disk[ops[p].path] \in Entry /\ disk' = [disk EXCEPT ![ops[p].path] = disk[ops[p].path]]
    BY <1>0, <1>5, <2>1, OnDisk DEF Consult, TypeOK
  <2> QED BY <1>5, <2>1, <2>2, IdleType, PathStep DEF Consult
<1> QED BY <1>1, <1>2, <1>3, <1>4, <1>5 DEF Locating

(* A step of an export to s, which leaves op.                              *)
LEMMA ExportStep ==
  ASSUME IInv, NEW p \in Procs, NEW op \in Op, NEW s \in Snapshots, NEW e \in Entry,
         Commit(p, op), Joins(p, op),
         (Exports(p) /\ s = ops[p].to) \/ (op.does = "export" /\ s = op.to),
         disk' = [disk EXCEPT ![s] = e], UNCHANGED <<follows, config>>,
         torn' \in [Snapshots -> SUBSET Reasons],
         \A r \in Snapshots : r # s => torn'[r] = torn[r],
         op.does = "export" /\ ~op.moved /\ ~op.beside => Follows(disk', op),
         e.file # Null /\ e.meta # Null /\ e.meta # e.file => torn'[s] # {}
  PROVE  IInv'
<1>1. Touches(p, op, s)
  BY DEF Touches
<1>2. /\ disk' \in [Paths \cup Snapshots -> Entry] /\ disk'[s] = e
      /\ \A y \in Paths \cup Snapshots : y # s => disk'[y] = disk[y]
  BY DEF IInv, TypeOK
<1>3. Tells(s)'
  BY <1>2 DEF Tells
<1> QED BY <1>1, <1>2, <1>3, StepKeeps

LEMMA EntryParts ==
  ASSUME NEW e \in Entry
  PROVE  /\ \A metadata :
              /\ ClearedFor(metadata, e) \in Entry
              /\ ClearedFor(metadata, e).file = e.file /\ ClearedFor(metadata, e).meta = e.meta
         /\ Unlinked(e) \in Entry /\ Unlinked(e).file = e.file /\ Unlinked(e).meta = e.meta
         /\ Placed(e) \in Entry /\ Placed(e).file = e.temp /\ Placed(e).tempMeta = e.tempMeta
         /\ Described(e) \in Entry /\ Described(e).meta = e.tempMeta /\ Described(e).file = e.file
  BY DEF Entry, ClearedFor, Unlinked, Placed, Described

LEMMA EntryWith ==
  ASSUME NEW e \in Entry, NEW c \in Content \cup {Null}
  PROVE  /\ WithMetadata(e, c) \in Entry
         /\ WithMetadata(e, c).file = e.file /\ WithMetadata(e, c).meta = e.meta
         /\ WithMetadata(e, c).temp = e.temp /\ WithMetadata(e, c).tempMeta = c
         /\ [e EXCEPT !.temp = c] \in Entry
         /\ [e EXCEPT !.temp = c].file = e.file /\ [e EXCEPT !.temp = c].meta = e.meta
         /\ [e EXCEPT !.temp = c].temp = c
  BY DEF Entry, WithMetadata

LEMMA Advanced ==
  ASSUME NEW op \in ExportOp, NEW phase \in {"cleared", "copied", "counted", "placed"}
  PROVE  LET next == [op EXCEPT !.phase = phase] IN
         /\ next \in Op /\ next \in ExportOp /\ next.phase = phase /\ next.does = "export"
         /\ next.from = op.from /\ next.to = op.to /\ next.metadata = op.metadata
         /\ next.moved = op.moved /\ next.beside = op.beside
  BY DEF ExportOp, Op

(* What is known of an export that is under way.                           *)
LEMMA Underway ==
  ASSUME IInv, NEW p \in Procs, Exports(p)
  PROVE  /\ ops[p] \in ExportOp
         /\ ops[p].from \in Paths /\ ops[p].to \in Snapshots /\ ops[p].from # ops[p].to
         /\ disk[ops[p].to] \in Entry
         /\ disk[ops[p].from].file \in Content \cup {Null}
         /\ \A op : op.to = ops[p].to /\ op.beside = ops[p].beside => Joins(p, op)
         /\ Tells(ops[p].to)
<1>1. /\ ops[p] \in ExportOp
      /\ ops[p].from \in Paths /\ ops[p].to \in Snapshots /\ ops[p].from # ops[p].to
  BY OpKinds, PathAssumption DEF IInv, TypeOK, Exports, ExportOp
<1>2. disk[ops[p].to] \in Entry /\ disk[ops[p].from].file \in Content \cup {Null}
  BY <1>1, OnDisk DEF IInv
<1>3. \A op : op.to = ops[p].to /\ op.beside = ops[p].beside => Joins(p, op)
  BY DEF IInv, ExportersKnow, Joins
<1>4. Tells(ops[p].to)
  BY <1>1 DEF IInv, MetadataDescribeSnapshot, Tells
<1> QED BY <1>1, <1>2, <1>3, <1>4

LEMMA StartStep ==
  ASSUME IInv, NEW p \in Procs, NEW s \in Snapshots, NEW replace \in BOOLEAN, NEW metadata \in BOOLEAN,
         ExportStart(p, Ledger[1], s, replace, metadata)
  PROVE  IInv'
<1> DEFINE op == [does |-> "export", phase |-> "cleared", from |-> Ledger[1], to |-> s,
                  metadata |-> metadata, moved |-> FALSE,
                  beside |-> \E q \in Procs : ops[q].does = "export" /\ ops[q].to = s]
           e == ClearedFor(metadata, disk[s])
<1>1. op \in Op
  <2>1. op.beside \in BOOLEAN
    OBVIOUS
  <2>2. Ledger[1] \in Paths
    BY PathAssumption DEF Paths, Dirs
  <2> QED BY <2>2 DEF Op, ExportOp
<1>2. e \in Entry /\ e.file = disk[s].file /\ e.meta = disk[s].meta
  BY OnDisk, EntryParts DEF IInv
<1>3. Joins(p, op)
  BY DEF Joins, Exports
<1>4. Commit(p, op) /\ disk' = [disk EXCEPT ![s] = e] /\ UNCHANGED <<follows, config, torn>>
  BY DEF ExportStart
<1>5. Follows(disk', op)
  BY DEF Follows
<1>6. torn' \in [Snapshots -> SUBSET Reasons] /\ torn'[s] = torn[s]
  BY <1>4 DEF IInv, TypeOK
<1>7. e.file # Null /\ e.meta # Null /\ e.meta # e.file => torn'[s] # {}
  BY <1>2, <1>6 DEF IInv, MetadataDescribeSnapshot
<1> QED BY <1>1, <1>2, <1>3, <1>4, <1>5, <1>6, <1>7, ExportStep

LEMMA BackupStep ==
  ASSUME IInv, NEW p \in Procs, Backup(p)
  PROVE  IInv'
<1> DEFINE op == [ops[p] EXCEPT !.phase = "copied"]
           s == ops[p].to
           e == [disk[s] EXCEPT !.temp = disk[ops[p].from].file]
<1>1. Exports(p)
  BY DEF Backup, Exporting, Exports
<1>2. ops[p] \in ExportOp /\ s \in Snapshots /\ ops[p].from \in Paths /\ ops[p].from # s
  BY <1>1, Underway
<1>3. /\ op \in Op /\ op.phase = "copied"
      /\ op.from = ops[p].from /\ op.to = s /\ op.beside = ops[p].beside
  BY <1>2, Advanced
<1>4. /\ e \in Entry /\ e.temp = disk[ops[p].from].file
      /\ e.file = disk[s].file /\ e.meta = disk[s].meta
  BY <1>1, Underway, EntryWith
<1>5. Joins(p, op)
  BY <1>1, <1>3, Underway
<1>6. Commit(p, op) /\ disk' = [disk EXCEPT ![s] = e] /\ UNCHANGED <<follows, config, torn>>
  BY DEF Backup
<1>7. Follows(disk', op)
  <2>1. disk'[s].temp = e.temp /\ disk'[ops[p].from] = disk[ops[p].from]
    BY <1>2, <1>6 DEF IInv, TypeOK
  <2> QED BY <1>3, <1>4, <2>1 DEF Follows
<1>8. torn' \in [Snapshots -> SUBSET Reasons] /\ torn'[s] = torn[s]
  BY <1>6 DEF IInv, TypeOK
<1>9. e.file # Null /\ e.meta # Null /\ e.meta # e.file => torn'[s] # {}
  BY <1>1, <1>4, <1>8, Underway DEF Tells
<1> QED BY <1>1, <1>2, <1>3, <1>4, <1>5, <1>6, <1>7, <1>8, <1>9, ExportStep

LEMMA DescribeStep ==
  ASSUME IInv, NEW p \in Procs, Describe(p)
  PROVE  IInv'
<1> DEFINE op == [ops[p] EXCEPT !.phase = "counted"]
           s == ops[p].to
           e == IF ops[p].metadata THEN WithMetadata(disk[s], disk[ops[p].from].file) ELSE disk[s]
<1>1. Exports(p) /\ ops[p].phase = "copied"
  BY DEF Describe, Exporting, Exports
<1>2. ops[p] \in ExportOp /\ s \in Snapshots /\ ops[p].from \in Paths /\ ops[p].from # s
  BY <1>1, Underway
<1>3. /\ op \in Op /\ op.phase = "counted" /\ op.to = s /\ op.metadata = ops[p].metadata
      /\ op.moved = ops[p].moved /\ op.beside = ops[p].beside
  BY <1>2, Advanced
<1>4. /\ e \in Entry /\ e.file = disk[s].file /\ e.meta = disk[s].meta /\ e.temp = disk[s].temp
      /\ ops[p].metadata => e.tempMeta = disk[ops[p].from].file
  <2>1. disk[s] \in Entry /\ disk[ops[p].from].file \in Content \cup {Null}
    BY <1>1, Underway
  <2>2. CASE ops[p].metadata
    <3>1. e = WithMetadata(disk[s], disk[ops[p].from].file)
      BY <2>2
    <3> QED BY <2>1, <3>1, EntryWith
  <2>3. CASE ~ops[p].metadata
    <3>1. e = disk[s]
      BY <2>3
    <3> QED BY <2>1, <2>3, <3>1
  <2> QED BY <2>2, <2>3
<1>5. Joins(p, op)
  BY <1>1, <1>3, Underway
<1>6. Commit(p, op) /\ UNCHANGED <<follows, config, torn>>
  BY DEF Describe
<1>7. disk' = [disk EXCEPT ![s] = e] /\ disk'[s] = e
  BY <1>2 DEF Describe, IInv, TypeOK
<1>8. op.does = "export" /\ ~op.moved /\ ~op.beside => Follows(disk', op)
  <2> SUFFICES ASSUME ~ops[p].moved, ~ops[p].beside, ops[p].metadata
               PROVE  e.tempMeta = e.temp
    BY <1>3, <1>7 DEF Follows
  <2>1. disk[s].temp = disk[ops[p].from].file
    BY <1>1 DEF IInv, CopiesFollow, Undisturbed, Follows
  <2> QED BY <1>4, <2>1
<1>9. torn' \in [Snapshots -> SUBSET Reasons] /\ torn'[s] = torn[s]
  BY <1>6 DEF IInv, TypeOK
<1>10. e.file # Null /\ e.meta # Null /\ e.meta # e.file => torn'[s] # {}
  BY <1>1, <1>4, <1>9, Underway DEF Tells
<1> QED BY <1>1, <1>2, <1>3, <1>4, <1>5, <1>6, <1>7, <1>8, <1>9, <1>10, ExportStep

LEMMA PlaceSnapshotStep ==
  ASSUME IInv, NEW p \in Procs, PlaceSnapshot(p)
  PROVE  IInv'
<1> DEFINE op == IF ops[p].metadata THEN [ops[p] EXCEPT !.phase = "placed"] ELSE Idle
           s == ops[p].to
           e == Placed(disk[s])
<1>1. Exports(p) /\ ops[p].phase = "counted"
  BY DEF PlaceSnapshot, Exporting, Exports
<1>2. ops[p] \in ExportOp /\ s \in Snapshots
  BY <1>1, Underway
<1>3. /\ op \in Op
      /\ op.does = "export" =>
           /\ ops[p].metadata /\ op.phase = "placed" /\ op.to = s
           /\ op.moved = ops[p].moved /\ op.beside = ops[p].beside
  BY <1>2, Advanced, IdleType
<1>4. e \in Entry /\ e.file = disk[s].temp /\ e.tempMeta = disk[s].tempMeta
  BY <1>1, Underway, EntryParts
<1>5. Joins(p, op)
  BY <1>1, <1>3, Underway DEF Joins
<1>6. Commit(p, op) /\ UNCHANGED <<follows, config>>
  BY DEF PlaceSnapshot
<1>7. disk' = [disk EXCEPT ![s] = e] /\ disk'[s] = e
  BY <1>2 DEF PlaceSnapshot, IInv, TypeOK
<1>8. op.does = "export" /\ ~op.moved /\ ~op.beside => Follows(disk', op)
  <2> SUFFICES ASSUME op.does = "export", ~ops[p].moved, ~ops[p].beside
               PROVE  e.tempMeta = e.file
    BY <1>3, <1>7 DEF Follows
  <2>1. disk[s].tempMeta = disk[s].temp
    BY <1>1, <1>3 DEF IInv, CopiesFollow, Undisturbed, Follows
  <2> QED BY <1>4, <2>1
<1>9. /\ torn' \in [Snapshots -> SUBSET Reasons] /\ torn'[s] # {}
      /\ \A r \in Snapshots : r # s => torn'[r] = torn[r]
  BY <1>2 DEF PlaceSnapshot, IInv, TypeOK, Reasons
<1> QED BY <1>1, <1>2, <1>3, <1>4, <1>5, <1>6, <1>7, <1>8, <1>9, ExportStep

LEMMA PlaceMetadataStep ==
  ASSUME IInv, NEW p \in Procs, PlaceMetadata(p)
  PROVE  IInv'
<1> DEFINE s == ops[p].to
           e == Described(disk[s])
<1>1. Exports(p) /\ ops[p].phase = "placed"
  BY DEF PlaceMetadata, Exporting, Exports
<1>2. ops[p] \in ExportOp /\ s \in Snapshots
  BY <1>1, Underway
<1>3. e \in Entry /\ e.meta = disk[s].tempMeta /\ e.file = disk[s].file
  BY <1>1, Underway, EntryParts
<1>4. Commit(p, Idle) /\ UNCHANGED <<follows, config>> /\ disk' = [disk EXCEPT ![s] = e]
  BY DEF PlaceMetadata
<1>5. /\ torn' \in [Snapshots -> SUBSET Reasons]
      /\ \A r \in Snapshots : r # s => torn'[r] = torn[r]
      /\ ops[p].moved \/ ops[p].beside => torn'[s] # {}
  BY <1>2 DEF PlaceMetadata, IInv, TypeOK, Reasons
<1>6. e.file # Null /\ e.meta # Null /\ e.meta # e.file => torn'[s] # {}
  <2>1. CASE ops[p].moved \/ ops[p].beside
    BY <2>1, <1>5
  <2>2. CASE ~ops[p].moved /\ ~ops[p].beside
    BY <2>2, <1>1, <1>3 DEF IInv, CopiesFollow, Undisturbed, Follows
  <2> QED BY <2>1, <2>2
<1>7. Joins(p, Idle)
  BY IdleType DEF Joins
<1> QED BY <1>1, <1>2, <1>3, <1>4, <1>5, <1>6, <1>7, IdleType, ExportStep

LEMMA FailStep ==
  ASSUME IInv, NEW p \in Procs, Fail(p)
  PROVE  IInv'
<1>1. CASE Exports(p)
  <2> DEFINE s == ops[p].to
             e == IF ops[p].metadata THEN Unlinked(disk[s]) ELSE [disk[s] EXCEPT !.temp = Null]
  <2>1. s \in Snapshots /\ e \in Entry /\ e.file = disk[s].file /\ e.meta = disk[s].meta
    <3>1. s \in Snapshots /\ disk[s] \in Entry /\ Null \in Content \cup {Null}
      BY <1>1, Underway
    <3>2. CASE ops[p].metadata
      <4>1. e = Unlinked(disk[s])
        BY <3>2
      <4> QED BY <3>1, <4>1, EntryParts
    <3>3. CASE ~ops[p].metadata
      <4>1. e = [disk[s] EXCEPT !.temp = Null]
        BY <3>3
      <4> HIDE DEF e
      <4> QED BY <3>1, <4>1 DEF Entry
    <3> QED BY <3>1, <3>2, <3>3
  <2>2. Commit(p, Idle) /\ UNCHANGED <<follows, config, torn>>
    BY DEF Fail
  <2>3. disk' = [disk EXCEPT ![s] = e]
    BY <1>1 DEF Fail, Exports
  <2>4. torn' \in [Snapshots -> SUBSET Reasons] /\ torn'[s] = torn[s]
    BY <2>2 DEF IInv, TypeOK
  <2>5. e.file # Null /\ e.meta # Null /\ e.meta # e.file => torn'[s] # {}
    BY <1>1, <2>1, <2>4, Underway DEF Tells
  <2>6. Joins(p, Idle)
    BY IdleType DEF Joins
  <2> QED BY <1>1, <2>1, <2>2, <2>3, <2>4, <2>5, <2>6, IdleType, ExportStep
<1>2. CASE ~Exports(p)
  <2> DEFINE x == ops[p].to
             e == [disk[x] EXCEPT !.temp = Null]
  <2>1. x \in Paths
    BY <1>2, OpKinds DEF Fail, Exports, IInv, TypeOK, ImportOp
  <2>2. e \in Entry
    BY <2>1, OnDisk, EntryWith DEF IInv
  <2>3. disk' = [disk EXCEPT ![x] = e] /\ Commit(p, Idle) /\ UNCHANGED <<follows, config, torn>>
    BY <1>2 DEF Fail, Exports
  <2> QED BY <2>1, <2>2, <2>3, IdleType, PathStep
<1> QED BY <1>1, <1>2

LEMMA ImportSteps ==
  ASSUME IInv, NEW p \in Procs,
         \/ \E s \in Snapshots, replace \in BOOLEAN : ImportStart(p, s, Ledger[1], replace)
         \/ Copy(p) \/ PlaceImport(p)
  PROVE  IInv'
<1>0. TypeOK /\ ops[p] \in Op /\ Ledger[1] \in Paths
  BY PathAssumption DEF IInv, TypeOK, Paths, Dirs
<1>1. ASSUME NEW s \in Snapshots, NEW replace \in BOOLEAN, ImportStart(p, s, Ledger[1], replace)
      PROVE  IInv'
  <2> DEFINE op == [does |-> "import", phase |-> "cleared", from |-> s, to |-> Ledger[1]]
             e == [disk[Ledger[1]] EXCEPT !.temp = Null]
  <2>1. op \in Op /\ op.does # "export"
    BY <1>0 DEF Op, ImportOp
  <2>2. e \in Entry
    BY <1>0, OnDisk, EntryWith
  <2> QED BY <1>0, <1>1, <2>1, <2>2, PathStep DEF ImportStart
<1>2. CASE Copy(p)
  <2> DEFINE op == [ops[p] EXCEPT !.phase = "copied"]
             e == [disk[ops[p].to] EXCEPT !.temp = Migrated(disk[ops[p].from].file)]
  <2>1. ops[p] \in ImportOp
    BY <1>0, <1>2, OpKinds DEF Copy, Importing
  <2>2. ops[p].to \in Paths /\ op \in Op /\ op.does # "export"
    BY <2>1 DEF Op, ImportOp
  <2>3. disk[ops[p].from].file \in Content
    BY <1>0, <1>2, <2>1, OnDisk DEF Copy, Exists, ImportOp
  <2>4. e \in Entry
    BY <1>0, <2>2, <2>3, OnDisk, EntryWith, ContentType
  <2> QED BY <1>2, <2>2, <2>4, PathStep DEF Copy
<1>3. CASE PlaceImport(p)
  <2>1. ops[p].to \in Paths
    BY <1>0, <1>3, OpKinds DEF PlaceImport, Importing, ImportOp
  <2>2. Placed(disk[ops[p].to]) \in Entry
    BY <1>0, <2>1, OnDisk, EntryParts
  <2> QED BY <1>3, <2>1, <2>2, IdleType, PathStep DEF PlaceImport
<1> QED BY <1>1, <1>2, <1>3

LEMMA OtherSteps ==
  ASSUME IInv,
         \/ \E p \in Procs : Die(p)
         \/ \E d \in Dirs, path \in Others \cup {Null} : Configure(d, path)
  PROVE  IInv'
<1>1. ASSUME NEW p \in Procs, Die(p)
      PROVE  IInv'
  <2>1. TypeOK'
    BY <1>1, IdleType DEF Die, IInv, TypeOK
  <2>2. \A q \in Procs : Exports(q)' => ops'[q] = ops[q]
    BY <1>1, IdleType DEF Die, IInv, TypeOK, Exports
  <2> QED BY <1>1, <2>1, <2>2, QuietStep DEF Die
<1>2. ASSUME NEW d \in Dirs, NEW path \in Others \cup {Null}, Configure(d, path)
      PROVE  IInv'
  <2>1. \A q \in Procs : ops'[q] = Stale(ops[q]) /\ ops[q] \in Op
    BY <1>2 DEF Configure, IInv, TypeOK
  <2>2. TypeOK'
    BY <1>2, <2>1, StaleType DEF Configure, IInv, TypeOK, Paths
  <2>3. \A q \in Procs : Exports(q)' => ops'[q] = ops[q]
    BY <2>1, StaleType DEF Exports
  <2> QED BY <1>2, <2>2, <2>3, QuietStep DEF Configure
<1> QED BY <1>1, <1>2

LEMMA StepSound == IInv /\ [Next]_vars => IInv'
<1> SUFFICES ASSUME IInv, [Next]_vars PROVE IInv'
  OBVIOUS
<1>1. ASSUME NEW p \in Procs, Locating(p)
      PROVE  IInv'
  BY <1>1, LocatingStep
<1>2. ASSUME NEW p \in Procs, Copying(p)
      PROVE  IInv'
  BY <1>2, StartStep, BackupStep, DescribeStep, PlaceSnapshotStep, PlaceMetadataStep,
     FailStep, ImportSteps DEF Copying
<1>3. CASE \/ \E p \in Procs : Die(p)
           \/ \E d \in Dirs, path \in Others \cup {Null} : Configure(d, path)
  BY <1>3, OtherSteps
<1>4. CASE UNCHANGED vars
  BY <1>4, QuietStep DEF vars, IInv, TypeOK
<1> QED BY <1>1, <1>2, <1>3, <1>4 DEF Next

THEOREM Invariance == Spec => []IInv
  BY InitSound, StepSound, PTL DEF Spec

(* Files, configurations, commands and the reasons noted keep their types. *)
THEOREM TypeCorrect == Spec => []TypeOK
  BY Invariance, PTL DEF IInv

(* Metadata describe the snapshot beside them, but for the named reasons.  *)
THEOREM SnapshotsDescribed == Spec => []MetadataDescribeSnapshot
  BY Invariance, PTL DEF IInv

-----------------------------------------------------------------------------
(* The nearest directory.                                                  *)
LEMMA Nearest ==
  ASSUME NEW S, S \subseteq Dirs, S # {}
  PROVE  Max(S) \in S /\ \A e \in S : Max(S) >= e
<1>1. IsWellFoundedOn(OpToRel(<, Nat), Nat)
  BY NatLessThanWellFounded
<1> DEFINE Deep == {n \in Nat : Depth - n \in S}
<1>0. Depth \in Nat /\ \A e \in S : e \in Nat /\ Depth - e \in Nat /\ Depth - (Depth - e) = e
  BY PathAssumption DEF Dirs
<1>2. Deep \subseteq Nat /\ Deep # {} /\ \A e \in S : Depth - e \in Deep
  BY <1>0
<1>3. PICK n \in Deep : \A k \in Deep : ~ (<<k, n>> \in OpToRel(<, Nat))
  <2> HIDE DEF OpToRel, Deep
  <2> QED BY <1>1, <1>2, WFMin
<1>4. \A k \in Deep : ~(k < n)
  <2> HIDE DEF Deep
  <2> QED BY <1>2, <1>3 DEF OpToRel
<1>5. \E x \in S : \A y \in S : x >= y
  <2>1. Depth - n \in S /\ n \in Nat
    BY <1>3
  <2>2. ASSUME NEW y \in S PROVE Depth - n >= y
    <3>1. ~(Depth - y < n)
      BY <1>2, <1>4
    <3> QED
      BY <1>0, <2>1, <3>1
  <2> QED
    BY <2>1, <2>2
<1> QED
  BY <1>5 DEF Max

(* What an init that is told of no path has found out, unless something    *)
(* has changed since.                                                      *)
LocatedWell(op) ==
  op.does = "init" /\ ~op.stale /\ op.from # Null =>
    Exists(op.path) \/ op.path = InitPath(At(op.from))

LookInv == \A p \in Procs : LocatedWell(ops[p])

SameFiles == disk' = disk /\ config' = config

(* Without a change of files or configurations, paths are found as before. *)
LEMMA SamePaths ==
  ASSUME SameFiles
  PROVE  /\ \A path : Exists(path)' <=> Exists(path)
         /\ \A d : InitPath(At(d))' = InitPath(At(d)) /\ Resolved(At(d))' = Resolved(At(d))
<1>0. disk' = disk /\ config' = config
  BY DEF SameFiles
<1>1. \A path : Exists(path)' <=> Exists(path)
  BY <1>0 DEF Exists
<1>2. \A w : Resolved(w)' = Resolved(w)
  BY <1>0 DEF Resolved, Configured, Walked, Above, Exists
<1>3. \A d : InitPath(At(d))' = InitPath(At(d))
  BY <1>0, <1>2 DEF InitPath, WouldInitAt, GitRoot, Above
<1> QED
  BY <1>1, <1>2, <1>3

(* A commit makes the others stale.                                        *)
LEMMA CommitLook ==
  ASSUME IInv, LookInv, NEW p \in Procs, NEW op \in Op, Commit(p, op),
         LocatedWell(op)'
  PROVE  LookInv'
<1> SUFFICES ASSUME NEW q \in Procs PROVE LocatedWell(ops[q])'
  BY DEF LookInv
<1>1. CASE q = p
  <2>1. ops'[p] = op
    BY DEF Commit
  <2> QED
    BY <1>1, <2>1 DEF LocatedWell
<1>2. CASE q # p /\ ops[q].does # "export"
  <2>1. ops'[q] = Stale(ops[q]) /\ ops[q] \in Op
    BY <1>2 DEF Commit, IInv, TypeOK
  <2>2. ops'[q].does = "init" => ops[q] \in LocateOp /\ ops[q].does = "init"
    BY <2>1, StaleType, OpKinds
  <2>3. ops'[q].does = "init" => ops'[q].stale
    BY <2>1, <2>2 DEF Stale, LocateOp
  <2> QED
    BY <2>3 DEF LocatedWell
<1>3. CASE q # p /\ ops[q].does = "export"
  <2>1. ops'[q].does = "export"
    BY <1>3, Committed DEF IInv
  <2> QED
    BY <2>1 DEF LocatedWell
<1> QED
  BY <1>1, <1>2, <1>3

(* So does a change of a configuration; and other steps touch no file.     *)
LEMMA QuietLook ==
  ASSUME IInv, LookInv, SameFiles,
         NEW p \in Procs, NEW op, ops' = [ops EXCEPT ![p] = op], LocatedWell(op)'
  PROVE  LookInv'
<1> SUFFICES ASSUME NEW q \in Procs PROVE LocatedWell(ops[q])'
  BY DEF LookInv
<1>1. ops'[p] = op /\ (q # p => ops'[q] = ops[q])
  BY DEF IInv, TypeOK
<1>2. CASE q # p
  <2>1. LocatedWell(ops[q])
    BY DEF LookInv
  <2> QED
    BY <1>1, <1>2, <2>1, SamePaths DEF LocatedWell
<1> QED
  BY <1>1, <1>2 DEF LocatedWell

(* A command that locates its ledger, and an init that creates it.         *)
LEMMA LocateLook ==
  ASSUME IInv, LookInv, NEW p \in Procs, NEW w \in Where,
         Locate(p, "init", w, InitPath(w)) \/ Locate(p, "use", w, UsePath(w))
  PROVE  LookInv'
<1>1. SameFiles
  BY DEF Locate, SameFiles
<1>2. CASE Locate(p, "use", w, UsePath(w))
  <2>1. PICK op : op = [does |-> "use", from |-> Null, path |-> UsePath(w), stale |-> FALSE]
    OBVIOUS
  <2>2. ops' = [ops EXCEPT ![p] = op] /\ op.does # "init"
    BY <1>2, <2>1 DEF Locate
  <2>3. LocatedWell(op)'
    BY <2>2 DEF LocatedWell
  <2> QED
    BY <1>1, <2>2, <2>3, QuietLook
<1>3. CASE Locate(p, "init", w, InitPath(w))
  <2>1. PICK op : op = [does |-> "init", from |-> IF w = At(w.cwd) THEN w.cwd ELSE Null,
                        path |-> InitPath(w), stale |-> FALSE]
    OBVIOUS
  <2>2. ops' = [ops EXCEPT ![p] = op]
    BY <1>3, <2>1 DEF Locate
  <2>3. op.from # Null => op.path = InitPath(At(op.from))
    BY <2>1
  <2>4. LocatedWell(op)'
    BY <1>1, <2>3, SamePaths DEF LocatedWell
  <2> QED
    BY <1>1, <2>2, <2>4, QuietLook
<1> QED
  BY <1>2, <1>3

LEMMA CreateLook ==
  ASSUME IInv, LookInv, NEW p \in Procs, Create(p)
  PROVE  LookInv'
<1>1. ops[p] \in Op /\ ops[p] \in LocateOp /\ disk \in [Paths \cup Snapshots -> Entry]
  BY OpKinds DEF IInv, TypeOK, Create
<1>2. PICK path \in Paths : path = ops[p].path
  BY <1>1 DEF LocateOp
<1>3. disk'[path].file = Opened(path) /\ Opened(path) # Null
  <2>1. Opened(path) \in Content
    BY <1>1, <1>2, OpenedType DEF IInv
  <2>2. disk[path] \in Entry
    BY <1>1
  <2>3. disk'[path] = [disk[path] EXCEPT !.file = Opened(path)]
    BY <1>1, <1>2 DEF Create
  <2> QED
    BY <2>1, <2>2, <2>3, NullAssumption DEF Entry
<1>4. LocatedWell(ops[p])'
  <2>1. ops'[p] = ops[p]
    BY DEF Create, Commit
  <2> QED
    BY <1>2, <1>3, <2>1 DEF LocatedWell, Exists
<1> QED
  BY <1>1, <1>4, CommitLook DEF Create, Commit, LocatedWell

(* The other steps commit, and touch one file at most.                     *)
OneFile == \E f : \A g \in Paths \cup Snapshots : g # f => disk'[g] = disk[g]

Commits(p) ==
  \/ Migrate(p) \/ (\E written \in {0, 1} : Use(p, written)) \/ Consult(p)
  \/ \E s \in Snapshots, replace \in BOOLEAN :
       \/ \E metadata \in BOOLEAN : ExportStart(p, Ledger[1], s, replace, metadata)
       \/ ImportStart(p, s, Ledger[1], replace)
  \/ Backup(p) \/ Describe(p) \/ PlaceSnapshot(p) \/ PlaceMetadata(p)
  \/ Copy(p) \/ PlaceImport(p) \/ Fail(p)

(* None of them goes on as an init.                                        *)
LEMMA CommitsOther ==
  ASSUME IInv, NEW p \in Procs, Commits(p)
  PROVE  \E op \in Op : Commit(p, op) /\ op.does # "init"
<1>1. Idle \in Op /\ Idle.does # "init"
  BY IdleType
<1>2. CASE \/ Migrate(p) \/ (\E written \in {0, 1} : Use(p, written)) \/ Consult(p)
           \/ PlaceMetadata(p) \/ PlaceImport(p) \/ Fail(p)
  BY <1>1, <1>2 DEF Migrate, Use, Consult, PlaceMetadata, PlaceImport, Fail
<1>3. ASSUME NEW phase \in {"copied", "counted", "placed"}, Commit(p, [ops[p] EXCEPT !.phase = phase]),
             Exports(p) \/ (ops[p].does = "import" /\ phase = "copied")
      PROVE  \E op \in Op : Commit(p, op) /\ op.does # "init"
  <2>1. PICK op : op = [ops[p] EXCEPT !.phase = phase]
    OBVIOUS
  <2>2. ops[p] \in Op
    BY DEF IInv, TypeOK
  <2>3. op \in Op /\ op.does = ops[p].does
    <3>1. CASE Exports(p)
      <4>1. ops[p] \in ExportOp
        BY <2>2, <3>1, OpKinds DEF Exports
      <4>2. op \in ExportOp /\ op.does = ops[p].does
        BY <2>1, <4>1 DEF ExportOp
      <4> QED
        BY <4>2 DEF Op
    <3>2. CASE ~Exports(p)
      <4>1. ops[p] \in ImportOp /\ phase = "copied"
        BY <1>3, <2>2, <3>2, OpKinds
      <4>2. op \in ImportOp /\ op.does = ops[p].does
        BY <2>1, <4>1 DEF ImportOp
      <4> QED
        BY <4>2 DEF Op
    <3> QED
      BY <3>1, <3>2
  <2> QED
    BY <1>3, <2>1, <2>3 DEF Exports
<1>4. CASE Backup(p)
  BY <1>3, <1>4 DEF Backup, Exporting, Exports
<1>5. CASE Describe(p)
  BY <1>3, <1>5 DEF Describe, Exporting, Exports
<1>6. CASE PlaceSnapshot(p)
  BY <1>1, <1>3, <1>6 DEF PlaceSnapshot, Exporting, Exports
<1>7. CASE Copy(p)
  BY <1>3, <1>7 DEF Copy, Importing
<1>8. Ledger[1] \in Paths
  BY PathAssumption DEF Paths, Dirs
<1>9. ASSUME NEW s \in Snapshots, NEW replace \in BOOLEAN, NEW metadata \in BOOLEAN,
             ExportStart(p, Ledger[1], s, replace, metadata)
      PROVE  \E op \in Op : Commit(p, op) /\ op.does # "init"
  <2>1. PICK op : op = [does |-> "export", phase |-> "cleared", from |-> Ledger[1], to |-> s,
                        metadata |-> metadata, moved |-> FALSE,
                        beside |-> \E q \in Procs : ops[q].does = "export" /\ ops[q].to = s]
    OBVIOUS
  <2>2. Commit(p, op)
    BY <1>9, <2>1 DEF ExportStart
  <2>3. op \in ExportOp
    BY <1>8, <2>1 DEF ExportOp
  <2> QED
    BY <2>2, <2>3 DEF ExportOp, Op
<1>10. ASSUME NEW s \in Snapshots, NEW replace \in BOOLEAN, ImportStart(p, s, Ledger[1], replace)
       PROVE  \E op \in Op : Commit(p, op) /\ op.does # "init"
  <2>1. PICK op : op = [does |-> "import", phase |-> "cleared", from |-> s, to |-> Ledger[1]]
    OBVIOUS
  <2>2. Commit(p, op)
    BY <1>10, <2>1 DEF ImportStart
  <2>3. op \in ImportOp
    BY <1>8, <2>1 DEF ImportOp
  <2> QED
    BY <2>2, <2>3 DEF ImportOp, Op
<1> QED
  BY <1>2, <1>4, <1>5, <1>6, <1>7, <1>9, <1>10 DEF Commits

LEMMA CommitsOneFile ==
  ASSUME IInv, NEW p \in Procs, Commits(p) \/ Create(p)
  PROVE  OneFile /\ config' = config
<1>0. disk \in [Paths \cup Snapshots -> Entry]
  BY DEF IInv, TypeOK
<1>1. ASSUME NEW f, NEW e, disk' = [disk EXCEPT ![f] = e] PROVE OneFile
  BY <1>0, <1>1 DEF OneFile
<1>2. disk' = disk => OneFile
  BY DEF OneFile
<1>3. CASE Create(p) \/ Migrate(p) \/ (\E written \in {0, 1} : Use(p, written)) \/ Consult(p)
  BY <1>1, <1>2, <1>3 DEF Create, Migrate, Use, Consult
<1>4. CASE Backup(p) \/ Describe(p) \/ PlaceSnapshot(p) \/ PlaceMetadata(p) \/ Copy(p)
           \/ PlaceImport(p) \/ Fail(p)
  BY <1>1, <1>2, <1>4 DEF Backup, Describe, PlaceSnapshot, PlaceMetadata, Copy, PlaceImport, Fail
<1>5. ASSUME NEW s \in Snapshots, NEW replace \in BOOLEAN, NEW metadata \in BOOLEAN,
             ExportStart(p, Ledger[1], s, replace, metadata) \/ ImportStart(p, s, Ledger[1], replace)
      PROVE  OneFile /\ config' = config
  BY <1>1, <1>5 DEF ExportStart, ImportStart
<1> QED
  BY <1>3, <1>4, <1>5 DEF Commits

(* What a step may be.                                                     *)
LEMMA Steps ==
  ASSUME [Next]_vars
  PROVE  \/ UNCHANGED vars
         \/ \E p \in Procs, w \in Where : Locate(p, "init", w, InitPath(w)) \/ Locate(p, "use", w, UsePath(w))
         \/ \E p \in Procs : Create(p) \/ Commits(p) \/ Die(p)
         \/ \E d \in Dirs, path \in Others \cup {Null} : Configure(d, path)
<1>1. ASSUME NEW p \in Procs, Locating(p)
      PROVE  \/ \E w \in Where : Locate(p, "init", w, InitPath(w)) \/ Locate(p, "use", w, UsePath(w))
             \/ Create(p) \/ Commits(p)
  BY <1>1 DEF Locating, Commits
<1>2. ASSUME NEW p \in Procs, Copying(p) PROVE Commits(p)
  BY <1>2 DEF Copying, Commits
<1> QED
  BY <1>1, <1>2 DEF Next

(* Every step keeps what an init has found out, or makes it stale.         *)
LEMMA LookStep ==
  ASSUME IInv, LookInv, [Next]_vars
  PROVE  LookInv'
<1>1. ASSUME NEW p \in Procs, Commits(p) PROVE LookInv'
  <2>1. PICK op \in Op : Commit(p, op) /\ op.does # "init"
    BY <1>1, CommitsOther
  <2>2. LocatedWell(op)'
    BY <2>1 DEF LocatedWell
  <2> QED
    BY <2>1, <2>2, CommitLook
<1>2. ASSUME NEW p \in Procs, Die(p) PROVE LookInv'
  <2>1. PICK op : op = Idle
    OBVIOUS
  <2>2. SameFiles /\ ops' = [ops EXCEPT ![p] = op] /\ LocatedWell(op)'
    BY <1>2, <2>1, IdleType DEF Die, SameFiles, LocatedWell
  <2> QED
    BY <2>2, QuietLook
<1>3. ASSUME NEW d, NEW path, Configure(d, path) PROVE LookInv'
  <2> SUFFICES ASSUME NEW q \in Procs, ops'[q].does = "init" PROVE ops'[q].stale
    BY DEF LookInv, LocatedWell
  <2>1. ops'[q] = Stale(ops[q]) /\ ops[q] \in Op
    BY <1>3 DEF Configure, IInv, TypeOK
  <2>2. ops[q] \in LocateOp /\ ops[q].does = "init"
    BY <2>1, StaleType, OpKinds
  <2> QED
    BY <2>1, <2>2 DEF Stale, LocateOp
<1>4. CASE UNCHANGED vars
  <2>1. SameFiles /\ ops' = ops
    BY <1>4 DEF SameFiles, vars
  <2> QED
    BY <2>1, SamePaths DEF LookInv, LocatedWell
<1> QED
  BY <1>1, <1>2, <1>3, <1>4, Steps, LocateLook, CreateLook

(* What an init that is not stale has found out holds until it creates.    *)
THEOREM Looks == Spec => [](IInv /\ LookInv)
<1>1. Init => LookInv
  BY IdleType DEF Init, LookInv, LocatedWell
<1> QED
  BY <1>1, LookStep, Invariance, PTL DEF Spec

(* Where an init goes that is told of no path, below no .fieldbook, when   *)
(* the file it means to create is not there: to the root of the repository *)
(* it is in, with no ledger above itself.                                  *)
LEMMA InitTarget ==
  ASSUME NEW c \in Dirs, Configured(c) = {}, ~Exists(InitPath(At(c)))
  PROVE  /\ Walked(c) = {}
         /\ GitRoot(c) \in Dirs /\ GitRoot(c) <= c /\ InitPath(At(c)) = Ledger[GitRoot(c)]
<1>0. At(c).flag = Null /\ At(c).env = Null /\ At(c).cwd = c
  BY DEF At
<1>1. Walked(c) = {}
  <2> SUFFICES ASSUME Walked(c) # {} PROVE FALSE
    OBVIOUS
  <2>1. Max(Walked(c)) \in Walked(c)
    BY Nearest DEF Walked, Above
  <2>2. Resolved(At(c)) = Ledger[Max(Walked(c))]
    BY <1>0 DEF Resolved
  <2>3. Exists(Resolved(At(c))) /\ Ledger[Max(Walked(c))] \in Paths
    BY <2>1, <2>2 DEF Walked, Above, Paths
  <2> QED
    BY <2>2, <2>3, NullAssumption DEF InitPath
<1>2. Resolved(At(c)) = Null
  BY <1>0, <1>1 DEF Resolved
<1>3. InitPath(At(c)) = Ledger[GitRoot(c)]
  BY <1>0, <1>2 DEF InitPath, WouldInitAt
<1>4. GitRoot(c) \in Dirs /\ GitRoot(c) <= c
  <2>1. CASE Above(GitRoots, c) = {}
    BY <2>1 DEF GitRoot, Dirs
  <2>2. CASE Above(GitRoots, c) # {}
    <3>1. Max(Above(GitRoots, c)) \in Above(GitRoots, c)
      BY <2>2, Nearest, PathAssumption DEF Above
    <3> QED
      BY <2>2, <3>1, PathAssumption DEF GitRoot, Above
  <2> QED
    BY <2>1, <2>2
<1> QED
  BY <1>1, <1>3, <1>4

(* A ledger that appears above all others of a directory is not the        *)
(* nearest to it.                                                          *)
LEMMA NotNearest ==
  ASSUME NEW c \in Dirs, Walked(c) = {}, NEW g \in Dirs, g <= c, config' = config,
         \A e \in Dirs : e # g => (Exists(Ledger[e])' <=> Exists(Ledger[e])),
         NEW d \in Dirs, Resolution[d] # Null
  PROVE  Resolution'[d] = Resolution[d]
<1>0. /\ Resolution[d] = Resolved(At(d)) /\ Resolution'[d] = Resolved(At(d))'
      /\ At(d).flag = Null /\ At(d).env = Null /\ At(d).cwd = d
  BY DEF Resolution, At
<1>1. Configured(d)' = Configured(d)
  BY DEF Configured, Above
<1>2. CASE Configured(d) # {}
  BY <1>0, <1>1, <1>2 DEF Resolved
<1>3. CASE Configured(d) = {}
  <2>1. Walked(d) # {} /\ Resolved(At(d)) = Ledger[Max(Walked(d))]
    BY <1>0, <1>3 DEF Resolved
  <2>2. PICK m : m = Max(Walked(d))
    OBVIOUS
  <2>3. m \in Walked(d) /\ \A e \in Walked(d) : m >= e
    BY <2>1, <2>2, Nearest DEF Walked, Above
  <2>4. m \in Dirs /\ m > c /\ m <= d
    BY <2>3 DEF Walked, Above, Dirs
  <2>5. m \in Walked(d)' /\ \A e \in Walked(d)' : m >= e
    BY <2>3, <2>4 DEF Walked, Above, Dirs
  <2>6. PICK W : W = Walked(d)'
    OBVIOUS
  <2>7. W \subseteq Dirs /\ m \in W /\ \A e \in W : m >= e
    BY <2>5, <2>6 DEF Walked, Above
  <2>8. Max(W) = m
    <3>1. PICK n : n = Max(W)
      OBVIOUS
    <3>2. n \in W /\ \A e \in W : n >= e
      BY <2>7, <3>1, Nearest
    <3>3. n \in Nat /\ m \in Nat /\ n >= m /\ m >= n
      BY <2>4, <2>7, <3>2, PathAssumption DEF Dirs
    <3> QED
      BY <3>1, <3>3
  <2>9. Resolved(At(d))' = Ledger[m]
    BY <1>0, <1>1, <1>3, <2>6, <2>7, <2>8 DEF Resolved
  <2> QED
    BY <1>0, <2>1, <2>2, <2>9
<1> QED
  BY <1>2, <1>3

(* An init that is told of no path takes no directory's ledger away, for   *)
(* any depth of directories, roots and configurations, and however many    *)
(* commands create, export and import at the same time                     *)
(* (InitShadowsNothing).                                                   *)
THEOREM NothingShadowed == Spec => InitShadowsNothing
<1> DEFINE A == \A p \in Procs :
       /\ ops[p].does = "init" /\ ~ops[p].stale
       /\ ops[p].from # Null /\ Configured(ops[p].from) = {}
       /\ ~Exists(ops[p].path) /\ disk'[ops[p].path].file # Null
       => \A d \in Dirs : Resolution[d] # Null => Resolution'[d] = Resolution[d]
<1>1. ASSUME IInv, LookInv, [Next]_vars PROVE A
  <2> SUFFICES ASSUME NEW p \in Procs,
                      ops[p].does = "init", ~ops[p].stale,
                      ops[p].from # Null, Configured(ops[p].from) = {},
                      ~Exists(ops[p].path), disk'[ops[p].path].file # Null,
                      NEW d \in Dirs, Resolution[d] # Null
               PROVE  Resolution'[d] = Resolution[d]
    OBVIOUS
  <2>1. PICK c, path : c = ops[p].from /\ path = ops[p].path
    OBVIOUS
  <2>2. ops[p] \in LocateOp /\ c \in Dirs /\ path \in Paths /\ path = InitPath(At(c))
    <3>1. ops[p] \in LocateOp
      BY <1>1, OpKinds DEF IInv, TypeOK
    <3>2. LocatedWell(ops[p])
      BY <1>1 DEF LookInv
    <3> QED
      BY <2>1, <3>1, <3>2 DEF LocatedWell, LocateOp
  <2>3. /\ Walked(c) = {} /\ GitRoot(c) \in Dirs /\ GitRoot(c) <= c /\ path = Ledger[GitRoot(c)]
    BY <2>1, <2>2, InitTarget
  <2>4. disk'[path] # disk[path]
    BY <2>1 DEF Exists
  <2>5. OneFile /\ config' = config
    <3>1. disk' # disk
      BY <2>4
    <3>2. \E q \in Procs : Create(q) \/ Commits(q)
      BY <1>1, <3>1, Steps DEF vars, Locate, Die, Configure
    <3> QED
      BY <1>1, <3>2, CommitsOneFile
  <2>6. \A e \in Dirs : e # GitRoot(c) => (Exists(Ledger[e])' <=> Exists(Ledger[e]))
    <3> SUFFICES ASSUME NEW e \in Dirs, e # GitRoot(c) PROVE Exists(Ledger[e])' <=> Exists(Ledger[e])
      OBVIOUS
    <3>1. Ledger[e] # path /\ Ledger[e] \in Paths
      BY <2>3, PathAssumption DEF Paths
    <3>2. disk'[Ledger[e]] = disk[Ledger[e]]
      BY <2>2, <2>4, <2>5, <3>1 DEF OneFile
    <3> QED
      BY <3>2 DEF Exists
  <2> HIDE <2>1
  <2> QED
    BY <2>2, <2>3, <2>5, <2>6, NotNearest
<1>2. IInv /\ LookInv /\ [Next]_vars => [A]_vars
  BY <1>1
<1> QED
  BY <1>2, Looks, PTL DEF Spec, InitShadowsNothing
=============================================================================
