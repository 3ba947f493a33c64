---------------------------- MODULE EvidenceProofs ----------------------------
(***************************************************************************)
(* Proofs about Evidence: its types; that what an erratum replaces is      *)
(* archived; that archived rows rest; that errata stay among the rows of   *)
(* their own experiments; and that an archived experiment is closed to     *)
(* evidence, whatever commands and manifests do at the same time.          *)
(*                                                                         *)
(* And about what evidence is worth later, in Freshness and Review: that a *)
(* validation whose source has changed is reported; that activity stays    *)
(* pending until a review has counted it; that the places that advise a    *)
(* handoff agree; and that a cleanup stays in its plan.                    *)
(***************************************************************************)
EXTENDS Evidence, Review, FiniteSetTheorems, WellFoundedInduction, TLAPS

(* A row, and a table, of the right type.                                  *)
RowOK(u) == u \in Row /\ u.on \in Targets /\ u.key \in RowKeys

Typed(table) ==
  /\ table \in [Ids -> Row \cup {Null}]
  /\ \A x \in Ids : table[x] # Null => RowOK(table[x])

(* No row of the table is lost or shown again, and what its rows replace   *)
(* exists in it and is archived.                                           *)
Persists(table) ==
  \A x \in Ids : Exists(x) =>
    table[x] # Null /\ (rows[x].archived => table[x].archived)

Marked(table) ==
  \A x \in Ids : table[x] # Null /\ table[x].replaces # Null =>
    table[table[x].replaces] # Null /\ table[table[x].replaces].archived

Sound(table) == Typed(table) /\ Persists(table) /\ Marked(table)

(* What a row may be made from: a request, or a row of a manifest.         *)
Fits(r) ==
  r.on \in Targets /\ r.key \in RowKeys /\ r.content \in Contents /\ r.errata \in BOOLEAN

-----------------------------------------------------------------------------
(* What the reads of a command leave true until it writes: the row it met, *)
(* and the row that a mark it has read names, are still there.             *)
OpInv ==
  \A p \in Procs : InFlight(p) =>
    /\ Asked(p) \in Request
    /\ ops[p].phase = "checked" => Asked(p).does = "add"
    /\ Asked(p).does = "add" => Fits(Asked(p))
    /\ Asked(p).does = "link" => Asked(p).on.exp \in Linkable /\ Asked(p).on.run \in Runs
    /\ Asked(p).does = "refresh" => Met(p) # Null
    /\ Met(p) # Null => Exists(Met(p))
    /\ ops[p].replaces # Null => Exists(ops[p].replaces) /\ rows[ops[p].replaces].archived

IInv == TypeOK /\ OpInv /\ SupersededIsArchived

LEMMA TargetTypes == Targets \subseteq Target /\ RowKeys \subseteq Keys \cup {Null}
  BY DEF Targets, Target, OnRun, OnExperiment, RowKeys

LEMMA RowsAreNotNull == \A u \in Row : u # Null
  BY NullAssumption

(* A new row is a row.                                                     *)
LEMMA NewRowType ==
  ASSUME NEW r, Fits(r), NEW old \in Ids \cup {Null}
  PROVE  RowOK(NewRow(r, old))
  BY TargetTypes, ContentsAssumption DEF NewRow, Row, Fits, RowOK

(* Targets of artifacts merge to targets.                                  *)
LEMMA MergedType ==
  ASSUME NEW t \in Target, NEW u \in Target
  PROVE  Merged(t, u) \in Target
  BY DEF Merged, Either, Target

LEMMA CommitType ==
  ASSUME ops \in [Procs -> Op], NEW S, Commit(S)
  PROVE  ops' \in [Procs -> Op]
<1> DEFINE changed == <<archived, links, rows>>' # <<archived, links, rows>>
<1>1. Idle \in Op
  BY ContentsAssumption DEF Idle, Op
<1>2. ASSUME NEW q \in Procs
      PROVE  [ops[q] EXCEPT !.stale = ops[q].stale \/ changed] \in Op
  <2> DEFINE b == ops[q].stale \/ changed
  <2>1. b \in BOOLEAN
    OBVIOUS
  <2> HIDE DEF b
  <2> QED BY <2>1 DEF Op
<1> QED BY <1>1, <1>2 DEF Commit

(* A commit leaves a command idle, or with all it knew.                    *)
LEMMA CommitKeeps ==
  ASSUME ops \in [Procs -> Op], NEW S, Commit(S), NEW q \in Procs, InFlight(q)'
  PROVE  /\ InFlight(q)
         /\ ops'[q].phase = ops[q].phase /\ ops'[q].request = ops[q].request
         /\ ops'[q].found = ops[q].found /\ ops'[q].replaces = ops[q].replaces
         /\ ops'[q].attrs = ops[q].attrs
<1> DEFINE b == ops[q].stale \/ <<archived, links, rows>>' # <<archived, links, rows>>
<1>1. ops'[q] = IF q \in S THEN Idle
                ELSE IF InFlight(q) THEN [ops[q] EXCEPT !.stale = b] ELSE ops[q]
  BY DEF Commit
<1> HIDE DEF b
<1>2. Idle.phase = "idle"
  BY DEF Idle
<1> QED BY <1>1, <1>2 DEF InFlight, Op

(* Targets and keys depend on the table that is followed, which is the     *)
(* same for ever.                                                          *)
LEMMA SameTable ==
  ASSUME kind' = kind
  PROVE  Targets' = Targets /\ RowKeys' = RowKeys /\ GivenKeys' = GivenKeys /\ Errata' = Errata
  BY DEF Targets, RowKeys, GivenKeys, Errata

(* A sound table can be committed.                                         *)
LEMMA WriteStep ==
  ASSUME IInv, NEW table, NEW S, Sound(table), Write(table, S)
  PROVE  IInv'
<1>0. /\ TypeOK /\ OpInv /\ SupersededIsArchived
      /\ rows' = table /\ kind' = kind /\ archived' = archived /\ links' = links /\ Commit(S)
      /\ Typed(table) /\ Persists(table) /\ Marked(table)
  BY DEF IInv, Write, Sound
<1>1. TypeOK'
  <2>1. ops' \in [Procs -> Op]
    BY <1>0, CommitType DEF TypeOK
  <2> QED BY <1>0, <2>1, SameTable DEF TypeOK, Typed, RowOK, Exists
<1>2. OpInv'
  <2> SUFFICES ASSUME NEW q \in Procs, InFlight(q)'
               PROVE  (/\ Asked(q) \in Request
                       /\ ops[q].phase = "checked" => Asked(q).does = "add"
                       /\ Asked(q).does = "add" => Fits(Asked(q))
                       /\ Asked(q).does = "link" => Asked(q).on.exp \in Linkable /\ Asked(q).on.run \in Runs
                       /\ Asked(q).does = "refresh" => Met(q) # Null
                       /\ Met(q) # Null => Exists(Met(q))
                       /\ ops[q].replaces # Null =>
                            Exists(ops[q].replaces) /\ rows[ops[q].replaces].archived)'
    BY DEF OpInv
  <2>1. /\ InFlight(q)
        /\ ops'[q].phase = ops[q].phase /\ ops'[q].request = ops[q].request
        /\ ops'[q].found = ops[q].found /\ ops'[q].replaces = ops[q].replaces
    BY <1>0, CommitKeeps DEF TypeOK
  <2>2. ops[q] \in Op
    BY <1>0 DEF TypeOK
  <2>3. \A x \in Ids : Exists(x) => rows'[x] # Null /\ (rows[x].archived => rows'[x].archived)
    BY <1>0 DEF Persists
  <2> QED BY <1>0, <2>1, <2>2, <2>3, SameTable DEF OpInv, Asked, Met, Fits, Exists, Op
<1>3. SupersededIsArchived'
  BY <1>0 DEF SupersededIsArchived, Marked, Exists
<1> QED BY <1>1, <1>2, <1>3 DEF IInv

-----------------------------------------------------------------------------
(* A row that is added or changed keeps the table sound, if it does not    *)
(* bring an archived row back and its mark names an archived row.          *)
LEMMA Amended ==
  ASSUME IInv, NEW x \in Ids, NEW u, RowOK(u),
         Exists(x) /\ rows[x].archived => u.archived,
         u.replaces # Null => Exists(u.replaces) /\ rows[u.replaces].archived
  PROVE  Sound([rows EXCEPT ![x] = u])
<1> DEFINE table == [rows EXCEPT ![x] = u]
<1>0. /\ rows \in [Ids -> Row \cup {Null}]
      /\ \A y \in Ids : Exists(y) => RowOK(rows[y])
      /\ SupersededIsArchived
  BY RowsAreNotNull DEF IInv, TypeOK, RowOK, Exists
<1>1. table[x] = u /\ \A y \in Ids \ {x} : table[y] = rows[y]
  BY <1>0
<1>2. u # Null /\ u \in Row
  BY RowsAreNotNull DEF RowOK
<1>3. table \in [Ids -> Row \cup {Null}]
  BY <1>0, <1>2
<1> HIDE DEF table
<1>4. Typed(table)
  BY <1>0, <1>1, <1>3 DEF Typed, Exists
<1>5. Persists(table)
  BY <1>1, <1>2 DEF Persists, Exists
<1>6. ASSUME NEW y \in Ids, table[y] # Null, table[y].replaces # Null
      PROVE  table[table[y].replaces] # Null /\ table[table[y].replaces].archived
  <2> DEFINE z == table[y].replaces
  <2>1. table[y] \in Row
    BY <1>3, <1>6
  <2>2. z \in Ids
    BY <2>1, <1>6 DEF Row
  <2>3. Exists(z) /\ rows[z].archived
    BY <1>0, <1>1, <1>6 DEF SupersededIsArchived, Exists
  <2> QED BY <2>2, <2>3, <1>5 DEF Persists
<1> QED BY <1>4, <1>5, <1>6 DEF Sound, Marked, table

(* What exists is a row.                                                   *)
LEMMA RowFacts ==
  ASSUME IInv, NEW x \in Ids, Exists(x)
  PROVE  /\ RowOK(rows[x])
         /\ rows[x].replaces # Null =>
              Exists(rows[x].replaces) /\ rows[rows[x].replaces].archived
  BY DEF IInv, TypeOK, SupersededIsArchived, RowOK, Exists

LEMMA InsertedSound ==
  ASSUME IInv, NEW r, Fits(r), NEW x \in Ids, Fresh(x)
  PROVE  Sound(Inserted(r, x))
<1>1. RowOK(NewRow(r, Null)) /\ NewRow(r, Null).replaces = Null
  BY NewRowType DEF NewRow
<1> QED BY <1>1, Amended DEF Inserted, Fresh

(* The row that is replaced is archived by the same write.                 *)
LEMMA ReplacedSound ==
  ASSUME IInv, NEW r, Fits(r), NEW old \in Ids, Exists(old), NEW x \in Ids, Fresh(x)
  PROVE  Sound(Replaced(r, old, x))
<1> DEFINE u == NewRow(r, old)
           retired == [rows EXCEPT ![old].archived = TRUE]
           table == Replaced(r, old, x)
<1>0. /\ rows \in [Ids -> Row \cup {Null}] /\ rows[old] \in Row /\ x # old
      /\ \A y \in Ids : Exists(y) => RowOK(rows[y])
      /\ SupersededIsArchived
  BY DEF IInv, TypeOK, RowOK, Exists, Fresh
<1>1. RowOK(u) /\ u.replaces = old
  BY NewRowType DEF NewRow
<1>2. /\ table[x] = u
      /\ table[old] = [rows[old] EXCEPT !.archived = TRUE]
      /\ \A y \in Ids \ {x, old} : table[y] = rows[y]
      /\ DOMAIN table = Ids
      /\ table = [y \in Ids |-> table[y]]
  BY <1>0 DEF Replaced
<1> HIDE DEF u, table
<1>3. RowOK(table[old]) /\ table[old].archived /\ table[old].replaces = rows[old].replaces
  BY <1>0, <1>2 DEF RowOK, Row
<1>4. ASSUME NEW y \in Ids, table[y] # Null
      PROVE  RowOK(table[y])
  <2>1. CASE y \in {x, old}
    BY <2>1, <1>1, <1>2, <1>3
  <2>2. CASE y \notin {x, old}
    BY <2>2, <1>0, <1>2, <1>4 DEF Exists
  <2> QED BY <2>1, <2>2
<1>5. Typed(table)
  <2>1. \A y \in Ids : table[y] \in Row \cup {Null}
    BY <1>4 DEF RowOK
  <2> QED BY <1>2, <1>4, <2>1 DEF Typed
<1>6. Persists(table)
  <2> SUFFICES ASSUME NEW y \in Ids, Exists(y)
               PROVE  table[y] # Null /\ (rows[y].archived => table[y].archived)
    BY DEF Persists
  <2>1. y # x
    BY DEF Fresh
  <2>2. CASE y = old
    BY <2>2, <1>3, RowsAreNotNull DEF RowOK
  <2>3. CASE y # old
    BY <2>1, <2>3, <1>2 DEF Exists
  <2> QED BY <2>2, <2>3
<1>7. ASSUME NEW y \in Ids, table[y] # Null, table[y].replaces # Null
      PROVE  table[table[y].replaces] # Null /\ table[table[y].replaces].archived
  <2>1. CASE y = x
    BY <2>1, <1>1, <1>2, <1>3, RowsAreNotNull DEF RowOK
  <2>2. CASE y # x
    <3> DEFINE z == table[y].replaces
    <3>1. Exists(y) /\ z = rows[y].replaces
      BY <2>2, <1>2, <1>3, <1>7 DEF Exists
    <3>2. z \in Ids
      BY <1>4, <1>7 DEF RowOK, Row
    <3>3. Exists(z) /\ rows[z].archived
      BY <3>1, <1>0, <1>7 DEF SupersededIsArchived
    <3> QED BY <3>2, <3>3, <1>6 DEF Persists
  <2> QED BY <2>1, <2>2
<1> QED BY <1>5, <1>6, <1>7 DEF Sound, Marked, table

LEMMA OnType ==
  ASSUME NEW t \in Targets, NEW u \in Targets
  PROVE  (IF kind = "artifact" THEN Merged(t, u) ELSE u) \in Targets
  BY MergedType DEF Targets

(* An update in place keeps the key and the row, and forgets the mark.     *)
LEMMA UpdatedSound ==
  ASSUME IInv, NEW r, Fits(r), NEW x \in Ids, Exists(x)
  PROVE  Sound(Updated(r, x))
<1> DEFINE on == IF kind = "artifact" THEN Merged(r.on, rows[x].on) ELSE rows[x].on
           attrs == IF kind = "metric" THEN rows[x].attrs ELSE Plain
           u == [rows[x] EXCEPT !.on = on, !.content = r.content,
                                !.erratum = FALSE, !.replaces = Null, !.attrs = attrs]
<1>0. rows \in [Ids -> Row \cup {Null}] /\ RowOK(rows[x]) /\ rows[x] \in Row
  BY RowFacts DEF IInv, TypeOK, RowOK
<1>1. on \in Targets /\ attrs \in Attrs
  BY <1>0, OnType, ContentsAssumption DEF Fits, RowOK, Row
<1>2. Updated(r, x) = [rows EXCEPT ![x] = u]
  BY <1>0 DEF Updated
<1> HIDE DEF on, attrs
<1>3. RowOK(u) /\ u.archived = rows[x].archived /\ u.replaces = Null
  BY <1>0, <1>1, TargetTypes DEF RowOK, Row, Fits
<1> HIDE DEF u
<1> QED BY <1>2, <1>3, Amended

(* So does that of a manifest, or it leaves the mark alone.                *)
LEMMA UpdatedBySound ==
  ASSUME IInv, NEW m, Fits(m), NEW marks, NEW x \in Ids, Exists(x)
  PROVE  Sound(UpdatedBy(m, marks, x))
<1> DEFINE on == IF kind = "artifact" THEN Merged(m.on, rows[x].on) ELSE rows[x].on
           key == IF kind = "artifact" THEN m.key ELSE rows[x].key
           erratum == IF marks THEN m.errata ELSE rows[x].erratum
           mark == IF marks THEN Null ELSE rows[x].replaces
           attrs == IF marks THEN Plain ELSE rows[x].attrs
           u == [rows[x] EXCEPT !.on = on, !.key = key, !.content = m.content,
                                !.erratum = erratum, !.replaces = mark, !.attrs = attrs]
<1>0. /\ rows \in [Ids -> Row \cup {Null}] /\ RowOK(rows[x]) /\ rows[x] \in Row
      /\ rows[x].replaces # Null =>
           Exists(rows[x].replaces) /\ rows[rows[x].replaces].archived
  BY RowFacts DEF IInv, TypeOK, RowOK
<1>1. /\ on \in Targets /\ key \in RowKeys /\ erratum \in BOOLEAN /\ mark \in Ids \cup {Null}
      /\ mark # Null => mark = rows[x].replaces
      /\ attrs \in Attrs
  BY <1>0, OnType, ContentsAssumption DEF Fits, RowOK, Row
<1>2. UpdatedBy(m, marks, x) = [rows EXCEPT ![x] = u]
  BY <1>0 DEF UpdatedBy
<1> HIDE DEF on, key, erratum, mark, attrs
<1>3. RowOK(u) /\ u.archived = rows[x].archived /\ u.replaces = mark
  BY <1>0, <1>1, TargetTypes DEF RowOK, Row, Fits
<1>4. u.replaces # Null => Exists(u.replaces) /\ rows[u.replaces].archived
  BY <1>0, <1>1, <1>3
<1> HIDE DEF u
<1> QED BY <1>2, <1>3, <1>4, Amended

-----------------------------------------------------------------------------
(* The reads of a command: it begins with what it asks and what it read.   *)
LEMMA BegunStep ==
  ASSUME IInv, NEW p \in Procs, NEW phase \in {"checked", "found"},
         NEW request \in Request, NEW x \in Ids \cup {Null},
         Begun(p, phase, request, x),
         phase = "checked" => request.does = "add",
         request.does = "add" => Fits(request),
         request.does = "link" => request.on.exp \in Linkable /\ request.on.run \in Runs,
         request.does = "refresh" => x # Null,
         x # Null => Exists(x)
  PROVE  IInv'
<1> DEFINE mark == IF x = Null THEN Null ELSE rows[x].replaces
           attrs == IF x = Null THEN Plain ELSE rows[x].attrs
           op == [phase |-> phase, request |-> request, found |-> x,
                  replaces |-> mark, attrs |-> attrs, stale |-> FALSE]
<1>0. /\ TypeOK /\ OpInv /\ SupersededIsArchived
      /\ ops' = [ops EXCEPT ![p] = op]
      /\ UNCHANGED <<kind, archived, links, rows>>
  BY DEF IInv, Begun
<1>1. /\ mark \in Ids \cup {Null}
      /\ mark # Null => Exists(mark) /\ rows[mark].archived
      /\ attrs \in Attrs
  BY RowFacts, ContentsAssumption DEF RowOK, Row
<1> HIDE DEF mark, attrs
<1>2. op \in Op
  BY <1>1 DEF Op
<1>3. ops' \in [Procs -> Op] /\ ops'[p] = op /\ \A q \in Procs \ {p} : ops'[q] = ops[q]
  BY <1>0, <1>2 DEF TypeOK
<1>4. TypeOK'
  BY <1>0, <1>3, SameTable DEF TypeOK, Exists
<1>5. OpInv'
  <2> SUFFICES ASSUME NEW q \in Procs, InFlight(q)'
               PROVE  (/\ Asked(q) \in Request
                       /\ ops[q].phase = "checked" => Asked(q).does = "add"
                       /\ Asked(q).does = "add" => Fits(Asked(q))
                       /\ Asked(q).does = "link" => Asked(q).on.exp \in Linkable /\ Asked(q).on.run \in Runs
                       /\ Asked(q).does = "refresh" => Met(q) # Null
                       /\ Met(q) # Null => Exists(Met(q))
                       /\ ops[q].replaces # Null =>
                            Exists(ops[q].replaces) /\ rows[ops[q].replaces].archived)'
    BY DEF OpInv
  <2>1. CASE q = p
    <3>1. /\ ops'[q].phase = phase /\ ops'[q].request = request
          /\ ops'[q].found = x /\ ops'[q].replaces = mark
      BY <2>1, <1>3
    <3> QED BY <3>1, <1>0, <1>1, SameTable DEF Asked, Met, Fits, Exists
  <2>2. CASE q # p
    BY <2>2, <1>0, <1>3, SameTable DEF OpInv, InFlight, Asked, Met, Fits, Exists
  <2> QED BY <2>1, <2>2
<1>6. SupersededIsArchived'
  BY <1>0 DEF SupersededIsArchived, Exists
<1> QED BY <1>4, <1>5, <1>6 DEF IInv

(* What is read next by a command under way, or that it gives up.          *)
LEMMA GoesOn ==
  ASSUME IInv, NEW p \in Procs, NEW op \in Op, ops' = [ops EXCEPT ![p] = op],
         UNCHANGED <<kind, archived, links, rows>>,
         op.phase # "idle" =>
           /\ InFlight(p) /\ op.request = Asked(p) /\ op.replaces = ops[p].replaces
           /\ op.phase = "checked" => Asked(p).does = "add"
           /\ Asked(p).does = "refresh" => op.found # Null
           /\ op.found # Null => Exists(op.found)
  PROVE  IInv'
<1>0. TypeOK /\ OpInv /\ SupersededIsArchived
  BY DEF IInv
<1>3. ops' \in [Procs -> Op] /\ ops'[p] = op /\ \A q \in Procs \ {p} : ops'[q] = ops[q]
  BY <1>0 DEF TypeOK
<1>4. TypeOK'
  BY <1>0, <1>3, SameTable DEF TypeOK, Exists
<1>5. OpInv'
  BY <1>0, <1>3, SameTable DEF OpInv, InFlight, Asked, Met, Fits, Exists
<1>6. SupersededIsArchived'
  BY <1>0 DEF SupersededIsArchived, Exists
<1> QED BY <1>4, <1>5, <1>6 DEF IInv

(* Permitted requests to add are requests, and fit the table.              *)
LEMMA AdditionTypes ==
  ASSUME NEW r \in Additions
  PROVE  r \in Request /\ r.does = "add" /\ Fits(r)
<1>1. /\ r \in [does: {"add"}, on: (Targets \cap Aims) \ {Nowhere}, key: GivenKeys, content: Given,
                errata: Errata, upsert: BOOLEAN, gated: BOOLEAN]
  BY DEF Additions
<1>2. Errata \subseteq BOOLEAN /\ GivenKeys \subseteq RowKeys
  BY DEF Errata, GivenKeys, RowKeys
<1> QED BY <1>1, <1>2, TargetTypes, ContentsAssumption DEF Request, Fits

LEMMA ManifestTypes ==
  ASSUME NEW m \in ManifestRows
  PROVE  Fits(m)
<1>1. Errata \subseteq BOOLEAN /\ GivenKeys \subseteq RowKeys
  BY DEF Errata, GivenKeys, RowKeys
<1> QED BY <1>1, ContentsAssumption DEF ManifestRows, Fits

(* A handoff note fits the table of notes.                                 *)
LEMMA HandoffTypes ==
  ASSUME kind = "note", NEW e \in Experiments, NEW k \in Keys, NEW c \in Given
  PROVE  Fits(HandoffNote(e, k, c))
<1>1. [exp |-> e, run |-> Null] \in Targets /\ k \in RowKeys /\ c \in Contents
  BY ContentsAssumption DEF Targets, OnExperiment, RowKeys
<1> QED BY <1>1 DEF Fits, HandoffNote

LEMMA FoundExists ==
  ASSUME NEW m \in ManifestRows, NEW x \in FoundBy(m)
  PROVE  x \in Ids /\ Exists(x)
  BY DEF FoundBy, ManifestRows, Matching, Active

LEMMA CheckStep ==
  ASSUME IInv, NEW p \in Procs, NEW r \in Additions, Check(p, r)
  PROVE  IInv'
<1> DEFINE phase == IF kind = "note" THEN "found" ELSE "checked"
<1>1. phase \in {"checked", "found"} /\ Begun(p, phase, r, Null)
  BY DEF Check
<1> HIDE DEF phase
<1> QED BY <1>1, AdditionTypes, BegunStep

LEMMA LinkReadStep ==
  ASSUME IInv, NEW p \in Procs, NEW e \in Linkable, NEW r \in Runs, LinkRead(p, e, r)
  PROVE  IInv'
<1>1. /\ LinkOf(e, r) \in Request /\ LinkOf(e, r).does = "link"
      /\ LinkOf(e, r).on.exp = e /\ LinkOf(e, r).on.run = r
  BY BoundAssumption, ContentsAssumption DEF LinkOf, Request, Target
<1>2. Begun(p, "found", LinkOf(e, r), Null)
  BY DEF LinkRead
<1> HIDE DEF LinkOf
<1> QED BY <1>1, <1>2, BegunStep

LEMMA RefreshReadStep ==
  ASSUME IInv, NEW p \in Procs, NEW x \in Ids, NEW c \in Contents, RefreshRead(p, x, c)
  PROVE  IInv'
<1> DEFINE r == RefreshTo(c, rows[x].erratum)
<1>1. Exists(x) /\ Begun(p, "found", r, x)
  BY DEF RefreshRead
<1>2. rows[x].erratum \in BOOLEAN /\ x # Null
  BY <1>1, RowFacts, NullAssumption DEF RowOK, Row
<1>3. r \in Request /\ r.does = "refresh"
  BY <1>2 DEF RefreshTo, Request, Nowhere, Target
<1> HIDE DEF r
<1> QED BY <1>1, <1>2, <1>3, BegunStep

LEMMA IdleType == Idle \in Op /\ Idle.phase = "idle"
  BY ContentsAssumption DEF Idle, Op

(* A command finds a row that it may use, finds none, or gives up.         *)
LEMMA FindStep ==
  ASSUME IInv, NEW p \in Procs, Find(p)
  PROVE  IInv'
<1>0. /\ ops \in [Procs -> Op] /\ ops[p] \in Op /\ ops[p].phase = "checked" /\ InFlight(p)
      /\ Asked(p).does = "add" /\ UNCHANGED <<kind, archived, links, rows>>
      /\ ops[p].found # Null => Exists(ops[p].found)
  BY DEF IInv, TypeOK, OpInv, Find, InFlight, Met
<1>1. CASE ops' = [ops EXCEPT ![p].phase = "found"]
  <2> DEFINE op == [ops[p] EXCEPT !.phase = "found"]
  <2>1. ops' = [ops EXCEPT ![p] = op]
    BY <1>0, <1>1
  <2>2. /\ op \in Op /\ op.request = ops[p].request /\ op.replaces = ops[p].replaces
        /\ op.found = ops[p].found /\ op.phase = "found"
    BY <1>0 DEF Op
  <2> HIDE DEF op
  <2> QED BY <2>1, <2>2, <1>0, GoesOn DEF Asked
<1>2. ASSUME NEW x \in Matching(Asked(p)), Usable(Asked(p), x),
             ops' = [ops EXCEPT ![p] = [ops[p] EXCEPT !.phase = "found", !.found = x]]
      PROVE  IInv'
  <2> DEFINE op == [ops[p] EXCEPT !.phase = "found", !.found = x]
  <2>1. x \in Ids /\ Exists(x)
    BY DEF Matching, Active
  <2>2. /\ op \in Op /\ op.request = ops[p].request /\ op.replaces = ops[p].replaces
        /\ op.found = x /\ op.phase = "found"
    BY <1>0, <2>1 DEF Op
  <2>3. ops' = [ops EXCEPT ![p] = op]
    BY <1>2
  <2> HIDE DEF op
  <2> QED BY <2>1, <2>2, <2>3, <1>0, GoesOn DEF Asked
<1>3. CASE ops' = [ops EXCEPT ![p] = Idle]
  BY <1>0, <1>3, IdleType, GoesOn
<1>4. \/ ops' = [ops EXCEPT ![p].phase = "found"]
      \/ \E x \in Matching(Asked(p)) :
           /\ Usable(Asked(p), x)
           /\ ops' = [ops EXCEPT ![p] = [ops[p] EXCEPT !.phase = "found", !.found = x]]
      \/ ops' = [ops EXCEPT ![p] = Idle]
  BY <1>0 DEF Find
<1> QED BY <1>1, <1>2, <1>3, <1>4

(* What a command has met when it writes.                                  *)
LEMMA ReadyFacts ==
  ASSUME IInv, NEW p \in Procs, Ready(p)
  PROVE  Fits(Asked(p)) /\ (Met(p) # Null => Met(p) \in Ids /\ Exists(Met(p)))
<1>1. InFlight(p) /\ ops[p] \in Op /\ Asked(p).does = "add"
  BY DEF Ready, InFlight, IInv, TypeOK
<1> QED BY <1>1 DEF IInv, OpInv, Op, Met

LEMMA AddStep ==
  ASSUME IInv, NEW p \in Procs,
         Update(p) \/ \E x \in Ids : Insert(p, x) \/ Replace(p, x)
  PROVE  IInv'
<1>1. CASE Update(p)
  BY <1>1, ReadyFacts, UpdatedSound, WriteStep DEF Update
<1>2. ASSUME NEW x \in Ids, Insert(p, x) PROVE IInv'
  BY <1>2, ReadyFacts, InsertedSound, WriteStep DEF Insert
<1>3. ASSUME NEW x \in Ids, Replace(p, x) PROVE IInv'
  BY <1>3, ReadyFacts, ReplacedSound, WriteStep DEF Replace
<1> QED BY <1>1, <1>2, <1>3

(* A refresh writes back the mark that it has read, and the row that this  *)
(* mark names has been archived since before.                              *)
LEMMA RefreshStep ==
  ASSUME IInv, NEW p \in Procs, Refresh(p)
  PROVE  IInv'
<1> DEFINE x == Met(p)
           u == [rows[x] EXCEPT !.content = Asked(p).content, !.erratum = Asked(p).errata,
                                !.replaces = ops[p].replaces, !.attrs = ops[p].attrs]
<1>0. /\ rows \in [Ids -> Row \cup {Null}] /\ ops[p] \in Op /\ Asked(p) \in Request
      /\ x \in Ids /\ Exists(x)
      /\ ops[p].replaces # Null =>
           Exists(ops[p].replaces) /\ rows[ops[p].replaces].archived
  BY DEF IInv, TypeOK, OpInv, Refresh, Op, Met
<1>1. RowOK(rows[x]) /\ rows[x] \in Row
  BY <1>0, RowFacts DEF RowOK
<1>2. Write([rows EXCEPT ![x] = u], {p})
  BY <1>0 DEF Refresh
<1>3. /\ Asked(p).content \in Contents /\ Asked(p).errata \in BOOLEAN
      /\ ops[p].replaces \in Ids \cup {Null} /\ ops[p].attrs \in Attrs
  BY <1>0 DEF Request, Op
<1>4. RowOK(u) /\ u.archived = rows[x].archived /\ u.replaces = ops[p].replaces
  BY <1>1, <1>3 DEF RowOK, Row
<1> HIDE DEF u, x
<1> QED BY <1>0, <1>2, <1>4, Amended, WriteStep

(* Rows are archived, and notes resolved, by the row that their id names.  *)
LEMMA UngatedRowStep ==
  ASSUME IInv, NEW x \in Ids, ArchiveRow(x) \/ ResolveNote(x)
  PROVE  IInv'
<1>0. rows \in [Ids -> Row \cup {Null}] /\ Exists(x)
  BY DEF IInv, TypeOK, ArchiveRow, ResolveNote
<1>1. /\ RowOK(rows[x]) /\ rows[x] \in Row
      /\ rows[x].replaces # Null =>
           Exists(rows[x].replaces) /\ rows[rows[x].replaces].archived
  BY <1>0, RowFacts DEF RowOK
<1>2. CASE ArchiveRow(x)
  <2> DEFINE u == [rows[x] EXCEPT !.archived = TRUE]
  <2>1. Write([rows EXCEPT ![x] = u], {})
    BY <1>0, <1>2 DEF ArchiveRow
  <2>2. RowOK(u) /\ u.archived /\ u.replaces = rows[x].replaces
    BY <1>1 DEF RowOK, Row
  <2> HIDE DEF u
  <2> QED BY <1>1, <2>1, <2>2, Amended, WriteStep
<1>3. CASE ResolveNote(x)
  <2> DEFINE u == [rows[x] EXCEPT !.content = Resolved]
  <2>1. Write([rows EXCEPT ![x] = u], {})
    BY <1>0, <1>3 DEF ResolveNote
  <2>2. RowOK(u) /\ u.archived = rows[x].archived /\ u.replaces = rows[x].replaces
    BY <1>1, ContentsAssumption DEF RowOK, Row
  <2> HIDE DEF u
  <2> QED BY <1>1, <2>1, <2>2, Amended, WriteStep
<1> QED BY <1>2, <1>3

LEMMA HandoffNoteStep ==
  ASSUME IInv, NEW e \in Experiments, NEW k \in Keys, NEW c \in Given, Handoff(e, k, c)
  PROVE  IInv'
<1>1. PICK x \in Ids : Fresh(x) /\ Write(Inserted(HandoffNote(e, k, c), x), {})
  BY DEF Handoff
<1>2. Fits(HandoffNote(e, k, c))
  BY HandoffTypes DEF Handoff
<1> QED BY <1>1, <1>2, InsertedSound, WriteStep

(* Attributes are customised, and the marks of the row stay as they are.   *)
LEMMA AttrsStep ==
  ASSUME IInv, NEW x \in Ids, NEW a \in Attrs, ReconcileAttrs(x, a)
  PROVE  IInv'
<1> DEFINE u == [rows[x] EXCEPT !.attrs = a]
<1>0. rows \in [Ids -> Row \cup {Null}] /\ Exists(x)
  BY DEF IInv, TypeOK, ReconcileAttrs
<1>1. /\ RowOK(rows[x]) /\ rows[x] \in Row
      /\ rows[x].replaces # Null =>
           Exists(rows[x].replaces) /\ rows[rows[x].replaces].archived
  BY <1>0, RowFacts DEF RowOK
<1>2. Write([rows EXCEPT ![x] = u], {})
  BY <1>0 DEF ReconcileAttrs
<1>3. RowOK(u) /\ u.archived = rows[x].archived /\ u.replaces = rows[x].replaces
  BY <1>1 DEF RowOK, Row
<1> HIDE DEF u
<1> QED BY <1>1, <1>2, <1>3, Amended, WriteStep

LEMMA ReconcileRowStep ==
  ASSUME IInv, NEW m \in ManifestRows, ReconcileRow(m)
  PROVE  IInv'
<1>0. Fits(m)
  BY ManifestTypes
<1>1. CASE ReconcileInsert(m)
  BY <1>0, <1>1, InsertedSound, WriteStep DEF ReconcileInsert
<1>2. CASE ReconcileReplace(m)
  <2>1. PICK old \in FoundBy(m), x \in Ids : Fresh(x) /\ Write(Replaced(m, old, x), {})
    BY <1>2 DEF ReconcileReplace
  <2> QED BY <1>0, <2>1, FoundExists, ReplacedSound, WriteStep
<1>3. CASE ReconcileUpdate(m)
  <2>1. PICK old \in FoundBy(m), marks \in BOOLEAN : Write(UpdatedBy(m, marks, old), {})
    BY <1>3 DEF ReconcileUpdate
  <2> QED BY <1>0, <2>1, FoundExists, UpdatedBySound, WriteStep
<1> QED BY <1>1, <1>2, <1>3 DEF ReconcileRow

(* What is linked or archived changes no row, and nothing that was read.   *)
LEMMA EntityStep ==
  ASSUME IInv, NEW S, Commit(S), UNCHANGED <<kind, rows>>,
         archived' \subseteq Archivable, links' \subseteq Linkable \X Runs
  PROVE  IInv'
<1>0. TypeOK /\ OpInv /\ SupersededIsArchived
  BY DEF IInv
<1>1. TypeOK'
  <2>1. ops' \in [Procs -> Op]
    BY <1>0, CommitType DEF TypeOK
  <2> QED BY <1>0, <2>1, SameTable DEF TypeOK, Exists
<1>2. OpInv'
  <2> SUFFICES ASSUME NEW q \in Procs, InFlight(q)'
               PROVE  (/\ Asked(q) \in Request
                       /\ ops[q].phase = "checked" => Asked(q).does = "add"
                       /\ Asked(q).does = "add" => Fits(Asked(q))
                       /\ Asked(q).does = "link" => Asked(q).on.exp \in Linkable /\ Asked(q).on.run \in Runs
                       /\ Asked(q).does = "refresh" => Met(q) # Null
                       /\ Met(q) # Null => Exists(Met(q))
                       /\ ops[q].replaces # Null =>
                            Exists(ops[q].replaces) /\ rows[ops[q].replaces].archived)'
    BY DEF OpInv
  <2>1. /\ InFlight(q)
        /\ ops'[q].phase = ops[q].phase /\ ops'[q].request = ops[q].request
        /\ ops'[q].found = ops[q].found /\ ops'[q].replaces = ops[q].replaces
    BY <1>0, CommitKeeps DEF TypeOK
  <2> QED BY <1>0, <2>1, SameTable DEF OpInv, Asked, Met, Fits, Exists
<1>3. SupersededIsArchived'
  BY <1>0 DEF SupersededIsArchived, Exists
<1> QED BY <1>1, <1>2, <1>3 DEF IInv

LEMMA LinkStep ==
  ASSUME IInv, NEW p \in Procs, Link(p)
  PROVE  IInv'
<1>1. TypeOK /\ Asked(p).on.exp \in Linkable /\ Asked(p).on.run \in Runs
  BY DEF IInv, OpInv, Link
<1> QED BY <1>1, EntityStep DEF Link, TypeOK

-----------------------------------------------------------------------------
LEMMA CommandStep ==
  ASSUME IInv, NEW p \in Procs, Command(p)
  PROVE  IInv'
<1>1. ASSUME NEW r \in Additions, Check(p, r) PROVE IInv'
  BY <1>1, CheckStep
<1>2. ASSUME NEW e \in Linkable, NEW r \in Runs, LinkRead(p, e, r) PROVE IInv'
  BY <1>2, LinkReadStep
<1>3. ASSUME NEW x \in Ids, NEW c \in Contents, RefreshRead(p, x, c) PROVE IInv'
  BY <1>3, RefreshReadStep
<1>4. CASE Find(p)
  BY <1>4, FindStep
<1>5. CASE Update(p) \/ \E x \in Ids : Insert(p, x) \/ Replace(p, x)
  BY <1>5, AddStep
<1>6. CASE Abort(p)
  BY <1>6, IdleType, GoesOn DEF Abort
<1>7. CASE Link(p)
  BY <1>7, LinkStep
<1>8. CASE Refresh(p)
  BY <1>8, RefreshStep
<1> QED BY <1>1, <1>2, <1>3, <1>4, <1>5, <1>6, <1>7, <1>8 DEF Command

LEMMA NextStep ==
  ASSUME IInv, Next
  PROVE  IInv'
<1>1. ASSUME NEW e \in Archivable, Archive(e) PROVE IInv'
  <2>1. archived' \subseteq Archivable /\ links' \subseteq Linkable \X Runs
    BY <1>1 DEF Archive, IInv, TypeOK
  <2> QED BY <1>1, <2>1, EntityStep DEF Archive
<1>2. ASSUME NEW x \in Ids, ArchiveRow(x) \/ ResolveNote(x) PROVE IInv'
  BY <1>2, UngatedRowStep
<1>3. ASSUME NEW m \in ManifestRows, ReconcileRow(m) PROVE IInv'
  BY <1>3, ReconcileRowStep
<1>4. ASSUME NEW e \in Linkable, NEW r \in Runs, ReconcileLink(e, r) PROVE IInv'
  <2>1. archived' \subseteq Archivable /\ links' \subseteq Linkable \X Runs
    BY <1>4 DEF ReconcileLink, IInv, TypeOK
  <2> QED BY <1>4, <2>1, EntityStep DEF ReconcileLink
<1>5. ASSUME NEW p \in Procs, Command(p) PROVE IInv'
  BY <1>5, CommandStep
<1>6. ASSUME NEW e \in Experiments, NEW k \in Keys, NEW c \in Given, Handoff(e, k, c) PROVE IInv'
  BY <1>6, HandoffNoteStep
<1>7. ASSUME NEW x \in Ids, NEW a \in Attrs, ReconcileAttrs(x, a) PROVE IInv'
  BY <1>7, AttrsStep
<1> QED BY <1>1, <1>2, <1>3, <1>4, <1>5, <1>6, <1>7 DEF Next, Ungated, Reconcile

LEMMA InitInv ==
  ASSUME Init
  PROVE  IInv
<1>1. TypeOK
  BY IdleType DEF Init, TypeOK, Exists
<1>2. OpInv
  BY IdleType DEF Init, OpInv, InFlight
<1>3. SupersededIsArchived
  BY DEF Init, SupersededIsArchived, Exists
<1> QED BY <1>1, <1>2, <1>3 DEF IInv

LEMMA StutterStep ==
  ASSUME IInv, UNCHANGED vars
  PROVE  IInv'
  BY SameTable
  DEF IInv, TypeOK, OpInv, SupersededIsArchived, vars, InFlight, Asked, Met, Fits, Exists

(* Behind both theorems: whatever is archived, linked, refreshed or        *)
(* replaced while a command goes from one step to the next, the row it met *)
(* and the mark it read still name rows, and an archived row stays so.     *)
THEOREM Invariant == Spec => []IInv
<1>1. Init => IInv
  BY InitInv
<1>2. IInv /\ [Next]_vars => IInv'
  BY NextStep, StutterStep
<1> QED BY <1>1, <1>2, PTL DEF Spec

(* All rows, requests and what commands have read are of their types, in   *)
(* every interleaving of any number of commands and manifests.             *)
THEOREM TypeCorrect == Spec => []TypeOK
<1>1. IInv => TypeOK
  BY DEF IInv
<1> QED BY <1>1, Invariant, PTL

(* What an erratum replaces is archived, for any number of commands at     *)
(* work on the same rows (add_artifact and add_validation archive it and   *)
(* write the erratum in one transaction; no later write shows it again).   *)
THEOREM Superseded == Spec => []SupersededIsArchived
<1>1. IInv => SupersededIsArchived
  BY DEF IInv
<1> QED BY <1>1, Invariant, PTL

-----------------------------------------------------------------------------
(* As long as nothing has been committed since a command looked first,     *)
(* what it looked at holds: its request is permitted, and the row it met   *)
(* is one that its request stands for and that it may use; and a refresh   *)
(* has the attributes of its row.                                          *)
Current(p) ==
  /\ Permitted(Asked(p))
  /\ Met(p) # Null => Met(p) \in Matching(Asked(p)) /\ Usable(Asked(p), Met(p))

LookInv ==
  \A p \in Procs : InFlight(p) =>
    /\ ops[p].phase = "checked" => Met(p) = Null
    /\ Asked(p).does = "add" => Asked(p) \in Additions /\ (ops[p].stale \/ Current(p))
    /\ Asked(p).does = "refresh" => ops[p].stale \/ ops[p].attrs = rows[Met(p)].attrs

(* Nothing that a command looks at differs as long as no table does.       *)
SameState == UNCHANGED <<kind, archived, links, rows>>

LEMMA SameLook ==
  ASSUME SameState, NEW p, Asked(p)' = Asked(p), Met(p)' = Met(p)
  PROVE  Additions' = Additions /\ (Current(p)' <=> Current(p))
<1>0. kind' = kind /\ archived' = archived /\ links' = links /\ rows' = rows
  BY DEF SameState
<1>1. Additions' = Additions
  BY <1>0, SameTable DEF Additions
<1>2. \A t : Open(t)' <=> Open(t)
  BY <1>0 DEF Open, Owners
<1>3. Permitted(Asked(p))' <=> Permitted(Asked(p))
  BY <1>0, <1>2 DEF Permitted, EntityActive
<1>4. \A r : Matching(r)' = Matching(r)
  BY <1>0 DEF Matching, SameKey, Active, Exists
<1>5. \A r, x : Usable(r, x)' <=> Usable(r, x)
  BY <1>0 DEF Usable, Related, Owners
<1> QED
  BY <1>1, <1>3, <1>4, <1>5 DEF Current

(* What an entry of the table of commands has to keep.                     *)
Keeps(p) ==
  InFlight(p) =>
    /\ ops[p].phase = "checked" => Met(p) = Null
    /\ Asked(p).does = "add" => Asked(p) \in Additions /\ (ops[p].stale \/ Current(p))
    /\ Asked(p).does = "refresh" => ops[p].stale \/ ops[p].attrs = rows[Met(p)].attrs

(* A commit makes every other command stale, or changes nothing.           *)
LEMMA CommitLook ==
  ASSUME IInv, LookInv, NEW S, Commit(S), kind' = kind
  PROVE  LookInv'
<1>0. ops \in [Procs -> Op]
  BY DEF IInv, TypeOK
<1> SUFFICES ASSUME NEW q \in Procs PROVE Keeps(q)'
  BY DEF LookInv, Keeps
<1>1. SUFFICES ASSUME InFlight(q)' PROVE Keeps(q)'
  BY DEF Keeps
<1>2. /\ InFlight(q) /\ ops[q] \in Op
      /\ ops'[q].phase = ops[q].phase /\ ops'[q].request = ops[q].request
      /\ ops'[q].found = ops[q].found /\ ops'[q].attrs = ops[q].attrs
  BY <1>0, <1>1, CommitKeeps
<1>3. Asked(q)' = Asked(q) /\ Met(q)' = Met(q) /\ Additions' = Additions
  BY <1>2, SameTable DEF Asked, Met, Additions
<1>4. Keeps(q)
  BY DEF LookInv, Keeps
<1>5. CASE SameState
  <2>1. Current(q)' <=> Current(q)
    BY <1>3, <1>5, SameLook
  <2>2. ops[q].stale => ops'[q].stale
    <3> DEFINE b == ops[q].stale \/ <<archived, links, rows>>' # <<archived, links, rows>>
    <3>1. ops'[q] = [ops[q] EXCEPT !.stale = b] \/ ops'[q] = Idle
      BY <1>2 DEF Commit
    <3>2. ops'[q] # Idle
      BY <1>1, IdleType DEF InFlight
    <3>3. b <=> ops[q].stale
      BY <1>5 DEF SameState
    <3> HIDE DEF b
    <3> QED
      BY <1>2, <3>1, <3>2, <3>3 DEF Op
  <2> QED
    BY <1>2, <1>3, <1>4, <1>5, <2>1, <2>2 DEF Keeps, SameState
<1>6. CASE ~SameState
  <2>1. ops'[q].stale
    <3> DEFINE b == ops[q].stale \/ <<archived, links, rows>>' # <<archived, links, rows>>
    <3>1. ops'[q] = [ops[q] EXCEPT !.stale = b] \/ ops'[q] = Idle
      BY <1>2 DEF Commit
    <3>2. ops'[q] # Idle
      BY <1>1, IdleType DEF InFlight
    <3>3. b
      BY <1>6 DEF SameState
    <3> HIDE DEF b
    <3> QED
      BY <1>2, <3>1, <3>2, <3>3 DEF Op
  <2> QED
    BY <1>2, <1>3, <1>4, <2>1 DEF Keeps
<1> QED
  BY <1>5, <1>6

(* A step of one command that writes nothing.                              *)
LEMMA OwnLook ==
  ASSUME IInv, LookInv, NEW p \in Procs, NEW op, ops' = [ops EXCEPT ![p] = op], SameState,
         Keeps(p)'
  PROVE  LookInv'
<1> SUFFICES ASSUME NEW q \in Procs PROVE Keeps(q)'
  BY DEF LookInv, Keeps
<1>1. CASE q # p
  <2>1. ops'[q] = ops[q]
    BY <1>1 DEF IInv, TypeOK
  <2>2. Asked(q)' = Asked(q) /\ Met(q)' = Met(q) /\ (InFlight(q)' <=> InFlight(q))
    BY <2>1 DEF Asked, Met, InFlight
  <2>3. (Current(q)' <=> Current(q)) /\ Additions' = Additions
    BY <2>2, SameLook
  <2> QED
    BY <2>1, <2>2, <2>3 DEF LookInv, Keeps, SameState
<1> QED
  BY <1>1

(* A command that begins has looked at what it asks for.                   *)
LEMMA BegunLook ==
  ASSUME IInv, LookInv, NEW p \in Procs,
         NEW phase \in {"checked", "found"}, NEW request, NEW x,
         Begun(p, phase, request, x), phase = "checked" => x = Null,
         request.does = "add" => request \in Additions /\ Permitted(request) /\ x = Null,
         request.does = "refresh" => x # Null
  PROVE  LookInv'
<1>1. PICK op : op = [phase |-> phase, request |-> request, found |-> x,
                      replaces |-> IF x = Null THEN Null ELSE rows[x].replaces,
                      attrs |-> IF x = Null THEN Plain ELSE rows[x].attrs, stale |-> FALSE]
  OBVIOUS
<1>2. ops' = [ops EXCEPT ![p] = op] /\ SameState
  BY <1>1 DEF Begun, SameState
<1>3. /\ ops'[p] = op /\ op.phase = phase /\ op.request = request /\ op.found = x
      /\ x # Null => op.attrs = rows[x].attrs
  BY <1>1, <1>2 DEF IInv, TypeOK
<1>4. Asked(p)' = request /\ Met(p)' = x
  BY <1>3 DEF Asked, Met
<1>5. Additions' = Additions
  BY <1>2, SameTable DEF SameState, Additions
<1>6. Permitted(request) => Permitted(Asked(p))'
  BY <1>2, <1>4 DEF SameState, Permitted, EntityActive, Open, Owners
<1> HIDE <1>1
<1>7. Keeps(p)'
  BY <1>2, <1>3, <1>4, <1>5, <1>6 DEF Keeps, Current, SameState
<1> QED
  BY <1>2, <1>7, OwnLook

(* A command finds a row that is there and that it may use.                *)
LEMMA FindLook ==
  ASSUME IInv, LookInv, NEW p \in Procs, Find(p)
  PROVE  LookInv'
<1>0. /\ ops \in [Procs -> Op] /\ ops[p] \in Op /\ ops[p].phase = "checked" /\ InFlight(p)
      /\ Asked(p).does = "add" /\ SameState /\ Keeps(p) /\ Met(p) = Null
  BY DEF IInv, TypeOK, OpInv, Find, InFlight, SameState, LookInv, Keeps
<1>1. ASSUME NEW x, x = Null \/ (x \in Matching(Asked(p)) /\ Usable(Asked(p), x)),
             ops' = [ops EXCEPT ![p] = [ops[p] EXCEPT !.phase = "found", !.found = x]]
      PROVE  LookInv'
  <2>1. PICK op : op = [ops[p] EXCEPT !.phase = "found", !.found = x]
    OBVIOUS
  <2>2. /\ ops' = [ops EXCEPT ![p] = op] /\ ops'[p] = op
        /\ op.phase = "found" /\ op.found = x /\ op.request = ops[p].request
        /\ op.stale = ops[p].stale
    BY <1>0, <1>1, <2>1 DEF Op
  <2>3. Asked(p)' = Asked(p) /\ Met(p)' = x
    BY <2>2 DEF Asked, Met
  <2>4. Additions' = Additions /\ (Permitted(Asked(p))' <=> Permitted(Asked(p)))
        /\ Matching(Asked(p))' = Matching(Asked(p))
        /\ (Usable(Asked(p), Met(p))' <=> Usable(Asked(p), x))
    <3>1. kind' = kind /\ archived' = archived /\ links' = links /\ rows' = rows
      BY <1>0 DEF SameState
    <3>2. Additions' = Additions
      BY <3>1, SameTable DEF Additions
    <3>3. Permitted(Asked(p))' <=> Permitted(Asked(p))
      BY <3>1, <2>3 DEF Permitted, EntityActive, Open, Owners
    <3>4. Matching(Asked(p))' = Matching(Asked(p))
      BY <3>1, <2>3 DEF Matching, SameKey, Active, Exists
    <3>5. Usable(Asked(p), Met(p))' <=> Usable(Asked(p), x)
      BY <3>1, <2>3 DEF Usable, Related, Owners
    <3> QED
      BY <3>2, <3>3, <3>4, <3>5
  <2> HIDE <2>1
  <2>5. Keeps(p)'
    BY <1>0, <1>1, <2>2, <2>3, <2>4 DEF Keeps, Current
  <2> QED
    BY <1>0, <2>2, <2>5, OwnLook
<1>2. CASE ops' = [ops EXCEPT ![p] = Idle]
  <2>1. ~InFlight(p)'
    BY <1>0, <1>2, IdleType DEF InFlight
  <2> QED
    BY <1>0, <1>2, <2>1, OwnLook DEF Keeps
<1>3. CASE ops' = [ops EXCEPT ![p].phase = "found"]
  <2>1. [ops[p] EXCEPT !.phase = "found", !.found = Null] = [ops[p] EXCEPT !.phase = "found"]
    BY <1>0 DEF Op, Met
  <2> QED
    BY <1>1, <1>3, <2>1
<1> QED
  BY <1>1, <1>2, <1>3 DEF Find

(* Every step keeps what the commands that are not stale have looked at.   *)
LEMMA LookStep ==
  ASSUME IInv, LookInv, [Next]_vars
  PROVE  LookInv'
<1>1. CASE UNCHANGED vars
  <2>1. \A p \in Procs : (Current(p)' <=> Current(p)) /\ Additions' = Additions
    BY <1>1, SameLook DEF vars, SameState, Asked, Met
  <2> QED
    BY <1>1, <2>1 DEF vars, LookInv, InFlight, Asked, Met
<1>2. ASSUME NEW p \in Procs, NEW r \in Additions, Check(p, r) PROVE LookInv'
  BY <1>2, BegunLook, AdditionTypes DEF Check
<1>3. ASSUME NEW p \in Procs, NEW e \in Linkable, NEW r \in Runs, LinkRead(p, e, r) PROVE LookInv'
  <2>1. LinkOf(e, r).does = "link"
    BY DEF LinkOf
  <2> QED
    BY <1>3, <2>1, BegunLook DEF LinkRead
<1>4. ASSUME NEW p \in Procs, NEW x \in Ids, NEW c \in Contents, RefreshRead(p, x, c) PROVE LookInv'
  <2>1. RefreshTo(c, rows[x].erratum).does = "refresh" /\ x # Null
    BY NullAssumption DEF RefreshTo
  <2> QED
    BY <1>4, <2>1, BegunLook DEF RefreshRead
<1>5. ASSUME NEW p \in Procs, Abort(p) PROVE LookInv'
  <2>1. ops' = [ops EXCEPT ![p] = Idle] /\ SameState /\ ~InFlight(p)'
    BY <1>5, IdleType DEF Abort, SameState, InFlight, IInv, TypeOK
  <2> QED
    BY <2>1, OwnLook DEF Keeps
<1>6. ASSUME NEW S, Commit(S), kind' = kind PROVE LookInv'
  BY <1>6, CommitLook
<1>7. ASSUME NEW table, NEW S, Write(table, S) PROVE LookInv'
  BY <1>7, <1>6 DEF Write
<1>8. ASSUME NEW p \in Procs, Command(p) PROVE LookInv'
  BY <1>2, <1>3, <1>4, <1>5, <1>6, <1>7, <1>8, FindLook
  DEF Command, Insert, Replace, Update, Link, Refresh
<1>9. Ungated => LookInv'
  BY <1>6, <1>7 DEF Ungated, Archive, ArchiveRow, ResolveNote, Handoff
<1>10. Reconcile => LookInv'
  BY <1>6, <1>7 DEF Reconcile, ReconcileRow, ReconcileInsert, ReconcileReplace, ReconcileUpdate,
     ReconcileAttrs, ReconcileLink
<1> QED
  BY <1>1, <1>8, <1>9, <1>10 DEF Next

(* What commands have looked at is as they take it, or they are stale.     *)
THEOREM Looks == Spec => [](IInv /\ LookInv)
<1>1. Init => LookInv
  BY IdleType DEF Init, LookInv, InFlight
<1> QED
  BY <1>1, LookStep, Invariant, PTL DEF Spec

-----------------------------------------------------------------------------
(* The writes, and who is over when they are done.                         *)
LEMMA NobodyEnds ==
  ASSUME IInv, Commit({})
  PROVE  \A p \in Procs : ~Ends(p)
<1>1. ops \in [Procs -> Op]
  BY DEF IInv, TypeOK
<1>2. ASSUME NEW p \in Procs, InFlight(p) PROVE InFlight(p)'
  <2> DEFINE b == ops[p].stale \/ <<archived, links, rows>>' # <<archived, links, rows>>
  <2>1. ops'[p] = [ops[p] EXCEPT !.stale = b]
    BY <1>2 DEF Commit
  <2> HIDE DEF b
  <2> QED
    BY <1>1, <1>2, <2>1 DEF InFlight, Op
<1> QED
  BY <1>2 DEF Ends

(* A command that commits is over, and no other is.                        *)
LEMMA OneEnds ==
  ASSUME IInv, NEW p \in Procs, InFlight(p), Commit({p})
  PROVE  Ends(p) /\ \A q \in Procs : Ends(q) => q = p
<1>1. ops \in [Procs -> Op]
  BY DEF IInv, TypeOK
<1>2. ASSUME NEW q \in Procs, q # p, InFlight(q) PROVE InFlight(q)'
  <2> DEFINE b == ops[q].stale \/ <<archived, links, rows>>' # <<archived, links, rows>>
  <2>1. ops'[q] = [ops[q] EXCEPT !.stale = b]
    BY <1>2 DEF Commit
  <2> HIDE DEF b
  <2> QED
    BY <1>1, <1>2, <2>1 DEF InFlight, Op
<1>3. ops'[p] = Idle
  BY DEF Commit
<1> QED
  BY <1>2, <1>3, IdleType DEF Ends, InFlight

(* The rows of the tables that are written.                                *)
LEMMA InsertedRows ==
  ASSUME IInv, NEW r, NEW x \in Ids
  PROVE  /\ Inserted(r, x)[x] = NewRow(r, Null)
         /\ \A y \in Ids \ {x} : Inserted(r, x)[y] = rows[y]
BY DEF IInv, TypeOK, Inserted

LEMMA ReplacedRows ==
  ASSUME IInv, NEW r, NEW old \in Ids, Exists(old), NEW x \in Ids, Fresh(x)
  PROVE  /\ Replaced(r, old, x)[x] = NewRow(r, old)
         /\ \A y \in Ids \ {x, old} : Replaced(r, old, x)[y] = rows[y]
BY DEF IInv, TypeOK, Replaced, Fresh

(* The row that an erratum replaces is archived, and no more.              *)
LEMMA RetiredRow ==
  ASSUME IInv, NEW r, NEW old \in Ids, Exists(old), NEW x \in Ids, Fresh(x)
  PROVE  Replaced(r, old, x)[old] = [rows[old] EXCEPT !.archived = TRUE]
BY DEF IInv, TypeOK, Replaced, Fresh

(* An update moves artifacts only.                                         *)
LEMMA UpdatedRows ==
  ASSUME IInv, NEW r, NEW x \in Ids, Exists(x)
  PROVE  /\ Updated(r, x)[x].on = IF kind = "artifact" THEN Merged(r.on, rows[x].on) ELSE rows[x].on
         /\ \A y \in Ids \ {x} : Updated(r, x)[y] = rows[y]
<1>1. rows \in [Ids -> Row \cup {Null}] /\ rows[x] \in Row
  BY RowFacts DEF IInv, TypeOK, RowOK
<1>2. PICK u : u = [rows[x] EXCEPT !.on = IF kind = "artifact" THEN Merged(r.on, rows[x].on) ELSE rows[x].on,
                                   !.content = r.content, !.erratum = FALSE, !.replaces = Null,
                                   !.attrs = IF kind = "metric" THEN rows[x].attrs ELSE Plain]
  OBVIOUS
<1>3. Updated(r, x) = [rows EXCEPT ![x] = u]
  BY <1>1, <1>2 DEF Updated
<1>4. u.on = IF kind = "artifact" THEN Merged(r.on, rows[x].on) ELSE rows[x].on
  BY <1>1, <1>2 DEF Row
<1> HIDE <1>2
<1> QED
  BY <1>1, <1>3, <1>4

LEMMA UpdatedByRows ==
  ASSUME IInv, NEW m, NEW marks, NEW x \in Ids, Exists(x)
  PROVE  /\ UpdatedBy(m, marks, x)[x].on
              = IF kind = "artifact" THEN Merged(m.on, rows[x].on) ELSE rows[x].on
         /\ \A y \in Ids \ {x} : UpdatedBy(m, marks, x)[y] = rows[y]
<1>1. rows \in [Ids -> Row \cup {Null}] /\ rows[x] \in Row
  BY RowFacts DEF IInv, TypeOK, RowOK
<1>2. PICK u : u = [rows[x] EXCEPT
                     !.on = IF kind = "artifact" THEN Merged(m.on, rows[x].on) ELSE rows[x].on,
                     !.key = IF kind = "artifact" THEN m.key ELSE rows[x].key,
                     !.content = m.content,
                     !.erratum = IF marks THEN m.errata ELSE rows[x].erratum,
                     !.replaces = IF marks THEN Null ELSE rows[x].replaces,
                     !.attrs = IF marks THEN Plain ELSE rows[x].attrs]
  OBVIOUS
<1>3. UpdatedBy(m, marks, x) = [rows EXCEPT ![x] = u]
  BY <1>1, <1>2 DEF UpdatedBy
<1>4. u.on = IF kind = "artifact" THEN Merged(m.on, rows[x].on) ELSE rows[x].on
  BY <1>1, <1>2 DEF Row
<1> HIDE <1>2
<1> QED
  BY <1>1, <1>3, <1>4

(* A handoff adds a note and changes no row; attributes are those of a row *)
(* that is there.                                                          *)
LEMMA HandoffRows ==
  ASSUME IInv, NEW e \in Experiments, NEW k \in Keys, NEW c \in Given, Handoff(e, k, c),
         NEW x \in Ids, rows'[x] # rows[x]
  PROVE  /\ Fresh(x) /\ kind = "note" /\ rows'[x].key # Null /\ rows'[x].replaces = Null
         /\ \A p \in Procs : ~Ends(p)
<1>1. PICK z \in Ids : Fresh(z) /\ Write(Inserted(HandoffNote(e, k, c), z), {}) /\ kind = "note"
  BY DEF Handoff
<1>2. x = z /\ rows'[x] = NewRow(HandoffNote(e, k, c), Null) /\ Commit({})
  BY <1>1, InsertedRows DEF Write
<1>3. rows'[x].key = k /\ rows'[x].replaces = Null /\ k # Null
  BY <1>2, NullAssumption DEF NewRow, HandoffNote
<1> QED
  BY <1>1, <1>2, <1>3, NobodyEnds

LEMMA AttrsRows ==
  ASSUME IInv, NEW z \in Ids, NEW a \in Attrs, ReconcileAttrs(z, a),
         NEW x \in Ids, rows'[x] # rows[x]
  PROVE  /\ Exists(x) /\ kind \in {"artifact", "metric"}
         /\ rows'[x] = [rows[x] EXCEPT !.attrs = rows'[x].attrs]
         /\ \A p \in Procs : ~Ends(p)
<1>1. /\ kind \in {"artifact", "metric"} /\ Exists(z) /\ Commit({})
      /\ rows' = [rows EXCEPT ![z].attrs = a] /\ rows \in [Ids -> Row \cup {Null}]
  BY DEF ReconcileAttrs, Write, IInv, TypeOK
<1>2. x = z /\ rows[x] \in Row
  BY <1>1, RowFacts DEF RowOK
<1>3. rows'[x] = [rows[x] EXCEPT !.attrs = a] /\ rows'[x].attrs = a
  BY <1>1, <1>2 DEF Row
<1> QED
  BY <1>1, <1>2, <1>3, NobodyEnds

(* Who writes rows.                                                        *)
LEMMA RowWriters ==
  ASSUME IInv, [Next]_vars, rows' # rows
  PROVE  \/ \E x \in Ids : ArchiveRow(x) \/ ResolveNote(x)
         \/ \E e \in Experiments, k \in Keys, c \in Given : Handoff(e, k, c)
         \/ \E x \in Ids, a \in Attrs : ReconcileAttrs(x, a)
         \/ \E m \in ManifestRows : ReconcileRow(m)
         \/ \E p \in Procs : \/ Update(p) \/ Refresh(p)
                           \/ \E x \in Ids : Insert(p, x) \/ Replace(p, x)
BY DEF Next, vars, Ungated, Reconcile, Command, Archive, ReconcileLink, Check, LinkRead, RefreshRead,
   Begun, Find, Abort, Link

(* What the commit of a command that is not stale may rely on.             *)
LEMMA Relies ==
  ASSUME IInv, LookInv, NEW p \in Procs, Ready(p)
  PROVE  /\ Asked(p) \in Additions /\ Fits(Asked(p))
         /\ Met(p) # Null => Met(p) \in Ids /\ Exists(Met(p))
         /\ ops[p].stale \/ Current(p)
<1>1. InFlight(p) /\ Asked(p).does = "add"
  BY DEF Ready, InFlight
<1> QED
  BY <1>1, ReadyFacts DEF LookInv

(* Only an erratum has a mark, and its writer ends.                        *)
LEMMA Successions ==
  ASSUME IInv, LookInv, [Next]_vars, NEW x \in Ids, NEW y \in Ids, Supersedes(y, x)
  PROVE  \/ \E p \in Procs :
              /\ Ready(p) /\ Met(p) = x /\ Asked(p).errata /\ Ends(p)
              /\ \A q \in Procs : Ends(q) => q = p
              /\ rows'[y] = NewRow(Asked(p), x)
         \/ /\ \A p \in Procs : ~Ends(p)
            /\ \E m \in ManifestRows :
                 /\ Exists(x) /\ rows'[y] = NewRow(m, x)
                 /\ kind = "artifact" => Related(m.on, rows[x].on)
<1>0. /\ Fresh(y) /\ rows'[y] # Null /\ rows'[y].replaces = x /\ x # Null /\ rows' # rows
  BY NullAssumption DEF Supersedes, Fresh, Exists
<1>1. \A r : NewRow(r, Null).replaces = Null /\ \A z : NewRow(r, z).replaces = z
  BY DEF NewRow
<1>2. ASSUME NEW z \in Ids, ArchiveRow(z) \/ ResolveNote(z) PROVE FALSE
  <2>1. PICK u : rows' = [rows EXCEPT ![z] = u]
    BY <1>2 DEF ArchiveRow, ResolveNote, Write
  <2>2. Exists(z)
    BY <1>2 DEF ArchiveRow, ResolveNote
  <2>3. y # z
    BY <1>0, <2>2 DEF Fresh
  <2>4. rows'[y] = rows[y]
    BY <2>1, <2>3 DEF IInv, TypeOK
  <2> QED
    BY <1>0, <2>4 DEF Fresh, Exists
<1>3. ASSUME NEW m \in ManifestRows, ReconcileRow(m) PROVE
        /\ \A p \in Procs : ~Ends(p)
        /\ Exists(x) /\ rows'[y] = NewRow(m, x)
        /\ kind = "artifact" => Related(m.on, rows[x].on)
  <2>1. CASE ReconcileInsert(m)
    <3>1. PICK z \in Ids : rows' = Inserted(m, z)
      BY <2>1 DEF ReconcileInsert, Write
    <3> QED
      BY <1>0, <1>1, <3>1, InsertedRows DEF Fresh, Exists
  <2>2. CASE ReconcileReplace(m)
    <3>1. PICK old \in FoundBy(m), z \in Ids :
            /\ kind = "artifact" => Related(m.on, rows[old].on)
            /\ Fresh(z) /\ Write(Replaced(m, old, z), {})
      BY <2>2 DEF ReconcileReplace
    <3>2. rows' = Replaced(m, old, z) /\ Commit({}) /\ old \in Ids /\ Exists(old)
      BY <3>1, FoundExists DEF Write
    <3>3. /\ Replaced(m, old, z)[z] = NewRow(m, old)
          /\ \A w \in Ids \ {z, old} : Replaced(m, old, z)[w] = rows[w]
      BY <3>1, <3>2, ReplacedRows
    <3>4. y = z
      BY <1>0, <3>2, <3>3 DEF Fresh, Exists
    <3>5. rows'[y] = NewRow(m, old) /\ old = x
      BY <1>0, <1>1, <3>2, <3>3, <3>4
    <3> QED
      BY <3>1, <3>2, <3>5, NobodyEnds
  <2>3. CASE ReconcileUpdate(m)
    <3>1. PICK old \in FoundBy(m), marks \in BOOLEAN : rows' = UpdatedBy(m, marks, old)
      BY <2>3 DEF ReconcileUpdate, Write
    <3> QED
      BY <1>0, <3>1, FoundExists, UpdatedByRows DEF Fresh, Exists
  <2> QED
    BY <1>3, <2>1, <2>2, <2>3 DEF ReconcileRow
<1>4. ASSUME NEW p \in Procs, Update(p) PROVE FALSE
  <2>1. rows' = Updated(Asked(p), Met(p)) /\ Met(p) \in Ids /\ Exists(Met(p))
    BY <1>4, Relies DEF Update, Write
  <2> QED
    BY <1>0, <2>1, UpdatedRows DEF Fresh, Exists
<1>5. ASSUME NEW p \in Procs, Refresh(p) PROVE FALSE
  <2>1. Met(p) \in Ids /\ Exists(Met(p))
    BY <1>5 DEF Refresh, IInv, OpInv, TypeOK, Op, Met
  <2>2. rows'[y] = rows[y]
    BY <1>0, <1>5, <2>1 DEF Refresh, Write, IInv, TypeOK, Fresh
  <2> QED
    BY <1>0, <2>2 DEF Fresh, Exists
<1>6. ASSUME NEW p \in Procs, NEW z \in Ids, Insert(p, z) PROVE FALSE
  BY <1>0, <1>1, <1>6, InsertedRows DEF Insert, Write, Fresh, Exists
<1>7. ASSUME NEW p \in Procs, NEW z \in Ids, Replace(p, z)
      PROVE  /\ Ready(p) /\ Met(p) = x /\ Asked(p).errata /\ Ends(p)
             /\ \A q \in Procs : Ends(q) => q = p
             /\ rows'[y] = NewRow(Asked(p), x)
  <2>1. /\ Ready(p) /\ Asked(p).errata /\ Fresh(z) /\ Met(p) \in Ids /\ Exists(Met(p))
        /\ rows' = Replaced(Asked(p), Met(p), z) /\ Commit({p}) /\ InFlight(p)
    BY <1>7, Relies DEF Replace, Write, Ready, InFlight
  <2>2. /\ Replaced(Asked(p), Met(p), z)[z] = NewRow(Asked(p), Met(p))
        /\ \A w \in Ids \ {z, Met(p)} : Replaced(Asked(p), Met(p), z)[w] = rows[w]
    BY <2>1, ReplacedRows
  <2>3. y = z
    BY <1>0, <2>1, <2>2 DEF Fresh, Exists
  <2>4. rows'[y] = NewRow(Asked(p), Met(p)) /\ Met(p) = x
    BY <1>0, <1>1, <2>1, <2>2, <2>3
  <2> QED
    BY <2>1, <2>4, OneEnds
<1>8. ASSUME NEW e \in Experiments, NEW k \in Keys, NEW c \in Given, Handoff(e, k, c) PROVE FALSE
  <2>1. rows'[y] # rows[y]
    BY <1>0 DEF Fresh, Exists
  <2> QED
    BY <1>0, <1>8, <2>1, HandoffRows
<1>9. ASSUME NEW z \in Ids, NEW a \in Attrs, ReconcileAttrs(z, a) PROVE FALSE
  <2>1. rows'[y] # rows[y]
    BY <1>0 DEF Fresh, Exists
  <2> QED
    BY <1>0, <1>9, <2>1, AttrsRows DEF Fresh
<1> QED
  BY <1>0, <1>2, <1>3, <1>4, <1>5, <1>6, <1>7, <1>8, <1>9, RowWriters

-----------------------------------------------------------------------------
(* What a write changes in a row that is there, and by whom.               *)
LEMMA Changes ==
  ASSUME IInv, LookInv, [Next]_vars, NEW x \in Ids, Exists(x), rows'[x] # rows[x]
  PROVE  \/ ArchiveRow(x) /\ rows'[x] = [rows[x] EXCEPT !.archived = TRUE]
         \/ ResolveNote(x) /\ rows'[x] = [rows[x] EXCEPT !.content = Resolved]
         \/ /\ kind \in {"artifact", "metric"} /\ \A p \in Procs : ~Ends(p)
            /\ rows'[x] = [rows[x] EXCEPT !.attrs = rows'[x].attrs]
         \/ \E m \in ManifestRows :
              /\ MayTarget(m) /\ x \in FoundBy(m) /\ \A p \in Procs : ~Ends(p)
              /\ \/ rows'[x] = [rows[x] EXCEPT !.archived = TRUE]
                 \/ /\ ~Replacing(m) /\ MayUpdate(x)
                    /\ rows'[x].on = IF kind = "artifact" THEN Merged(m.on, rows[x].on) ELSE rows[x].on
         \/ \E p \in Procs :
              /\ Met(p) = x /\ Ends(p) /\ \A q \in Procs : Ends(q) => q = p
              /\ \/ Asked(p).does = "refresh"
                 \/ Ready(p) /\ rows'[x] = [rows[x] EXCEPT !.archived = TRUE]
                 \/ /\ Ready(p) /\ ~Asked(p).errata
                    /\ rows'[x].on = IF kind = "artifact" THEN Merged(Asked(p).on, rows[x].on)
                                     ELSE rows[x].on
<1>0. rows \in [Ids -> Row \cup {Null}] /\ rows' # rows
  BY DEF IInv, TypeOK
<1>1. ASSUME NEW z \in Ids, ArchiveRow(z)
      PROVE  ArchiveRow(x) /\ rows'[x] = [rows[x] EXCEPT !.archived = TRUE]
  BY <1>0, <1>1 DEF ArchiveRow, Write
<1>2. ASSUME NEW z \in Ids, ResolveNote(z)
      PROVE  ResolveNote(x) /\ rows'[x] = [rows[x] EXCEPT !.content = Resolved]
  BY <1>0, <1>2 DEF ResolveNote, Write
<1>3. ASSUME NEW m \in ManifestRows, ReconcileRow(m)
      PROVE  /\ MayTarget(m) /\ x \in FoundBy(m) /\ \A p \in Procs : ~Ends(p)
             /\ \/ rows'[x] = [rows[x] EXCEPT !.archived = TRUE]
                \/ /\ ~Replacing(m) /\ MayUpdate(x)
                   /\ rows'[x].on = IF kind = "artifact" THEN Merged(m.on, rows[x].on) ELSE rows[x].on
  <2>1. CASE ReconcileInsert(m)
    <3>1. PICK z \in Ids : Fresh(z) /\ rows' = Inserted(m, z)
      BY <2>1 DEF ReconcileInsert, Write
    <3> QED
      BY <3>1, InsertedRows DEF Fresh
  <2>2. CASE ReconcileReplace(m)
    <3>1. PICK old \in FoundBy(m), z \in Ids : Fresh(z) /\ Write(Replaced(m, old, z), {})
      BY <2>2 DEF ReconcileReplace
    <3>2. rows' = Replaced(m, old, z) /\ Commit({}) /\ old \in Ids /\ Exists(old)
      BY <3>1, FoundExists DEF Write
    <3>3. /\ Replaced(m, old, z)[z] = NewRow(m, old)
          /\ \A w \in Ids \ {z, old} : Replaced(m, old, z)[w] = rows[w]
      BY <3>1, <3>2, ReplacedRows
    <3>4. x = old
      BY <3>1, <3>2, <3>3 DEF Fresh
    <3>5. Replaced(m, old, z)[old] = [rows[old] EXCEPT !.archived = TRUE]
      BY <3>1, <3>2, RetiredRow
    <3> QED
      BY <1>3, <3>1, <3>2, <3>4, <3>5, NobodyEnds DEF ReconcileRow
  <2>3. CASE ReconcileUpdate(m)
    <3>1. PICK old \in FoundBy(m), marks \in BOOLEAN :
            MayUpdate(old) /\ Write(UpdatedBy(m, marks, old), {})
      BY <2>3 DEF ReconcileUpdate
    <3>2. rows' = UpdatedBy(m, marks, old) /\ Commit({}) /\ old \in Ids /\ Exists(old)
      BY <3>1, FoundExists DEF Write
    <3>3. x = old
      BY <3>2, UpdatedByRows
    <3>4. rows'[x].on = IF kind = "artifact" THEN Merged(m.on, rows[x].on) ELSE rows[x].on
      BY <3>2, <3>3, UpdatedByRows
    <3> QED
      BY <1>3, <2>3, <3>1, <3>2, <3>3, <3>4, NobodyEnds DEF ReconcileRow, ReconcileUpdate
  <2> QED
    BY <1>3, <2>1, <2>2, <2>3 DEF ReconcileRow
<1>4. ASSUME NEW p \in Procs, Update(p)
      PROVE  /\ Met(p) = x /\ Ends(p) /\ \A q \in Procs : Ends(q) => q = p
             /\ Ready(p) /\ ~Asked(p).errata
             /\ rows'[x].on = IF kind = "artifact" THEN Merged(Asked(p).on, rows[x].on) ELSE rows[x].on
  <2>1. /\ Ready(p) /\ ~Asked(p).errata /\ Met(p) \in Ids /\ Exists(Met(p)) /\ InFlight(p)
        /\ rows' = Updated(Asked(p), Met(p)) /\ Commit({p})
    BY <1>4, Relies DEF Update, Write, Ready, InFlight
  <2>2. x = Met(p)
    BY <2>1, UpdatedRows
  <2>3. rows'[x].on = IF kind = "artifact" THEN Merged(Asked(p).on, rows[x].on) ELSE rows[x].on
    BY <2>1, <2>2, UpdatedRows
  <2> QED
    BY <2>1, <2>2, <2>3, OneEnds
<1>5. ASSUME NEW p \in Procs, Refresh(p)
      PROVE  /\ Met(p) = x /\ Ends(p) /\ \A q \in Procs : Ends(q) => q = p
             /\ Asked(p).does = "refresh"
  <2>1. Met(p) = x
    <3>1. PICK u : rows' = [rows EXCEPT ![Met(p)] = u]
      BY <1>5 DEF Refresh, Write
    <3> QED
      BY <1>0, <3>1
  <2> QED
    BY <1>5, <2>1, OneEnds DEF Refresh, Write
<1>6. ASSUME NEW p \in Procs, NEW z \in Ids, Insert(p, z) PROVE FALSE
  <2>1. Fresh(z) /\ rows' = Inserted(Asked(p), z)
    BY <1>6 DEF Insert, Write
  <2> QED
    BY <2>1, InsertedRows DEF Fresh
<1>7. ASSUME NEW p \in Procs, NEW z \in Ids, Replace(p, z)
      PROVE  /\ Met(p) = x /\ Ends(p) /\ \A q \in Procs : Ends(q) => q = p
             /\ Ready(p) /\ rows'[x] = [rows[x] EXCEPT !.archived = TRUE]
  <2>1. /\ Ready(p) /\ Asked(p).errata /\ Fresh(z) /\ Met(p) \in Ids /\ Exists(Met(p))
        /\ rows' = Replaced(Asked(p), Met(p), z) /\ Commit({p}) /\ InFlight(p)
    BY <1>7, Relies DEF Replace, Write, Ready, InFlight
  <2>2. \A w \in Ids \ {z, Met(p)} : Replaced(Asked(p), Met(p), z)[w] = rows[w]
    BY <2>1, ReplacedRows
  <2>3. x = Met(p)
    BY <2>1, <2>2 DEF Fresh
  <2>4. Replaced(Asked(p), Met(p), z)[Met(p)] = [rows[Met(p)] EXCEPT !.archived = TRUE]
    BY <2>1, RetiredRow
  <2> QED
    BY <2>1, <2>3, <2>4, OneEnds
<1>8. ASSUME NEW e \in Experiments, NEW k \in Keys, NEW c \in Given, Handoff(e, k, c) PROVE FALSE
  BY <1>8, HandoffRows DEF Fresh
<1>9. ASSUME NEW z \in Ids, NEW a \in Attrs, ReconcileAttrs(z, a)
      PROVE  /\ kind \in {"artifact", "metric"} /\ \A p \in Procs : ~Ends(p)
             /\ rows'[x] = [rows[x] EXCEPT !.attrs = rows'[x].attrs]
  BY <1>9, AttrsRows
<1> QED
  BY <1>0, <1>1, <1>2, <1>3, <1>4, <1>5, <1>6, <1>7, <1>8, <1>9, RowWriters

(* A row that is archived is not changed and gets no other successor but   *)
(* by a refresh, a resolution, a manifest or a command whose lookup was    *)
(* overtaken by a commit (RetractedRowsRest).                              *)
THEOREM Retracted == Spec => RetractedRowsRest
<1> DEFINE A == \A x \in Ids :
                  /\ Exists(x) /\ rows[x].archived
                  /\ rows'[x] # rows[x] \/ \E y \in Ids : Supersedes(y, x)
                  => \A p \in Procs : Ends(p) => ops[p].stale \/ Asked(p).does = "refresh"
<1>1. ASSUME IInv, LookInv, [Next]_vars PROVE A
  <2> SUFFICES ASSUME NEW x \in Ids, Exists(x), rows[x].archived,
                      rows'[x] # rows[x] \/ \E y \in Ids : Supersedes(y, x),
                      NEW p \in Procs, Ends(p)
               PROVE  ops[p].stale \/ Asked(p).does = "refresh"
    OBVIOUS
  <2>1. ASSUME Ready(p), Met(p) = x PROVE ops[p].stale
    <3>1. x \notin Matching(Asked(p)) /\ x # Null
      BY NullAssumption DEF Matching, Active
    <3> QED
      BY <1>1, <2>1, <3>1, Relies DEF Current
  <2>2. CASE rows'[x] # rows[x]
    <3>1. ~ArchiveRow(x) /\ ~ResolveNote(x)
      BY <1>1, NobodyEnds DEF ArchiveRow, ResolveNote, Write
    <3>2. ~ \A q \in Procs : ~Ends(q)
      OBVIOUS
    <3>3. \E q \in Procs : /\ Met(q) = x /\ Ends(q) /\ \A r \in Procs : Ends(r) => r = q
                           /\ Asked(q).does = "refresh" \/ Ready(q)
      BY <1>1, <2>2, <3>1, <3>2, Changes
    <3> QED
      BY <2>1, <3>3
  <2>3. ASSUME NEW y \in Ids, Supersedes(y, x) PROVE ops[p].stale
    <3>1. Ready(p) /\ Met(p) = x
      BY <1>1, <2>3, Successions
    <3> QED
      BY <2>1, <3>1
  <2> QED
    BY <2>2, <2>3
<1>2. IInv /\ LookInv /\ [Next]_vars => [A]_vars
  BY <1>1
<1> QED
  BY <1>2, Looks, PTL DEF Spec, RetractedRowsRest

(* Whoever writes an erratum that takes the place of an artifact, the two  *)
(* have an owner in common or one of them has none, unless another commit  *)
(* came between the look at the owners and the write (ErrataStayHome).     *)
THEOREM ErrataHome == Spec => ErrataStayHome
<1> DEFINE A == \A x, y \in Ids :
       Supersedes(y, x) /\ kind = "artifact" =>
         \/ \E e \in Experiments :
              /\ rows[x].on.exp = e \/ <<e, rows[x].on.run>> \in links
              /\ rows'[y].on.exp = e \/ <<e, rows'[y].on.run>> \in links
         \/ \E t \in {rows[x].on, rows'[y].on} :
              t.exp = Null /\ \A e \in Experiments : <<e, t.run>> \notin links
         \/ \E p \in Procs : Ends(p) /\ ops[p].stale
<1>1. ASSUME IInv, LookInv, [Next]_vars PROVE A
  <2> SUFFICES ASSUME NEW x \in Ids, NEW y \in Ids, Supersedes(y, x), kind = "artifact",
                      ~ \E p \in Procs : Ends(p) /\ ops[p].stale
               PROVE  \/ \E e \in Experiments :
                           /\ rows[x].on.exp = e \/ <<e, rows[x].on.run>> \in links
                           /\ rows'[y].on.exp = e \/ <<e, rows'[y].on.run>> \in links
                      \/ \E t \in {rows[x].on, rows'[y].on} :
                           t.exp = Null /\ \A e \in Experiments : <<e, t.run>> \notin links
    OBVIOUS
  <2>1. ASSUME NEW r, Fits(r), Exists(x), Related(r.on, rows[x].on), rows'[y] = NewRow(r, x)
        PROVE  \/ \E e \in Experiments :
                    /\ rows[x].on.exp = e \/ <<e, rows[x].on.run>> \in links
                    /\ rows'[y].on.exp = e \/ <<e, rows'[y].on.run>> \in links
               \/ \E t \in {rows[x].on, rows'[y].on} :
                    t.exp = Null /\ \A e \in Experiments : <<e, t.run>> \notin links
    <3>1. rows'[y].on = r.on
      BY <2>1 DEF NewRow
    <3>2. r.on \in Target /\ rows[x].on \in Target
      BY <1>1, <2>1, RowFacts, TargetTypes DEF Fits, RowOK
    <3>3. ASSUME NEW t \in Target
          PROVE  /\ Owners(t) = {} => t.exp = Null /\ \A e \in Experiments : <<e, t.run>> \notin links
                 /\ \A e \in Owners(t) : e \in Experiments /\ (t.exp = e \/ <<e, t.run>> \in links)
      BY DEF Owners, Target
    <3>4. \/ Owners(r.on) = {} \/ Owners(rows[x].on) = {}
          \/ \E e \in Owners(r.on) : e \in Owners(rows[x].on)
      BY <2>1 DEF Related
    <3> QED
      BY <3>1, <3>2, <3>3, <3>4
  <2>2. ASSUME NEW p \in Procs, Ready(p), Met(p) = x, Asked(p).errata, Ends(p)
        PROVE  Fits(Asked(p)) /\ Exists(x) /\ Related(Asked(p).on, rows[x].on)
    <3>1. Fits(Asked(p)) /\ Exists(x) /\ Usable(Asked(p), x)
      BY <1>1, <2>2, Relies, NullAssumption DEF Current
    <3> QED
      BY <2>2, <3>1 DEF Usable
  <2> QED
    BY <1>1, <2>1, <2>2, ManifestTypes, Successions
<1>2. IInv /\ LookInv /\ [Next]_vars => [A]_vars
  BY <1>1
<1> QED
  BY <1>2, Looks, PTL DEF Spec, ErrataStayHome

-----------------------------------------------------------------------------
(* Where a new row comes from.                                             *)
LEMMA Arrivals ==
  ASSUME IInv, LookInv, [Next]_vars, NEW x \in Ids, Fresh(x), rows'[x] # rows[x]
  PROVE  \/ rows'[x].erratum
         \/ kind = "note" /\ rows'[x].key # Null
         \/ \E m \in ManifestRows :
              MayTarget(m) /\ rows'[x] = NewRow(m, Null) /\ \A p \in Procs : ~Ends(p)
         \/ \E p \in Procs :
              /\ Ready(p) /\ rows'[x] = NewRow(Asked(p), Null)
              /\ Ends(p) /\ \A q \in Procs : Ends(q) => q = p
<1>0. rows \in [Ids -> Row \cup {Null}] /\ rows' # rows
  BY DEF IInv, TypeOK
<1>1. ASSUME NEW z \in Ids, Exists(z), NEW u, rows' = [rows EXCEPT ![z] = u] PROVE FALSE
  BY <1>0, <1>1 DEF Fresh
<1>2. ASSUME NEW z \in Ids, ArchiveRow(z) \/ ResolveNote(z) PROVE FALSE
  <2>1. Exists(z) /\ \E u : rows' = [rows EXCEPT ![z] = u]
    BY <1>2 DEF ArchiveRow, ResolveNote, Write
  <2> QED
    BY <1>1, <2>1
<1>3. ASSUME NEW m \in ManifestRows, ReconcileRow(m)
      PROVE  \/ rows'[x].erratum
             \/ MayTarget(m) /\ rows'[x] = NewRow(m, Null) /\ \A p \in Procs : ~Ends(p)
  <2>1. CASE ReconcileInsert(m)
    <3>1. PICK z \in Ids : Write(Inserted(m, z), {})
      BY <2>1 DEF ReconcileInsert
    <3>2. rows' = Inserted(m, z) /\ Commit({})
      BY <3>1 DEF Write
    <3>3. x = z
      BY <3>2, InsertedRows
    <3>4. rows'[x] = NewRow(m, Null)
      BY <3>2, <3>3, InsertedRows
    <3> QED
      BY <1>3, <3>2, <3>4, NobodyEnds DEF ReconcileRow
  <2>2. CASE ReconcileReplace(m)
    <3>1. PICK old \in FoundBy(m), z \in Ids : Fresh(z) /\ Write(Replaced(m, old, z), {})
      BY <2>2 DEF ReconcileReplace
    <3>2. rows' = Replaced(m, old, z) /\ old \in Ids /\ Exists(old)
      BY <3>1, FoundExists DEF Write
    <3>3. /\ Replaced(m, old, z)[z] = NewRow(m, old)
          /\ \A w \in Ids \ {z, old} : Replaced(m, old, z)[w] = rows[w]
      BY <3>1, <3>2, ReplacedRows
    <3>4. rows'[x] = NewRow(m, old)
      BY <3>2, <3>3 DEF Fresh
    <3> QED
      BY <2>2, <3>4 DEF NewRow, ReconcileReplace, Replacing
  <2>3. CASE ReconcileUpdate(m)
    <3>1. PICK old \in FoundBy(m), marks \in BOOLEAN : rows' = UpdatedBy(m, marks, old)
      BY <2>3 DEF ReconcileUpdate, Write
    <3>2. old \in Ids /\ Exists(old) /\ \E u : rows' = [rows EXCEPT ![old] = u]
      BY <3>1, FoundExists DEF UpdatedBy
    <3> QED
      BY <1>1, <3>2
  <2> QED
    BY <1>3, <2>1, <2>2, <2>3 DEF ReconcileRow
<1>4. ASSUME NEW p \in Procs, Update(p) \/ Refresh(p) PROVE FALSE
  <2>1. Met(p) \in Ids /\ Exists(Met(p))
    BY <1>4, Relies DEF Update, Refresh, IInv, OpInv, TypeOK, Op, Met
  <2>2. \E u : rows' = [rows EXCEPT ![Met(p)] = u]
    BY <1>4 DEF Update, Refresh, Write, Updated
  <2> QED
    BY <1>1, <2>1, <2>2
<1>5. ASSUME NEW p \in Procs, NEW z \in Ids, Insert(p, z)
      PROVE  /\ Ready(p) /\ rows'[x] = NewRow(Asked(p), Null)
             /\ Ends(p) /\ \A q \in Procs : Ends(q) => q = p
  <2>1. Ready(p) /\ InFlight(p) /\ rows' = Inserted(Asked(p), z) /\ Commit({p})
    BY <1>5 DEF Insert, Write, Ready, InFlight
  <2>2. x = z
    BY <2>1, InsertedRows
  <2>3. rows'[x] = NewRow(Asked(p), Null)
    BY <2>1, <2>2, InsertedRows
  <2> QED
    BY <2>1, <2>3, OneEnds
<1>6. ASSUME NEW p \in Procs, NEW z \in Ids, Replace(p, z) PROVE rows'[x].erratum
  <2>1. /\ Ready(p) /\ Asked(p).errata /\ Fresh(z) /\ Met(p) \in Ids /\ Exists(Met(p))
        /\ rows' = Replaced(Asked(p), Met(p), z)
    BY <1>6, Relies DEF Replace, Write
  <2>2. /\ Replaced(Asked(p), Met(p), z)[z] = NewRow(Asked(p), Met(p))
        /\ \A w \in Ids \ {z, Met(p)} : Replaced(Asked(p), Met(p), z)[w] = rows[w]
    BY <2>1, ReplacedRows
  <2>3. rows'[x] = NewRow(Asked(p), Met(p))
    BY <2>1, <2>2 DEF Fresh
  <2> QED
    BY <2>1, <2>3 DEF NewRow
<1>7. ASSUME NEW e \in Experiments, NEW k \in Keys, NEW c \in Given, Handoff(e, k, c)
      PROVE  kind = "note" /\ rows'[x].key # Null
  BY <1>7, HandoffRows
<1>8. ASSUME NEW z \in Ids, NEW a \in Attrs, ReconcileAttrs(z, a) PROVE FALSE
  BY <1>8, AttrsRows DEF Fresh
<1> QED
  BY <1>0, <1>2, <1>3, <1>4, <1>5, <1>6, <1>7, <1>8, RowWriters

(* The gate: what is open is not shut, nor is what two open targets merge  *)
(* to.                                                                     *)
LEMMA OpenIsNotShut ==
  ASSUME IInv, NEW t \in Target, Open(t)
  PROVE  ~Shut(t)
<1>1. \A e : <<e, t.run>> \in links => e \in Experiments
  BY BoundAssumption DEF IInv, TypeOK
<1>2. Null \notin archived
  BY BoundAssumption, NullAssumption DEF IInv, TypeOK
<1> QED
  BY <1>1, <1>2 DEF Open, Owners, Shut

LEMMA MergedIsNotShut ==
  ASSUME NEW t, NEW u, ~Shut(t), ~Shut(u)
  PROVE  ~Shut(Merged(t, u))
<1>1. Merged(t, u).exp \in {t.exp, u.exp} /\ Merged(t, u).run \in {t.run, u.run}
  BY DEF Merged, Either
<1> QED
  BY <1>1 DEF Shut

(* A command with a gate that is not stale is aimed at what is not shut,   *)
(* unless it adds an erratum.                                              *)
LEMMA GatePassed ==
  ASSUME IInv, LookInv, NEW p \in Procs, Ready(p), ~ops[p].stale
  PROVE  /\ kind # "metric" => Asked(p).gated
         /\ Asked(p).gated /\ ~Asked(p).errata => ~Shut(Asked(p).on)
         /\ Met(p) # Null /\ kind # "artifact" =>
              kind # "note" /\ rows[Met(p)].on = Asked(p).on
<1>1. Asked(p) \in Additions /\ Fits(Asked(p)) /\ Current(p)
  BY Relies
<1>2. kind # "metric" => Asked(p).gated
  BY <1>1 DEF Additions
<1>3. Asked(p).gated /\ ~Asked(p).errata => Open(Asked(p).on)
  BY <1>1 DEF Current, Permitted
<1>4. Asked(p).on \in Target
  BY <1>1, TargetTypes DEF Fits
<1>5. Met(p) # Null /\ kind # "artifact" =>
        kind # "note" /\ rows[Met(p)].on = Asked(p).on
  BY <1>1 DEF Current, Matching, SameKey
<1> QED
  BY <1>2, <1>3, <1>4, <1>5, OpenIsNotShut

(* A row of a manifest that is allowed is aimed at what is not shut.       *)
LEMMA ManifestPassed ==
  ASSUME IInv, NEW m \in ManifestRows, MayTarget(m), kind # "metric", ~m.errata
  PROVE  ~Shut(m.on)
<1>1. Open(m.on) /\ m.on \in Target
  BY ManifestTypes, TargetTypes DEF MayTarget, Fits
<1> QED
  BY <1>1, OpenIsNotShut

(* The exceptions that ClosedToEvidence names.                             *)
Excused(x) ==
  \/ kind = "note" /\ rows[x] # Null /\ rows'[x] = [rows[x] EXCEPT !.content = Resolved]
  \/ kind = "note" /\ rows[x] = Null /\ rows'[x].key # Null
  \/ /\ kind = "artifact" /\ rows[x] # Null
     /\ rows'[x] = [rows[x] EXCEPT !.attrs = rows'[x].attrs]
     /\ \A p \in Procs : ~Ends(p)
  \/ kind = "metric" /\ \A p \in Procs : Ends(p) => ~Asked(p).gated
  \/ \E p \in Procs :
       /\ Ends(p)
       /\ \/ ops[p].stale
          \/ Asked(p).does = "refresh"
          \/ kind = "artifact" /\ Met(p) = x /\ Asked(p).does = "add" /\ ~Shut(Asked(p).on)

(* New rows, and then rows that change.                                    *)
LEMMA NewEvidence ==
  ASSUME IInv, LookInv, [Next]_vars, NEW x \in Ids, Fresh(x), Intrudes(x)
  PROVE  Excused(x)
<1>0. rows'[x] # rows[x] /\ Shut(rows'[x].on) /\ ~rows'[x].erratum
  BY DEF Intrudes, Written, Fresh
<1>1. \A r : NewRow(r, Null).on = r.on /\ NewRow(r, Null).erratum = r.errata
  BY DEF NewRow
<1>2. ASSUME NEW m \in ManifestRows, MayTarget(m), rows'[x] = NewRow(m, Null),
             \A p \in Procs : ~Ends(p)
      PROVE  Excused(x)
  BY <1>0, <1>1, <1>2, ManifestPassed DEF Excused
<1>3. ASSUME NEW p \in Procs, Ready(p), rows'[x] = NewRow(Asked(p), Null), Ends(p),
             \A q \in Procs : Ends(q) => q = p
      PROVE  Excused(x)
  <2>1. CASE ops[p].stale
    BY <1>3, <2>1 DEF Excused
  <2>2. CASE ~ops[p].stale
    <3>1. ~Asked(p).gated /\ kind = "metric"
      BY <1>0, <1>1, <1>3, <2>2, GatePassed
    <3> QED
      BY <1>3, <3>1 DEF Excused
  <2> QED
    BY <2>1, <2>2
<1>4. CASE kind = "note" /\ rows'[x].key # Null
  BY <1>4 DEF Excused, Fresh, Exists
<1> QED
  BY <1>0, <1>2, <1>3, <1>4, Arrivals

LEMMA ChangedEvidence ==
  ASSUME IInv, LookInv, [Next]_vars, NEW x \in Ids, Exists(x), Intrudes(x)
  PROVE  Excused(x)
<1>0. /\ rows'[x] # rows[x] /\ rows'[x] # [rows[x] EXCEPT !.archived = TRUE]
      /\ Shut(rows[x].on) \/ Shut(rows'[x].on)
  BY DEF Intrudes, Written
<1>1. rows[x].on \in Target
  BY RowFacts, TargetTypes DEF RowOK
<1>2. CASE ResolveNote(x) /\ rows'[x] = [rows[x] EXCEPT !.content = Resolved]
  BY <1>2 DEF Excused, ResolveNote, Exists
<1>3. ASSUME NEW m \in ManifestRows, MayTarget(m), \A p \in Procs : ~Ends(p),
             ~Replacing(m), MayUpdate(x),
             rows'[x].on = IF kind = "artifact" THEN Merged(m.on, rows[x].on) ELSE rows[x].on
      PROVE  Excused(x)
  <2>1. CASE kind = "metric"
    BY <1>3, <2>1 DEF Excused
  <2>2. CASE kind # "metric"
    <3>1. ~Shut(rows[x].on)
      BY <1>1, <1>3, <2>2, OpenIsNotShut DEF MayUpdate
    <3>2. kind = "artifact" => ~Shut(Merged(m.on, rows[x].on))
      BY <1>3, <2>2, <3>1, ManifestPassed, MergedIsNotShut DEF Replacing
    <3> QED
      BY <1>0, <1>3, <3>1, <3>2
  <2> QED
    BY <2>1, <2>2
<1>4. ASSUME NEW p \in Procs, Met(p) = x, Ends(p), \A q \in Procs : Ends(q) => q = p,
             Ready(p), ~Asked(p).errata,
             rows'[x].on = IF kind = "artifact" THEN Merged(Asked(p).on, rows[x].on) ELSE rows[x].on
      PROVE  Excused(x)
  <2>1. CASE ops[p].stale
    BY <1>4, <2>1 DEF Excused
  <2>2. CASE ~ops[p].stale
    <3>1. Met(p) # Null /\ Asked(p).does = "add"
      BY <1>4, NullAssumption DEF Ready
    <3>2. CASE kind = "artifact"
      <4>1. ~Shut(Asked(p).on)
        BY <1>4, <2>2, <3>2, GatePassed
      <4> QED
        BY <1>4, <3>1, <3>2, <4>1 DEF Excused
    <3>3. CASE kind # "artifact"
      <4>1. ~Asked(p).gated /\ kind = "metric"
        BY <1>0, <1>4, <2>2, <3>1, <3>3, GatePassed
      <4> QED
        BY <1>4, <4>1 DEF Excused
    <3> QED
      BY <3>2, <3>3
  <2> QED
    BY <2>1, <2>2
<1>5. ASSUME NEW p \in Procs, Ends(p), Asked(p).does = "refresh" PROVE Excused(x)
  BY <1>5 DEF Excused
<1>6. CASE /\ kind \in {"artifact", "metric"} /\ \A p \in Procs : ~Ends(p)
           /\ rows'[x] = [rows[x] EXCEPT !.attrs = rows'[x].attrs]
  BY <1>6 DEF Excused, Exists
<1> QED
  BY <1>0, <1>2, <1>3, <1>4, <1>5, <1>6, Changes

(* What an archived experiment owns gets errata and is not changed in      *)
(* place, whatever is archived, linked and written between the gate of a   *)
(* command and its write, but for the exceptions (ClosedToEvidence).       *)
THEOREM EvidenceIsClosed == Spec => ClosedToEvidence
<1> DEFINE A == \A x \in Ids : Intrudes(x) =>
       \/ kind = "note" /\ rows[x] # Null /\ rows'[x] = [rows[x] EXCEPT !.content = Resolved]
       \/ kind = "note" /\ rows[x] = Null /\ rows'[x].key # Null
       \/ /\ kind = "artifact" /\ rows[x] # Null
          /\ rows'[x] = [rows[x] EXCEPT !.attrs = rows'[x].attrs]
          /\ \A p \in Procs : ~Ends(p)
       \/ kind = "metric" /\ \A p \in Procs : Ends(p) => ~Asked(p).gated
       \/ \E p \in Procs :
            /\ Ends(p)
            /\ \/ ops[p].stale
               \/ Asked(p).does = "refresh"
               \/ kind = "artifact" /\ Met(p) = x /\ Asked(p).does = "add" /\ ~Shut(Asked(p).on)
<1>1. ASSUME IInv, LookInv, [Next]_vars PROVE A
  <2>1. ASSUME NEW x \in Ids, Intrudes(x) PROVE Excused(x)
    BY <1>1, <2>1, NewEvidence, ChangedEvidence DEF Fresh
  <2> QED
    BY <2>1 DEF Excused
<1>2. IInv /\ LookInv /\ [Next]_vars => [A]_vars
  BY <1>1
<1> QED
  BY <1>2, Looks, PTL DEF Spec, ClosedToEvidence

(* A refresh that nothing has overtaken writes back the attributes that    *)
(* its row still has, so that what a manifest has said of an artifact is   *)
(* lost to refreshes whose read is out of date only (RefreshKeepsAttrs).   *)
THEOREM AttrsKept == Spec => RefreshKeepsAttrs
<1> DEFINE A == \A p \in Procs :
       Ends(p) /\ Asked(p).does = "refresh" /\ rows'[Met(p)].attrs # rows[Met(p)].attrs
         => ops[p].stale
<1>1. ASSUME IInv, LookInv, [Next]_vars PROVE A
  <2> SUFFICES ASSUME NEW p \in Procs, Ends(p), Asked(p).does = "refresh", ~ops[p].stale
               PROVE  rows'[Met(p)].attrs = rows[Met(p)].attrs
    OBVIOUS
  <2>1. /\ InFlight(p) /\ Met(p) \in Ids /\ Exists(Met(p)) /\ rows[Met(p)] \in Row
        /\ ops[p].attrs = rows[Met(p)].attrs /\ ops \in [Procs -> Op]
    BY <1>1, RowFacts DEF Ends, IInv, OpInv, TypeOK, Op, Met, LookInv, RowOK
  <2>2. CASE rows'[Met(p)] = rows[Met(p)]
    BY <2>2
  <2>3. ASSUME Refresh(p) PROVE rows'[Met(p)].attrs = rows[Met(p)].attrs
    <3>2. rows' = [rows EXCEPT ![Met(p)] =
            [@ EXCEPT !.content = Asked(p).content, !.erratum = Asked(p).errata,
                      !.replaces = ops[p].replaces, !.attrs = ops[p].attrs]]
      BY <2>3 DEF Refresh, Write
    <3>3. rows'[Met(p)].attrs = ops[p].attrs
      BY <1>1, <2>1, <3>2 DEF IInv, TypeOK, Row
    <3> QED
      BY <2>1, <3>3
  <2>4. ASSUME rows'[Met(p)] # rows[Met(p)] PROVE Refresh(p)
    <3>1. ~ \A q \in Procs : ~Ends(q)
      OBVIOUS
    <3>2. ASSUME NEW q \in Procs, InFlight(q), Commit({q}) PROVE q = p
      BY <1>1, <3>2, OneEnds
    <3>3. ASSUME NEW q \in Procs, Ready(q) PROVE q # p
      BY <3>3 DEF Ready
    <3>4. ~Commit({})
      BY <1>1, <3>1, NobodyEnds
    <3>5. ASSUME NEW q \in Procs, Update(q) PROVE FALSE
      BY <3>5, <3>2, <3>3 DEF Update, Write, Ready, InFlight
    <3>6. ASSUME NEW q \in Procs, NEW x \in Ids, Insert(q, x) \/ Replace(q, x) PROVE FALSE
      BY <3>6, <3>2, <3>3 DEF Insert, Replace, Write, Ready, InFlight
    <3>7. ASSUME NEW q \in Procs, Refresh(q) PROVE Refresh(p)
      BY <3>7, <3>2 DEF Refresh, Write
    <3>8. ~ \E x \in Ids : ArchiveRow(x) \/ ResolveNote(x)
      BY <3>4 DEF ArchiveRow, ResolveNote, Write
    <3>9. /\ ~ \E e \in Experiments, k \in Keys, c \in Given : Handoff(e, k, c)
          /\ ~ \E x \in Ids, a \in Attrs : ReconcileAttrs(x, a)
          /\ ~ \E m \in ManifestRows : ReconcileRow(m)
      BY <3>4 DEF Handoff, ReconcileAttrs, ReconcileRow, ReconcileInsert, ReconcileReplace,
         ReconcileUpdate, Write
    <3>10. rows' # rows
      BY <2>4
    <3> QED
      BY <1>1, <3>5, <3>6, <3>7, <3>8, <3>9, <3>10, RowWriters
  <2> QED
    BY <2>2, <2>3, <2>4
<1>2. IInv /\ LookInv /\ [Next]_vars => [A]_vars
  BY <1>1
<1> QED
  BY <1>2, Looks, PTL DEF Spec, RefreshKeepsAttrs

-----------------------------------------------------------------------------
(* Freshness: what the writers of artifacts and validations keep true.     *)

(* What a command has been asked, and where what it was asked about is.    *)
RequestedOK(o) ==
  o.phase # "idle" =>
    /\ o.request \in TaskRequest
    /\ o.request.does = "validate" /\ o.request.source # None => IsThere(o.request.source)

(* A validation whose source has not been overtaken is older than the      *)
(* artifact, or knows what was captured of it.                             *)
Knows(v) ==
  v.source # None =>
    /\ IsThere(v.source)
    /\ \/ v.overtaken
       \/ artifacts[v.source].at > v.at
       \/ artifacts[v.source].captured = v.captured

EvidenceInv ==
  /\ follows \in Behaviours
  /\ now \in Time
  /\ linked \subseteq RunIds
  /\ files \in [Arts -> Stamp]
  /\ artifacts \in [Arts -> Artifact \cup {None}]
  /\ validations \in [Checks -> Validation \cup {None}]
  /\ tasks \in [Writers -> Task]
  /\ \A p \in Writers : RequestedOK(tasks[p])
  /\ \A c \in Checks : validations[c] # None => Knows(validations[c])

LEMMA EvidenceInit == InitEvidence => EvidenceInv
<1> SUFFICES ASSUME InitEvidence PROVE EvidenceInv
  OBVIOUS
<1>1. follows \in Behaviours /\ now \in Time /\ linked \subseteq RunIds
  BY TimeAssumption DEF InitEvidence, Time
<1>2. files \in [Arts -> Stamp] /\ artifacts \in [Arts -> Artifact \cup {None}]
      /\ validations \in [Checks -> Validation \cup {None}]
  BY DEF InitEvidence
<1>3. NoTask \in Task
  BY TimeAssumption DEF NoTask, Task, NoFiles, Stamp, Time
<1>4. tasks \in [Writers -> Task] /\ \A p \in Writers : RequestedOK(tasks[p])
  <2>1. tasks = [p \in Writers |-> NoTask]
    BY DEF InitEvidence
  <2>2. RequestedOK(NoTask)
    BY DEF RequestedOK, NoTask
  <2> QED BY <1>3, <2>1, <2>2
<1>5. \A c \in Checks : validations[c] = None
  BY DEF InitEvidence
<1> QED BY <1>1, <1>2, <1>4, <1>5 DEF EvidenceInv

(* No artifact is lost, so that a source stays where it is.                *)
LEMMA RequestedKept ==
  ASSUME NEW o, RequestedOK(o), \A a \in Arts : IsThere(a) => IsThere(a)', o \in Task
  PROVE  RequestedOK(o)'
<1> SUFFICES ASSUME o.phase # "idle", o.request.does = "validate", o.request.source # None
             PROVE  IsThere(o.request.source)'
  BY DEF RequestedOK
<1>1. o.request \in TaskRequest /\ IsThere(o.request.source)
  BY DEF RequestedOK
<1>2. o.request.source \in Arts
  BY <1>1 DEF TaskRequest
<1> QED BY <1>1, <1>2

(* Where nothing but commands has moved, and each by a command that is well *)
(* asked, all stays.                                                       *)
LEMMA OpsMoved ==
  ASSUME EvidenceInv, UNCHANGED <<follows, now, linked, files, artifacts, validations>>,
         NEW p \in Writers, NEW o \in Task, RequestedOK(o), tasks' = [tasks EXCEPT ![p] = o]
  PROVE  EvidenceInv'
<1>1. tasks' \in [Writers -> Task]
  BY DEF EvidenceInv
<1>2. ASSUME NEW q \in Writers PROVE RequestedOK(tasks[q])'
  <2>1. (tasks[q])' = tasks[q] \/ (tasks[q])' = o
    BY DEF EvidenceInv
  <2>2. RequestedOK(tasks[q])
    BY DEF EvidenceInv
  <2> QED BY <2>1, <2>2 DEF RequestedOK, IsThere
<1>3. ASSUME NEW c \in Checks, validations[c] # None PROVE Knows(validations[c])'
  <2>1. Knows(validations[c])
    BY <1>3 DEF EvidenceInv
  <2> QED BY <2>1 DEF Knows, IsThere
<1> QED BY <1>1, <1>2, <1>3 DEF EvidenceInv

LEMMA IdleOp == NoTask \in Task /\ RequestedOK(NoTask)
  BY TimeAssumption DEF NoTask, Task, NoFiles, Stamp, Time, RequestedOK

LEMMA Beginning ==
  ASSUME EvidenceInv, NEW p \in Writers, NEW phase \in {"looked", "timed"}, NEW request \in TaskRequest,
         request.does = "validate" /\ request.source # None => IsThere(request.source),
         NEW found \in BOOLEAN, NEW stamp \in Stamp, Began(p, phase, request, found, stamp)
  PROVE  EvidenceInv'
<1> DEFINE o == [phase |-> phase, request |-> request, found |-> found,
                 stamp |-> stamp, seen |-> files, at |-> IF phase = "timed" THEN now ELSE 0]
<1>1. o \in Task
  BY TimeAssumption DEF Task, EvidenceInv, Time
<1>2. RequestedOK(o)
  BY DEF RequestedOK
<1>3. tasks' = [tasks EXCEPT ![p] = o]
  BY DEF Began
<1>4. UNCHANGED <<follows, now, linked, files, artifacts, validations>>
  BY DEF Began
<1> HIDE DEF o
<1> QED BY <1>1, <1>2, <1>3, <1>4, OpsMoved

(* Artifact a is written: its validations are older than it, or overtaken. *)
LEMMA Writing ==
  ASSUME EvidenceInv, NEW a \in Arts, NEW row \in Artifact, Rewritten(a, row, row.at),
         tasks' \in [Writers -> Task], \A p \in Writers : tasks'[p] \in {tasks[p], NoTask}
  PROVE  EvidenceInv'
<1>1. /\ UNCHANGED <<follows, now, linked, files>> /\ artifacts' = [artifacts EXCEPT ![a] = row]
      /\ artifacts' \in [Arts -> Artifact \cup {None}]
  BY DEF Rewritten, EvidenceInv
<1>2. row # None
  BY NoneAssumption
<1>3. \A b \in Arts : IsThere(b) => IsThere(b)'
  BY <1>1, <1>2 DEF IsThere, EvidenceInv
<1>4. ASSUME NEW p \in Writers PROVE RequestedOK(tasks[p])'
  <2>1. tasks'[p] = tasks[p] \/ tasks'[p] = NoTask
    OBVIOUS
  <2>2. RequestedOK(tasks[p]) /\ tasks[p] \in Task
    BY DEF EvidenceInv
  <2>3. ASSUME NEW o, o = tasks[p] PROVE RequestedOK(o)'
    BY <1>3, <2>2, <2>3, RequestedKept
  <2> QED BY <2>1, <2>2, <1>3 DEF RequestedOK, NoTask, Task, TaskRequest
<1>5. ASSUME NEW c \in Checks, validations[c] = None PROVE validations'[c] = None
  BY <1>5 DEF Rewritten
<1>6. ASSUME NEW c \in Checks, validations[c] # None
      PROVE  validations'[c] \in Validation /\ Knows(validations[c])'
  <2> DEFINE v == validations[c]
  <2>1. v \in Validation /\ Knows(v)
    BY <1>6 DEF EvidenceInv
  <2>2. CASE v.source = a /\ row.at <= v.at
    <3> DEFINE w == [v EXCEPT !.overtaken = TRUE]
    <3>1. w \in Validation /\ w.overtaken /\ w.source = a
      BY <2>1, <2>2 DEF Validation
    <3>2. validations'[c] = w
      BY <1>6, <2>2 DEF Rewritten
    <3>3. IsThere(a)'
      BY <1>1, <1>2 DEF IsThere, EvidenceInv
    <3> HIDE DEF w
    <3> QED BY <3>1, <3>2, <3>3 DEF Knows
  <2>3. CASE ~ (v.source = a /\ row.at <= v.at)
    <3>1. validations'[c] = v
      BY <1>6, <2>3 DEF Rewritten
    <3>2. CASE v.source = a
      <4>1. row.at > v.at
        BY <2>1, <2>3, <3>2 DEF Artifact, Validation, Time
      <4>2. artifacts'[a] = row
        BY <1>1 DEF EvidenceInv
      <4> QED BY <1>2, <2>1, <3>1, <3>2, <4>1, <4>2 DEF Knows, IsThere
    <3>3. CASE v.source # a
      <4>1. v.source # None => v.source \in Arts /\ artifacts'[v.source] = artifacts[v.source]
        BY <1>1, <2>1, <3>3 DEF EvidenceInv, Validation
      <4> QED BY <2>1, <3>1, <4>1 DEF Knows, IsThere
    <3> QED BY <3>2, <3>3
  <2> QED BY <2>2, <2>3
<1>7. validations' \in [Checks -> Validation \cup {None}]
  <2>1. validations' = [c \in Checks |-> validations'[c]]
    BY DEF Rewritten
  <2> QED BY <1>5, <1>6, <2>1
<1> QED BY <1>1, <1>4, <1>5, <1>6, <1>7 DEF EvidenceInv

-----------------------------------------------------------------------------
(* The steps of the evidence, each by one of the three.                    *)
LEMMA LookingStep ==
  ASSUME EvidenceInv, NEW p \in Writers, NEW a \in Arts, AddLook(p, a) \/ RefreshLook(p, a)
  PROVE  EvidenceInv'
<1>1. files[a] \in Stamp
  BY DEF EvidenceInv
<1>2. ASSUME NEW does \in {"add", "refresh"}, NEW found \in BOOLEAN,
             Began(p, "looked", [does |-> does, on |-> a], found, files[a])
      PROVE  EvidenceInv'
  <2> DEFINE request == [does |-> does, on |-> a]
  <2>1. request \in TaskRequest /\ request.does # "validate"
    BY DEF TaskRequest
  <2> HIDE DEF request
  <2> QED BY <1>1, <1>2, <2>1, Beginning DEF request
<1>3. IsThere(a) \in BOOLEAN
  BY DEF IsThere
<1> QED BY <1>2, <1>3 DEF AddLook, RefreshLook

LEMMA ValidateLookStep ==
  ASSUME EvidenceInv, NEW p \in Writers, NEW c \in Checks, NEW source \in Arts \cup {None},
         NEW failing \in BOOLEAN, ValidateLook(p, c, source, failing)
  PROVE  EvidenceInv'
<1> DEFINE request == [does |-> "validate", on |-> c, source |-> source, failing |-> failing]
           found == validations[c] # None
<1>1. request \in TaskRequest /\ request.source = source
  BY DEF TaskRequest
<1>2. found \in BOOLEAN /\ None \in Stamp
  BY DEF Stamp
<1>3. Began(p, "timed", request, found, None) /\ (source # None => IsThere(source))
  BY DEF ValidateLook
<1> HIDE DEF request, found
<1> QED BY <1>1, <1>2, <1>3, Beginning

LEMMA TakeTimeStep ==
  ASSUME EvidenceInv, NEW p \in Writers, TakeTime(p)
  PROVE  EvidenceInv'
<1> DEFINE o == [tasks[p] EXCEPT !.phase = "timed", !.at = now]
<1>1. tasks[p] \in Task /\ RequestedOK(tasks[p]) /\ tasks[p].phase = "looked" /\ now \in Time
  BY DEF EvidenceInv, TakeTime
<1>2. o \in Task /\ o.request = tasks[p].request
  BY <1>1 DEF Task
<1>3. RequestedOK(o)
  BY <1>1, <1>2 DEF RequestedOK
<1>4. tasks' = [tasks EXCEPT ![p] = o]
  BY DEF TakeTime, EvidenceInv
<1>5. UNCHANGED <<follows, now, linked, files, artifacts, validations>>
  BY DEF TakeTime
<1> HIDE DEF o
<1> QED BY <1>2, <1>3, <1>4, <1>5, OpsMoved

LEMMA AbortStep ==
  ASSUME EvidenceInv, NEW p \in Writers, Drop(p)
  PROVE  EvidenceInv'
  BY IdleOp, OpsMoved DEF Drop, Done

LEMMA DoneOps ==
  ASSUME EvidenceInv, NEW p \in Writers, Done(p)
  PROVE  tasks' \in [Writers -> Task] /\ \A q \in Writers : tasks'[q] \in {tasks[q], NoTask}
  BY IdleOp DEF Done, EvidenceInv

LEMMA WriteArtifactStep ==
  ASSUME EvidenceInv, NEW p \in Writers, WriteArtifact(p)
  PROVE  EvidenceInv'
<1> DEFINE a == TargetOf(p)
           row == [at |-> tasks[p].at, captured |-> tasks[p].stamp,
                   archived |-> IsThere(a) /\ artifacts[a].archived]
<1>1. tasks[p] \in Task /\ tasks[p].phase = "timed" /\ Requested(p) \in TaskRequest /\ Requested(p).does \in {"add", "refresh"}
  BY DEF EvidenceInv, WriteArtifact, RequestedOK, Requested
<1>2. a \in Arts
  BY <1>1 DEF TaskRequest, Requested, TargetOf
<1>3. tasks[p].at \in Time /\ tasks[p].stamp \in Stamp
  BY <1>1 DEF Task
<1>4. (IsThere(a) /\ artifacts[a].archived) \in BOOLEAN
  BY <1>2 DEF IsThere, EvidenceInv, Artifact
<1>5. row \in Artifact /\ row.at = tasks[p].at
  BY <1>3, <1>4 DEF Artifact
<1>6. Rewritten(a, row, tasks[p].at) /\ Done(p)
  BY DEF WriteArtifact
<1> HIDE DEF row, a
<1> QED BY <1>2, <1>5, <1>6, DoneOps, Writing

LEMMA ArtifactStep ==
  ASSUME EvidenceInv, NEW a \in Arts, ArchiveArtifact(a) \/ \E attrs \in BOOLEAN : ManifestArtifact(a, attrs)
  PROVE  EvidenceInv'
<1>1. tasks' = tasks /\ tasks' \in [Writers -> Task] /\ \A q \in Writers : tasks'[q] \in {tasks[q], NoTask}
  BY DEF ArchiveArtifact, ManifestArtifact, EvidenceInv
<1>2. now \in Time /\ (IsThere(a) => artifacts[a] \in Artifact)
  BY DEF EvidenceInv, IsThere
<1>3. CASE ArchiveArtifact(a)
  <2> DEFINE row == [artifacts[a] EXCEPT !.archived = TRUE, !.at = now]
  <2>1. row \in Artifact /\ row.at = now
    BY <1>2, <1>3 DEF ArchiveArtifact, Artifact
  <2>2. Rewritten(a, row, now)
    BY <1>3 DEF ArchiveArtifact
  <2> HIDE DEF row
  <2> QED BY <1>1, <2>1, <2>2, Writing
<1>4. ASSUME NEW attrs \in BOOLEAN, ManifestArtifact(a, attrs) PROVE EvidenceInv'
  <2> DEFINE kept == IF IsThere(a) /\ ~attrs THEN artifacts[a].captured ELSE None
             row == [at |-> now, archived |-> FALSE, captured |-> kept]
  <2>1. kept \in Stamp
    BY <1>2 DEF Artifact, Stamp
  <2>2. row \in Artifact /\ row.at = now
    BY <1>2, <2>1 DEF Artifact
  <2>3. Rewritten(a, row, now)
    BY <1>4 DEF ManifestArtifact
  <2> HIDE DEF row
  <2> QED BY <1>1, <2>2, <2>3, Writing
<1> QED BY <1>3, <1>4

LEMMA ValidateStep ==
  ASSUME EvidenceInv, NEW p \in Writers, Validate(p)
  PROVE  EvidenceInv'
<1> DEFINE a == KeptSource(p)
           v == [at |-> tasks[p].at, source |-> a, failing |-> Requested(p).failing,
                 examined |-> IF a = None THEN None ELSE tasks[p].seen[a],
                 captured |-> IF a = None THEN None ELSE artifacts[a].captured,
                 overtaken |-> FALSE]
<1>1. tasks[p] \in Task /\ Requested(p) \in TaskRequest /\ Requested(p).does = "validate" /\ RequestedOK(tasks[p])
      /\ tasks[p].phase = "timed"
  BY DEF EvidenceInv, Validate, RequestedOK, Requested
<1>2. Requested(p).source \in Arts \cup {None} /\ Requested(p).failing \in BOOLEAN /\ TargetOf(p) \in Checks
  BY <1>1 DEF TaskRequest, Requested, TargetOf
<1>3. a \in Arts \cup {None} /\ (a # None => IsThere(a))
  <2>1. Requested(p).source # None => IsThere(Requested(p).source)
    BY <1>1 DEF RequestedOK, Requested
  <2>2. validations[TargetOf(p)] # None =>
          validations[TargetOf(p)] \in Validation /\ Knows(validations[TargetOf(p)])
    BY <1>2 DEF EvidenceInv
  <2> QED BY <1>2, <2>1, <2>2 DEF KeptSource, Knows, Validation
<1> HIDE DEF a
<1>4. a # None => tasks[p].seen[a] \in Stamp /\ artifacts[a].captured \in Stamp
  BY <1>1, <1>3 DEF Task, EvidenceInv, IsThere, Artifact
<1>5. v \in Validation /\ v # None
  <2>1. v \in Validation
    BY <1>1, <1>2, <1>3, <1>4 DEF Validation, Task, Stamp
  <2> QED BY <2>1, NoneAssumption
<1>6. v.source = a /\ (a # None => v.captured = artifacts[a].captured)
  OBVIOUS
<1>7. validations' = [validations EXCEPT ![TargetOf(p)] = v] /\ Done(p)
      /\ UNCHANGED <<follows, now, linked, files, artifacts>>
  BY DEF Validate, a
<1> HIDE DEF v
<1>8. validations' \in [Checks -> Validation \cup {None}]
  BY <1>5, <1>7 DEF EvidenceInv
<1>9. ASSUME NEW c \in Checks, validations'[c] # None PROVE Knows(validations[c])'
  <2>1. CASE c = TargetOf(p)
    <3>1. validations'[c] = v
      BY <1>2, <1>7, <2>1 DEF EvidenceInv
    <3> QED BY <1>3, <1>6, <1>7, <3>1 DEF Knows, IsThere
  <2>2. CASE c # TargetOf(p)
    <3>1. validations'[c] = validations[c]
      BY <1>7, <2>2 DEF EvidenceInv
    <3>2. Knows(validations[c])
      BY <1>9, <3>1 DEF EvidenceInv
    <3> QED BY <1>7, <3>1, <3>2 DEF Knows, IsThere
  <2> QED BY <2>1, <2>2
<1>10. tasks' \in [Writers -> Task] /\ \A q \in Writers : tasks'[q] \in {tasks[q], NoTask}
  BY <1>7, DoneOps
<1>11. ASSUME NEW q \in Writers PROVE RequestedOK(tasks[q])'
  <2>1. RequestedOK(tasks[q])
    BY DEF EvidenceInv
  <2>2. tasks'[q] = tasks[q] \/ tasks'[q] = NoTask
    BY <1>10
  <2> QED BY <1>7, <2>1, <2>2 DEF RequestedOK, NoTask, IsThere
<1> QED BY <1>7, <1>8, <1>9, <1>10, <1>11 DEF EvidenceInv

LEMMA WorldStep ==
  ASSUME EvidenceInv, Tick \/ (\E r \in RunIds : LinkRun(r)) \/ \E a \in Arts, stamp \in Stamp : ChangeFile(a, stamp)
  PROVE  EvidenceInv'
<1>1. /\ follows' \in Behaviours /\ now' \in Time /\ linked' \subseteq RunIds /\ files' \in [Arts -> Stamp]
      /\ UNCHANGED <<artifacts, validations, tasks>>
  <2>1. follows.until \in Time
    BY BehavioursAssumption DEF EvidenceInv
  <2>2. Tick => now' \in Time
    BY <2>1, TimeAssumption DEF Tick, EvidenceInv, Time
  <2> QED BY <2>2 DEF Tick, LinkRun, ChangeFile, EvidenceInv
<1>2. \A p \in Writers : RequestedOK(tasks[p])'
  BY <1>1 DEF EvidenceInv, RequestedOK, IsThere
<1>3. \A c \in Checks : validations'[c] # None => Knows(validations[c])'
  BY <1>1 DEF EvidenceInv, Knows, IsThere
<1> QED BY <1>1, <1>2, <1>3 DEF EvidenceInv

LEMMA EvidenceStep ==
  ASSUME EvidenceInv, EvidenceNext PROVE EvidenceInv'
<1>1. Verdicts \subseteq BOOLEAN /\ Appearing(Arts) \subseteq Arts /\ Appearing(Checks) \subseteq Checks
      /\ Appearing(RunIds) \subseteq RunIds
  BY DEF Verdicts, Appearing
<1>2. ASSUME NEW p \in Writers, NEW a \in Appearing(Arts), AddLook(p, a) \/ RefreshLook(p, a)
      PROVE  EvidenceInv'
  BY <1>1, <1>2, LookingStep
<1>3. ASSUME NEW p \in Writers, NEW c \in Appearing(Checks), NEW source \in Appearing(Arts) \cup {None},
             NEW failing \in Verdicts, ValidateLook(p, c, source, failing)
      PROVE  EvidenceInv'
  BY <1>1, <1>3, ValidateLookStep
<1>4. ASSUME NEW p \in Writers, TakeTime(p) \/ WriteArtifact(p) \/ Validate(p) \/ Drop(p)
      PROVE  EvidenceInv'
  BY <1>4, TakeTimeStep, WriteArtifactStep, ValidateStep, AbortStep
<1>5. ASSUME NEW a \in Appearing(Arts),
             ArchiveArtifact(a) \/ \E attrs \in BOOLEAN : ManifestArtifact(a, attrs)
      PROVE  EvidenceInv'
  BY <1>1, <1>5, ArtifactStep
<1>6. CASE Tick \/ (\E r \in Appearing(RunIds) : LinkRun(r)) \/ \E a \in Appearing(Arts), stamp \in Stamp : ChangeFile(a, stamp)
  BY <1>1, <1>6, WorldStep
<1> QED BY <1>2, <1>3, <1>4, <1>5, <1>6 DEF EvidenceNext

LEMMA EvidenceRests ==
  ASSUME EvidenceInv, UNCHANGED evidenceVars PROVE EvidenceInv'
  BY DEF EvidenceInv, evidenceVars, RequestedOK, Knows, IsThere

(* The evidence that the invariant allows is reported as it should be.     *)
LEMMA ReportedIf ==
  ASSUME EvidenceInv PROVE ChangedSourceIsReported
<1> SUFFICES ASSUME NEW c \in Checks, NEW v, v = validations[c], v # None, v.source # None,
                    v.examined # None, v.captured = v.examined, files[v.source] # v.examined,
                    IsActive(v.source), artifacts[v.source].captured # None, ~ v.overtaken
             PROVE  /\ c \in ValidationIssues
                    /\ Reaches(Home[v.source]) => c \in StaleValidations("experiment")
  BY DEF ChangedSourceIsReported
<1> DEFINE a == v.source
<1>1. a \in Arts /\ v \in Validation /\ Knows(v)
  BY DEF EvidenceInv, Validation
<1>2. artifacts[a].at > v.at \/ artifacts[a].captured = v.captured
  BY <1>1 DEF Knows
<1>3. ASSUME NEW scope \in Scopes, scope = "experiment" => Reaches(Home[a])
      PROVE  c \in StaleValidations(scope)
  <2>1. CASE artifacts[a].at > v.at
    BY <2>1 DEF StaleValidations, IsStale
  <2>2. CASE artifacts[a].captured = v.captured
    <3>1. artifacts[a].captured \in Stamps /\ files[a] \in Stamps \cup {None}
      BY <1>1, <2>2 DEF EvidenceInv, Validation, Stamp
    <3>2. Drifted(a)
      BY <2>2, <3>1, StampsAssumption DEF Drifted
    <3>3. a \in DriftedArtifacts(scope)
      BY <1>1, <1>3, <3>2 DEF DriftedArtifacts, ArtifactRows
    <3> QED BY <3>3 DEF StaleValidations, IsStale
  <2> QED BY <1>2, <2>1, <2>2
<1> QED BY <1>3 DEF Scopes, ValidationIssues

-----------------------------------------------------------------------------
(* Review: the tables, and what reviews and commands know of them.         *)
Tables ==
  /\ EvidenceInv
  /\ jobs \in [Jobs -> Job \cup {None}]
  /\ notes \in [Notes -> Time \cup {None}]
  /\ debugs \in [Debugs -> {"open", "resolved", "archived"} \cup {None}]
  /\ handoff \in Time \cup {None}
  /\ closed \in BOOLEAN

(* What a review has counted is there as long as nothing has gone.         *)
Faithful(m) ==
  ~ m.lost => m.known \subseteq Activity /\ m.count <= Cardinality(m.known) + Cardinality(RecoveredJobs)

ReviewNotes ==
  /\ \A r \in reviews : r \in ReviewNote /\ Faithful(r.marker)
  /\ \E top \in Nat : \A r \in reviews : r.rank <= top

(* A cleanup that has not been overtaken plans what is still settled.      *)
CommandOK(c) ==
  /\ c \in AgentCommand
  /\ c.phase = "counted" => Faithful(c.marker)
  /\ c.phase = "planned" /\ ~ c.stale => \A d \in c.plan : Settled(d)

Commands ==
  DOMAIN commands = Agents /\ \A g \in Agents : CommandOK(commands[g])

ReviewInv == Tables /\ ReviewNotes /\ Commands

LEMMA ReviewInit == InitReview => ReviewInv
<1> SUFFICES ASSUME InitReview PROVE ReviewInv
  OBVIOUS
<1>1. Tables
  BY EvidenceInit DEF InitReview, Tables
<1>2. ReviewNotes
  BY DEF InitReview, ReviewNotes
<1>3. CommandOK(Idling)
  BY DEF CommandOK, Idling, AgentCommand
<1>4. Commands
  BY <1>3 DEF InitReview, Commands
<1> QED BY <1>1, <1>2, <1>4 DEF ReviewInv

LEMMA FiniteSubjects == IsFiniteSet(Subjects)
<1>1. IsFiniteSet(Jobs \cup Arts)
  BY FiniteAssumption, FS_Union
<1>2. IsFiniteSet((Jobs \cup Arts) \cup Checks)
  BY <1>1, FiniteAssumption, FS_Union
<1>3. IsFiniteSet(((Jobs \cup Arts) \cup Checks) \cup Notes)
  BY <1>2, FiniteAssumption, FS_Union
<1> QED BY <1>3 DEF Subjects

LEMMA ActivityParts ==
  /\ Activity \subseteq Subjects /\ RecoveredJobs \subseteq Jobs
  /\ Activity' \subseteq Subjects /\ RecoveredJobs' \subseteq Jobs
  BY DEF Activity, Subjects, TerminalJobs, LivingJobs, ShownArtifacts, ShownChecks, ShownNotes, RecoveredJobs

LEMMA FiniteActivity ==
  /\ IsFiniteSet(Activity) /\ IsFiniteSet(RecoveredJobs) /\ IsFiniteSet(RecoveredJobs')
  /\ Cardinality(Activity) \in Nat /\ Cardinality(RecoveredJobs) \in Nat
  /\ Cardinality(RecoveredJobs') \in Nat
<1>1. IsFiniteSet(Jobs)
  BY FiniteAssumption
<1>2. IsFiniteSet(Activity)
  BY FiniteSubjects, ActivityParts, FS_Subset
<1>3. IsFiniteSet(RecoveredJobs)
  BY <1>1, ActivityParts, FS_Subset
<1>4. IsFiniteSet(RecoveredJobs')
  BY <1>1, ActivityParts, FS_Subset
<1> QED BY <1>2, <1>3, <1>4, FS_CardinalityType

(* What happens next is noted in a marker that was faithful so far.        *)
LEMMA NotedMarker ==
  ASSUME NEW m \in Marker, Faithful(m), NEW w, w = Noted(m)
  PROVE  w \in Marker /\ Faithful(w)'
<1> DEFINE gone == Activity \ Activity'
           new == {x \in Activity' : x \notin Activity \/ ActivityAt(x)' # ActivityAt(x)}
           changed == (m.changed \ gone) \cup new
           lost == m.lost \/ ~(Activity \subseteq Activity' /\ RecoveredJobs \subseteq RecoveredJobs')
<1>1. w = [m EXCEPT !.changed = changed, !.lost = lost]
  BY DEF Noted
<1>2. changed \subseteq Subjects /\ lost \in BOOLEAN
  BY ActivityParts DEF Marker
<1>3. w \in Marker /\ w.count = m.count /\ w.known = m.known /\ w.lost = lost
  <2> HIDE DEF changed, lost
  <2> QED BY <1>1, <1>2 DEF Marker
<1>4. ASSUME ~ lost
      PROVE  m.known \subseteq Activity' /\ m.count <= Cardinality(m.known) + Cardinality(RecoveredJobs')
  <2>1. m.known \subseteq Activity /\ m.count <= Cardinality(m.known) + Cardinality(RecoveredJobs)
    BY <1>4 DEF Faithful
  <2>2. IsFiniteSet(m.known) /\ Cardinality(m.known) \in Nat
    BY <2>1, FiniteActivity, FS_Subset, FS_CardinalityType
  <2>3. Cardinality(RecoveredJobs) <= Cardinality(RecoveredJobs')
    BY <1>4, FiniteActivity, FS_Subset
  <2> QED BY <1>4, <2>1, <2>2, <2>3, FiniteActivity DEF Marker
<1>5. Faithful(w)'
  BY <1>3, <1>4 DEF Faithful
<1> QED BY <1>3, <1>5

(* The same activity, jobs and debug notes: what was known is known.       *)
LEMMA SameActivity ==
  ASSUME UNCHANGED <<linked, artifacts, validations, jobs, notes>>
  PROVE  Activity' = Activity /\ RecoveredJobs' = RecoveredJobs
  BY DEF Activity, TerminalJobs, LivingJobs, Reaches, ShownArtifacts, ShownChecks, ShownNotes, RecoveredJobs,
         Living, IsActive, IsThere, Recovered, Failed, RetriedAs

LEMMA SameFaithful ==
  ASSUME UNCHANGED <<linked, artifacts, validations, jobs, notes>>, NEW m, Faithful(m)
  PROVE  Faithful(m)'
  BY SameActivity DEF Faithful

LEMMA SameSettled ==
  ASSUME UNCHANGED <<jobs, debugs>>, NEW d, Settled(d)
  PROVE  Settled(d)'
  BY DEF Settled, Recovered, Failed, Living, RetriedAs

LEMMA CommandKept ==
  ASSUME UNCHANGED <<linked, artifacts, validations, jobs, notes, debugs>>, NEW c, CommandOK(c)
  PROVE  CommandOK(c)'
<1>1. Faithful(c.marker) => Faithful(c.marker)'
  BY SameFaithful
<1>2. \A d \in c.plan : Settled(d) => Settled(d)'
  BY SameSettled
<1> QED BY <1>1, <1>2 DEF CommandOK

(* A command learns that what it has read may have changed.                *)
LEMMA Overtaking ==
  ASSUME Commands, NEW S \in SUBSET Agents, NEW g \in Agents, NEW c, c = Overtaken(S)[g]
  PROVE  CommandOK(c)' /\ DOMAIN Overtaken(S) = Agents
<1> DEFINE old == commands[g]
<1>1. CommandOK(old) /\ old \in AgentCommand
  BY DEF Commands, CommandOK
<1>2. DOMAIN Overtaken(S) = Agents
  BY DEF Overtaken
<1>3. CASE g \in S
  <2>1. c = Idling
    BY <1>3 DEF Overtaken
  <2> QED BY <1>2, <2>1 DEF CommandOK, Idling, AgentCommand
<1>4. CASE g \notin S /\ old.phase = "counted"
  <2>1. PICK m : old = [phase |-> "counted", marker |-> m] /\ m \in Marker
    BY <1>1, <1>4 DEF AgentCommand
  <2>2. Faithful(m)
    BY <1>1, <2>1 DEF CommandOK
  <2>3. c = [old EXCEPT !.marker = Noted(@)]
    BY <1>4 DEF Overtaken
  <2>4. PICK w : w = Noted(m)
    OBVIOUS
  <2>5. c = [phase |-> "counted", marker |-> w]
    BY <2>1, <2>3, <2>4
  <2>6. w \in Marker /\ Faithful(w)'
    BY <2>2, <2>4, <2>1, NotedMarker
  <2>7. c \in AgentCommand /\ c.phase = "counted" /\ c.marker = w
    BY <2>5, <2>6 DEF AgentCommand
  <2> QED BY <1>2, <2>6, <2>7 DEF CommandOK
<1>5. CASE g \notin S /\ old.phase \in {"planned", "resolved"}
  <2>1. c = [old EXCEPT !.stale = TRUE]
    BY <1>5 DEF Overtaken
  <2>2. old \in [phase: {"planned", "resolved"}, plan: SUBSET Debugs, stale: BOOLEAN]
    BY <1>1, <1>5 DEF AgentCommand
  <2>3. c \in [phase: {"planned", "resolved"}, plan: SUBSET Debugs, stale: BOOLEAN] /\ c.stale
    BY <2>1, <2>2
  <2>4. c \in AgentCommand /\ c.phase # "counted"
    BY <2>3 DEF AgentCommand
  <2> QED BY <1>2, <2>3, <2>4 DEF CommandOK
<1>6. CASE g \notin S /\ old.phase \notin {"counted", "planned", "resolved"}
  <2>1. c = old
    BY <1>6 DEF Overtaken
  <2> QED BY <1>1, <1>2, <1>6, <2>1 DEF CommandOK
<1> QED BY <1>3, <1>4, <1>5, <1>6

LEMMA OvertakenCommands ==
  ASSUME Commands, commands' = Overtaken({})
  PROVE  Commands'
<1>1. DOMAIN commands' = Agents
  BY DEF Overtaken
<1>2. ASSUME NEW g \in Agents PROVE CommandOK(commands[g])'
  <2>1. \A c : c = Overtaken({})[g] => CommandOK(c)'
    BY Overtaking
  <2>2. PICK c : c = commands'[g]
    OBVIOUS
  <2>3. CommandOK(c)'
    BY <2>1, <2>2
  <2> QED BY <2>2, <2>3 DEF CommandOK
<1> QED BY <1>1, <1>2 DEF Commands

LEMMA ReviewsMarked ==
  ASSUME ReviewNotes, reviews' = MarkedReviews
  PROVE  ReviewNotes'
<1>1. ASSUME NEW r \in reviews'
      PROVE  r \in ReviewNote /\ Faithful(r.marker)' /\ \E q \in reviews : q.rank = r.rank
  <2>1. PICK q \in reviews : r = [q EXCEPT !.marker = Noted(@)]
    BY DEF MarkedReviews
  <2>2. q \in ReviewNote /\ Faithful(q.marker) /\ q.marker \in Marker
    BY DEF ReviewNotes, ReviewNote
  <2>3. PICK w : w = Noted(q.marker)
    OBVIOUS
  <2>4. w \in Marker /\ Faithful(w)'
    BY <2>2, <2>3, NotedMarker
  <2>5. r = [q EXCEPT !.marker = w]
    BY <2>1, <2>3
  <2>6. r \in ReviewNote /\ r.marker = w /\ r.rank = q.rank
    BY <2>2, <2>4, <2>5 DEF ReviewNote
  <2> QED BY <2>4, <2>6
<1>2. PICK top \in Nat : \A r \in reviews : r.rank <= top
  BY DEF ReviewNotes
<1>3. \A r \in reviews' : r.rank <= top
  BY <1>1, <1>2
<1> QED BY <1>1, <1>3 DEF ReviewNotes

(* A command of an agent, that leaves alone what others have read.         *)
LEMMA AgentMoved ==
  ASSUME Commands, UNCHANGED <<linked, artifacts, validations, jobs, notes, debugs>>,
         NEW g \in Agents, NEW c, CommandOK(c)', commands' = [commands EXCEPT ![g] = c]
  PROVE  Commands'
<1>1. ASSUME NEW h \in Agents PROVE CommandOK(commands[h])'
  <2>1. CASE h = g
    <3>1. commands'[h] = c
      BY <2>1 DEF Commands
    <3> QED BY <3>1 DEF CommandOK
  <2>2. CASE h # g
    <3>1. PICK o : o = commands[h] /\ CommandOK(o)
      BY DEF Commands
    <3>2. commands'[h] = o
      BY <2>2, <3>1 DEF Commands
    <3>3. CommandOK(o)'
      BY <3>1, CommandKept
    <3> QED BY <3>2, <3>3 DEF CommandOK
  <2> QED BY <2>1, <2>2
<1> QED BY <1>1 DEF Commands

LEMMA SameReviews ==
  ASSUME ReviewNotes, UNCHANGED <<linked, artifacts, validations, jobs, notes, reviews>>
  PROVE  ReviewNotes'
<1>1. ASSUME NEW r \in reviews' PROVE r \in ReviewNote /\ Faithful(r.marker)'
  BY SameFaithful DEF ReviewNotes
<1> QED BY <1>1 DEF ReviewNotes

-----------------------------------------------------------------------------
LEMMA SameTables ==
  ASSUME Tables, UNCHANGED <<evidenceVars, jobs, notes, debugs, handoff, closed>>
  PROVE  Tables'
  BY EvidenceRests DEF Tables

(* Steps that change what reviews and cleanups are about.                  *)
LEMMA ActivityStep ==
  ASSUME ReviewInv, Tables', reviews' = MarkedReviews, commands' = Overtaken({})
  PROVE  ReviewInv'
  BY ReviewsMarked, OvertakenCommands DEF ReviewInv

LEMMA EvidenceReviewStep ==
  ASSUME ReviewInv, EvidenceMoves
  PROVE  ReviewInv'
<1>1. EvidenceInv'
  BY EvidenceStep DEF ReviewInv, Tables, EvidenceMoves
<1>2. Tables'
  BY <1>1 DEF ReviewInv, Tables, EvidenceMoves, Others
<1> QED BY <1>2, ActivityStep DEF EvidenceMoves

LEMMA JobStep ==
  ASSUME ReviewInv, NEW j \in Jobs,
         \/ ArchiveJob(j)
         \/ \E status \in {"running"} \cup Terminal, t \in Time \cup {None} : ReportJob(j, status, t)
  PROVE  ReviewInv'
<1>1. jobs \in [Jobs -> Job \cup {None}] /\ now \in Time
  BY DEF ReviewInv, Tables, EvidenceInv
<1>2. jobs' \in [Jobs -> Job \cup {None}]
  <2>1. CASE ArchiveJob(j)
    <3>1. jobs[j] \in Job
      BY <1>1, <2>1 DEF ArchiveJob, Living
    <3>2. [jobs[j] EXCEPT !.archived = TRUE] \in Job
      BY <3>1 DEF Job
    <3> QED BY <1>1, <2>1, <3>2 DEF ArchiveJob
  <2>2. ASSUME NEW status \in {"running"} \cup Terminal, NEW t \in Time \cup {None}, ReportJob(j, status, t)
        PROVE  jobs' \in [Jobs -> Job \cup {None}]
    <3> DEFINE row == [status |-> status, finished |-> Finished(j, t), touched |-> now, archived |-> FALSE]
    <3>1. Finished(j, t) \in Time \cup {None}
      BY <1>1 DEF Finished, OrElse, Job
    <3>2. row \in Job
      BY <1>1, <3>1 DEF Job
    <3>3. jobs' = [jobs EXCEPT ![j] = row]
      BY <2>2 DEF ReportJob
    <3> HIDE DEF row
    <3> QED BY <1>1, <3>2, <3>3
  <2> QED BY <2>1, <2>2
<1>3. /\ UNCHANGED <<evidenceVars, notes, debugs, handoff, closed>>
      /\ reviews' = MarkedReviews /\ commands' = Overtaken({})
  BY DEF ArchiveJob, ReportJob, Others
<1>4. EvidenceInv'
  BY <1>3, EvidenceRests DEF ReviewInv, Tables
<1>5. Tables'
  BY <1>2, <1>3, <1>4 DEF ReviewInv, Tables
<1> QED BY <1>3, <1>5, ActivityStep

LEMMA NoteStep ==
  ASSUME ReviewInv, NEW n \in Notes, WriteNote(n, now) \/ WriteNote(n, None)
  PROVE  ReviewInv'
<1>1. now \in Time /\ notes \in [Notes -> Time \cup {None}]
  BY DEF ReviewInv, Tables, EvidenceInv
<1>2. /\ notes' \in [Notes -> Time \cup {None}] /\ UNCHANGED <<evidenceVars, jobs, debugs, handoff, closed>>
      /\ reviews' = MarkedReviews /\ commands' = Overtaken({})
  BY <1>1 DEF WriteNote, Others
<1>3. EvidenceInv'
  BY <1>2, EvidenceRests DEF ReviewInv, Tables
<1>4. Tables'
  BY <1>2, <1>3 DEF ReviewInv, Tables
<1> QED BY <1>2, <1>4, ActivityStep

LEMMA DebugStep ==
  ASSUME ReviewInv, NEW d \in Debugs, NEW status \in {"open", "resolved", "archived"}, WriteDebug(d, status)
  PROVE  ReviewInv'
<1>1. /\ UNCHANGED <<evidenceVars, jobs, notes, reviews, handoff, closed>>
      /\ debugs' = [debugs EXCEPT ![d] = status] /\ commands' = Overtaken({})
  BY DEF WriteDebug, Others
<1>2. EvidenceInv'
  BY <1>1, EvidenceRests DEF ReviewInv, Tables
<1>3. Tables'
  BY <1>1, <1>2 DEF ReviewInv, Tables
<1>4. ReviewNotes'
  BY <1>1, SameReviews DEF ReviewInv, evidenceVars
<1>5. Commands'
  BY <1>1, OvertakenCommands DEF ReviewInv
<1> QED BY <1>3, <1>4, <1>5 DEF ReviewInv

(* Steps of a command that write no row.                                   *)
LEMMA SilentStep ==
  ASSUME ReviewInv, UNCHANGED <<evidenceVars, jobs, notes, reviews, debugs>>,
         handoff' \in Time \cup {None}, closed' \in BOOLEAN,
         NEW g \in Agents, NEW c, CommandOK(c)', commands' = [commands EXCEPT ![g] = c]
  PROVE  ReviewInv'
<1>1. UNCHANGED <<linked, artifacts, validations>>
  BY DEF evidenceVars
<1>2. Commands'
  BY <1>1, AgentMoved DEF ReviewInv
<1>3. ReviewNotes'
  BY <1>1, SameReviews DEF ReviewInv
<1>4. Tables'
  BY EvidenceRests DEF ReviewInv, Tables
<1> QED BY <1>2, <1>3, <1>4 DEF ReviewInv

LEMMA SilentParts ==
  ASSUME ReviewInv
  PROVE  /\ handoff \in Time \cup {None} /\ closed \in BOOLEAN /\ now \in Time
         /\ DOMAIN commands = Agents /\ \A g \in Agents : CommandOK(commands[g])
         /\ CommandOK(Idling)'
<1>1. CommandOK(Idling)'
  BY DEF CommandOK, Idling, AgentCommand
<1> QED BY <1>1 DEF ReviewInv, Tables, EvidenceInv, Commands

LEMMA CountStep ==
  ASSUME ReviewInv, NEW g \in Agents, Count(g)
  PROVE  ReviewInv'
<1> DEFINE m == [count |-> ActivityCount, known |-> Activity, changed |-> {}, lost |-> FALSE]
           c == [phase |-> "counted", marker |-> m]
<1>1. m \in Marker /\ Faithful(m)
  BY FiniteActivity, ActivityParts DEF ActivityCount, Marker, Faithful
<1>2. PICK n : n = c
  OBVIOUS
<1>3. /\ UNCHANGED <<evidenceVars, jobs, notes, reviews, debugs, handoff, closed>>
      /\ commands' = [commands EXCEPT ![g] = n]
  BY <1>2 DEF Count, Others
<1>4. CommandOK(n)
  <2> HIDE DEF m
  <2> QED BY <1>1, <1>2 DEF CommandOK, AgentCommand
<1>5. CommandOK(n)'
  BY <1>3, <1>4, CommandKept DEF evidenceVars
<1> QED BY <1>3, <1>5, SilentStep, SilentParts

LEMMA MarkReviewedStep ==
  ASSUME ReviewInv, NEW g \in Agents, MarkReviewed(g)
  PROVE  ReviewInv'
<1>1. PICK rank \in ReviewRanks :
        reviews' = reviews \cup {[at |-> now, rank |-> rank, marker |-> commands[g].marker]}
  BY DEF MarkReviewed
<1>2. /\ UNCHANGED <<evidenceVars, jobs, notes, debugs, handoff, closed>>
      /\ commands' = [commands EXCEPT ![g] = Idling] /\ commands[g].phase = "counted"
      /\ UNCHANGED <<linked, artifacts, validations>>
  BY DEF MarkReviewed, Others, evidenceVars
<1>3. PICK note : note = [at |-> now, rank |-> rank, marker |-> commands[g].marker]
  OBVIOUS
<1>4. Faithful(commands[g].marker) /\ commands[g].marker \in Marker
  <2>1. CommandOK(commands[g])
    BY SilentParts
  <2> QED BY <1>2, <2>1 DEF CommandOK, AgentCommand
<1>5. note \in ReviewNote /\ Faithful(note.marker)
  <2>1. now \in Time
    BY SilentParts
  <2>2. note.marker = commands[g].marker
    BY <1>3
  <2>3. note \in ReviewNote
    BY <1>3, <1>4, <2>1 DEF ReviewNote
  <2> QED BY <1>4, <2>2, <2>3
<1>6. ReviewNotes'
  <2>1. ASSUME NEW r \in reviews' PROVE r \in ReviewNote /\ Faithful(r.marker)'
    <3>1. r \in ReviewNote /\ Faithful(r.marker)
      BY <1>1, <1>3, <1>5 DEF ReviewInv, ReviewNotes
    <3> QED BY <1>2, <3>1, SameFaithful
  <2>2. PICK top \in Nat : \A r \in reviews : r.rank <= top
    BY DEF ReviewInv, ReviewNotes
  <2>3. PICK high \in Nat : top <= high /\ rank <= high
    <3>1. rank \in Nat
      BY RankAssumption
    <3>2. CASE rank <= top
      BY <3>2
    <3>3. CASE ~ rank <= top
      BY <3>1, <3>3
    <3> QED BY <3>2, <3>3
  <2>4. \A r \in reviews' : r.rank <= high
    <3> SUFFICES ASSUME NEW r \in reviews' PROVE r.rank <= high
      OBVIOUS
    <3>1. CASE r \in reviews
      <4>1. r.rank \in Nat /\ r.rank <= top
        BY <2>2, <3>1, RankAssumption DEF ReviewInv, ReviewNotes, ReviewNote
      <4> QED BY <2>3, <4>1
    <3>2. CASE r = note
      BY <1>3, <2>3, <3>2
    <3> QED BY <1>1, <1>3, <3>1, <3>2
  <2> QED BY <2>1, <2>4 DEF ReviewNotes
<1>7. Commands'
  BY <1>2, AgentMoved, SilentParts DEF ReviewInv
<1>8. Tables'
  BY <1>2, SameTables DEF ReviewInv
<1> QED BY <1>6, <1>7, <1>8 DEF ReviewInv

LEMMA WithdrawStep ==
  ASSUME ReviewInv, NEW r \in reviews, WithdrawReview(r)
  PROVE  ReviewInv'
<1>1. /\ UNCHANGED <<evidenceVars, jobs, notes, debugs, handoff, closed, commands>>
      /\ reviews' \subseteq reviews /\ UNCHANGED <<linked, artifacts, validations>>
  BY DEF WithdrawReview, Others, evidenceVars
<1>2. ReviewNotes'
  <2>1. ASSUME NEW q \in reviews' PROVE q \in ReviewNote /\ Faithful(q.marker)'
    BY <1>1, SameFaithful DEF ReviewInv, ReviewNotes
  <2>2. \E top \in Nat : \A q \in reviews' : q.rank <= top
    BY <1>1 DEF ReviewInv, ReviewNotes
  <2> QED BY <2>1, <2>2 DEF ReviewNotes
<1>3. ASSUME NEW g \in Agents PROVE CommandOK(commands[g])'
  <2>1. PICK c : c = commands[g] /\ CommandOK(c)
    BY SilentParts
  <2>2. CommandOK(c)'
    BY <1>1, <2>1, CommandKept
  <2> QED BY <1>1, <2>1, <2>2 DEF CommandOK
<1>4. Commands'
  BY <1>1, <1>3, SilentParts DEF Commands
<1>5. Tables'
  BY <1>1, SameTables DEF ReviewInv
<1> QED BY <1>2, <1>4, <1>5 DEF ReviewInv

LEMMA HandoffStep ==
  ASSUME ReviewInv, NEW g \in Agents,
         \/ \E archive \in BOOLEAN : Report(g, archive)
         \/ \E errata \in BOOLEAN : HandOff(g, errata)
         \/ ArchiveAfter(g) \/ RecordCleanup(g) \/ GiveUp(g)
  PROVE  ReviewInv'
<1>1. /\ UNCHANGED <<evidenceVars, jobs, notes, reviews, debugs>>
      /\ handoff' \in Time \cup {None} /\ closed' \in BOOLEAN
  BY SilentParts DEF Report, HandOff, ArchiveAfter, RecordCleanup, GiveUp, Others
<1>2. PICK old : old = commands[g] /\ CommandOK(old)
  BY SilentParts
<1>3. ASSUME NEW c, c \in [phase: {"reported", "noted"}, archive: BOOLEAN]
      PROVE  CommandOK(c)'
  BY <1>3 DEF CommandOK, AgentCommand
<1>4. \E c : CommandOK(c)' /\ commands' = [commands EXCEPT ![g] = c]
  <2>1. ASSUME NEW archive \in BOOLEAN, Report(g, archive)
        PROVE  \E c : CommandOK(c)' /\ commands' = [commands EXCEPT ![g] = c]
    <3>1. PICK c : c = [phase |-> "reported", archive |-> archive]
      OBVIOUS
    <3> QED BY <1>3, <2>1, <3>1 DEF Report
  <2>2. ASSUME NEW errata \in BOOLEAN, HandOff(g, errata)
        PROVE  \E c : CommandOK(c)' /\ commands' = [commands EXCEPT ![g] = c]
    <3>1. old \in [phase: {"reported", "noted"}, archive: BOOLEAN]
      BY <1>2, <2>2 DEF HandOff, CommandOK, AgentCommand
    <3>2. PICK c : c = IF old.archive THEN [old EXCEPT !.phase = "noted"] ELSE Idling
      OBVIOUS
    <3>3. CommandOK(c)'
      <4>1. c = Idling \/ c \in [phase: {"reported", "noted"}, archive: BOOLEAN]
        BY <3>1, <3>2
      <4> QED BY <1>3, <4>1, SilentParts
    <3>4. commands' = [commands EXCEPT ![g] = c]
      BY <1>2, <2>2, <3>2 DEF HandOff
    <3> QED BY <3>3, <3>4
  <2>3. CASE ArchiveAfter(g) \/ RecordCleanup(g) \/ GiveUp(g)
    BY <2>3, SilentParts DEF ArchiveAfter, RecordCleanup, GiveUp
  <2> QED BY <2>1, <2>2, <2>3
<1> QED BY <1>1, <1>4, SilentStep

LEMMA ArchiveStep ==
  ASSUME ReviewInv, ArchiveExperiment \/ \E r \in Appearing(RunIds) : ArchiveRun(r)
  PROVE  ReviewInv'
<1>1. UNCHANGED <<evidenceVars, jobs, notes, reviews, debugs, handoff, commands>> /\ closed' \in BOOLEAN
      /\ UNCHANGED <<linked, artifacts, validations>>
  BY SilentParts DEF ArchiveExperiment, ArchiveRun, evidenceVars
<1>2. Tables'
  BY <1>1, EvidenceRests DEF ReviewInv, Tables
<1>3. ReviewNotes'
  BY <1>1, SameReviews DEF ReviewInv
<1>4. ASSUME NEW g \in Agents PROVE CommandOK(commands[g])'
  <2>1. PICK c : c = commands[g] /\ CommandOK(c)
    BY SilentParts
  <2>2. CommandOK(c)'
    BY <1>1, <2>1, CommandKept
  <2> QED BY <1>1, <2>1, <2>2 DEF CommandOK
<1>5. Commands'
  BY <1>1, <1>4, SilentParts DEF Commands
<1> QED BY <1>2, <1>3, <1>5 DEF ReviewInv

LEMMA PlanStep ==
  ASSUME ReviewInv, NEW g \in Agents, Plan(g)
  PROVE  ReviewInv'
<1> DEFINE found == {d \in Debugs : Settled(d)}
<1>1. PICK plan \in SUBSET found :
        commands' = [commands EXCEPT ![g] = [phase |-> "planned", plan |-> plan, stale |-> FALSE]]
  BY DEF Plan, kSubset
<1>2. UNCHANGED <<evidenceVars, jobs, notes, reviews, debugs, handoff, closed>>
      /\ UNCHANGED <<linked, artifacts, validations>>
  BY DEF Plan, Others, evidenceVars
<1>3. PICK c : c = [phase |-> "planned", plan |-> plan, stale |-> FALSE]
  OBVIOUS
<1>4. CommandOK(c)
  <2>1. c \in AgentCommand /\ c.phase = "planned" /\ c.plan = plan
    BY <1>3 DEF AgentCommand
  <2> QED BY <1>1, <2>1 DEF CommandOK
<1>5. CommandOK(c)'
  BY <1>2, <1>4, CommandKept
<1> QED BY <1>1, <1>2, <1>3, <1>5, SilentStep, SilentParts

LEMMA ResolveStep ==
  ASSUME ReviewInv, NEW g \in Agents, Resolve(g)
  PROVE  ReviewInv'
<1>1. UNCHANGED <<evidenceVars, jobs, notes, reviews, handoff, closed>>
      /\ UNCHANGED <<linked, artifacts, validations>>
  BY DEF Resolve, Others, evidenceVars
<1>2. Tables'
  <2>1. debugs' \in [Debugs -> {"open", "resolved", "archived"} \cup {None}]
    BY DEF Resolve, ReviewInv, Tables
  <2> QED BY <1>1, <2>1, EvidenceRests DEF ReviewInv, Tables
<1>3. ReviewNotes'
  BY <1>1, SameReviews DEF ReviewInv
<1>4. PICK old : old = commands[g] /\ CommandOK(old)
  BY SilentParts
<1>5. PICK c : c = IF old.plan = {} THEN Idling ELSE [old EXCEPT !.phase = "resolved"]
  OBVIOUS
<1>6. commands' = [Overtaken({g}) EXCEPT ![g] = c]
  BY <1>4, <1>5 DEF Resolve
<1>7. CommandOK(c)'
  <2>1. old \in [phase: {"planned", "resolved"}, plan: SUBSET Debugs, stale: BOOLEAN]
    BY <1>4 DEF Resolve, CommandOK, AgentCommand
  <2>2. c = Idling \/ (c \in [phase: {"planned", "resolved"}, plan: SUBSET Debugs, stale: BOOLEAN]
                       /\ c.phase = "resolved")
    BY <1>5, <2>1
  <2>3. CASE c = Idling
    BY <2>3, SilentParts
  <2>4. CASE c # Idling
    <3>1. c \in AgentCommand /\ c.phase = "resolved"
      BY <2>2, <2>4 DEF AgentCommand
    <3> QED BY <3>1 DEF CommandOK
  <2> QED BY <2>3, <2>4
<1>8. DOMAIN Overtaken({g}) = Agents
  BY DEF Overtaken
<1>9. ASSUME NEW h \in Agents PROVE CommandOK(commands[h])'
  <2>1. CASE h = g
    <3>1. commands'[h] = c
      BY <1>6, <1>8, <2>1
    <3> QED BY <1>7, <3>1 DEF CommandOK
  <2>2. CASE h # g
    <3>1. PICK o : o = Overtaken({g})[h]
      OBVIOUS
    <3>2. CommandOK(o)'
      BY <3>1, Overtaking DEF ReviewInv
    <3>3. commands'[h] = o
      BY <1>6, <1>8, <2>2, <3>1
    <3> QED BY <3>2, <3>3 DEF CommandOK
  <2> QED BY <2>1, <2>2
<1>10. Commands'
  BY <1>6, <1>8, <1>9 DEF Commands
<1> QED BY <1>2, <1>3, <1>10 DEF ReviewInv

LEMMA ReviewStep ==
  ASSUME ReviewInv, ReviewNext PROVE ReviewInv'
<1>1. /\ Appearing(Jobs) \subseteq Jobs /\ Appearing(Notes) \subseteq Notes
      /\ Appearing(Debugs) \subseteq Debugs
  BY DEF Appearing
<1>2. CASE EvidenceMoves
  BY <1>2, EvidenceReviewStep
<1>3. ASSUME NEW j \in Appearing(Jobs),
             \/ ArchiveJob(j)
             \/ \E status \in {"running"} \cup Terminal, t \in Time \cup {None} : ReportJob(j, status, t)
      PROVE  ReviewInv'
  BY <1>1, <1>3, JobStep
<1>4. ASSUME NEW n \in Appearing(Notes), WriteNote(n, now) \/ WriteNote(n, None) PROVE ReviewInv'
  BY <1>1, <1>4, NoteStep
<1>5. ASSUME NEW d \in Appearing(Debugs), NEW status \in {"open", "resolved", "archived"},
             WriteDebug(d, status)
      PROVE  ReviewInv'
  BY <1>1, <1>5, DebugStep
<1>6. ASSUME NEW r \in reviews, WithdrawReview(r) PROVE ReviewInv'
  BY <1>6, WithdrawStep
<1>7. CASE ArchiveExperiment \/ \E r \in Appearing(RunIds) : ArchiveRun(r)
  BY <1>7, ArchiveStep
<1>8. ASSUME NEW g \in Agents, Agent(g) PROVE ReviewInv'
  BY <1>8, CountStep, MarkReviewedStep, HandoffStep, PlanStep, ResolveStep DEF Agent
<1> QED BY <1>2, <1>3, <1>4, <1>5, <1>6, <1>7, <1>8 DEF ReviewNext

LEMMA ReviewRests ==
  ASSUME ReviewInv, UNCHANGED reviewVars PROVE ReviewInv'
<1>1. UNCHANGED <<evidenceVars, jobs, notes, reviews, debugs, handoff, closed, commands>>
      /\ UNCHANGED <<linked, artifacts, validations>>
  BY DEF reviewVars, evidenceVars
<1>2. Tables' /\ ReviewNotes'
  BY <1>1, SameTables, SameReviews DEF ReviewInv
<1>3. ASSUME NEW g \in Agents PROVE CommandOK(commands[g])'
  <2>1. PICK c : c = commands[g] /\ CommandOK(c)
    BY SilentParts
  <2>2. CommandOK(c)'
    BY <1>1, <2>1, CommandKept
  <2> QED BY <1>1, <2>1, <2>2 DEF CommandOK
<1>4. Commands'
  BY <1>1, <1>3, SilentParts DEF Commands
<1> QED BY <1>2, <1>4 DEF ReviewInv

(* The tables have their types; reviews, and commands under way, know what *)
(* they have counted or planned, or that it has changed since.             *)
THEOREM ReviewInvariance == ReviewSpec => []ReviewInv
<1>1. InitReview => ReviewInv
  BY ReviewInit
<1>2. ReviewInv /\ [ReviewNext]_reviewVars => ReviewInv'
  BY ReviewStep, ReviewRests
<1> QED BY <1>1, <1>2, PTL DEF ReviewSpec

(* ChangedSourceIsReported: a validation is reported as stale once the     *)
(* file that it examined is another one (drifted_artifacts,                *)
(* stale_validations).                                                     *)
THEOREM Reported == ReviewSpec => []ChangedSourceIsReported
<1>1. ReviewInv => ChangedSourceIsReported
  BY ReportedIf DEF ReviewInv, Tables
<1> QED BY <1>1, ReviewInvariance, PTL

(* Both statuses, worked out apart, from the same tables.                  *)
LEMMA OneAdvice ==
  ASSUME NEW a, NEW b, NEW w, NEW shut \in BOOLEAN, a = w, ~ shut => b = w
  PROVE  {a} \cup (IF shut THEN {} ELSE {b}) = {w}
  OBVIOUS

LEMMA AdviceIf ==
  ASSUME ReviewInv PROVE HandoffAdviceAgrees
<1> DEFINE shown == NeedsHandoff(DashboardStatus)  wanted == NeedsHandoff(FreshnessStatus)
<1>0. wanted \in BOOLEAN /\ shown \in BOOLEAN
  BY DEF NeedsHandoff
<1>1. ("handoff" \in AttentionCards) = shown
  <2> HIDE DEF shown
  <2>1. "handoff" \in AttentionCards <=> shown
    BY DEF AttentionCards, shown
  <2> QED BY <1>0, <2>1
<1>2. ("handoff" \in WorkloopActions) = wanted
  <2> HIDE DEF wanted
  <2>1. "handoff" \in WorkloopActions <=> wanted
    BY DEF WorkloopActions, wanted
  <2> QED BY <1>0, <2>1
<1>3. (CheckpointIssues # {}) = (~ closed /\ wanted)
  <2> HIDE DEF wanted
  <2>1. CheckpointIssues # {} <=> ~ closed /\ wanted
    BY DEF CheckpointIssues, wanted
  <2> QED BY <1>0, <2>1
<1>4. {"handoff" \in WorkloopActions} \cup (IF closed THEN {} ELSE {CheckpointIssues # {}}) = {wanted}
  <2>1. closed \in BOOLEAN
    BY SilentParts
  <2>2. ~ closed => (CheckpointIssues # {}) = wanted
    BY <1>0, <1>3
  <2> HIDE DEF wanted
  <2> QED BY <1>2, <2>1, <2>2, OneAdvice
<1>5. handoff \in Time \cup {None} /\ now \in Time /\ Time \subseteq Nat
  BY SilentParts, TimeAssumption DEF Time
<1>6. CASE handoff # None
  <2>1. wanted <=> now - handoff >= StaleAfter
    BY <1>6 DEF NeedsHandoff, FreshnessStatus
  <2>2. shown <=> now - handoff > StaleAfter
    BY <1>6 DEF NeedsHandoff, DashboardStatus
  <2>3. handoff \in Nat /\ now \in Nat
    BY <1>5, <1>6
  <2> HIDE DEF shown, wanted
  <2>4. ASSUME wanted # shown PROVE wanted /\ ~ shown /\ now = handoff + StaleAfter
    <3>1. wanted /\ ~ shown
      BY <2>1, <2>2, <2>3, <2>4, StaleAssumption DEF shown, wanted, NeedsHandoff
    <3> QED BY <2>1, <2>2, <2>3, <3>1, StaleAssumption
  <2> QED BY <1>0, <1>1, <1>4, <1>6, <2>4 DEF HandoffAdviceAgrees
<1>7. CASE handoff = None
  <2> DEFINE S == LivingRuns \cup LivingJobs \cup ShownChecks \cup ShownArtifacts \cup ShownNotes
             T == FreshnessActivity
  <2>1. (wanted <=> T # {}) /\ (shown <=> S # {})
    BY <1>7 DEF NeedsHandoff, FreshnessStatus, DashboardStatus
  <2>2. ASSUME wanted, ~ shown
        PROVE  \/ reviews # {}
               \/ \E a \in Arts : IsActive(a) /\ Reaches(Home[a])
                     /\ (Home[a] \in archivedRuns \/ (Home[a] \in Jobs /\ ~Living(Home[a])))
    <3>1. S = {} /\ T # {}
      <4> HIDE DEF S, T, wanted, shown
      <4> QED BY <2>1, <2>2
    <3>2. PICK x : x \in T
      BY <3>1
    <3>3. {j \in OwnJobs : Living(j)} \subseteq LivingJobs
      BY HomeAssumption DEF LivingJobs, Reaches
    <3>4. x \in reviews \/ x \in ArtifactRows("experiment")
      BY <3>1, <3>2, <3>3 DEF FreshnessActivity
    <3>5. CASE x \in ArtifactRows("experiment")
      <4>1. x \in Arts /\ IsActive(x) /\ Reaches(Home[x])
        BY <3>5 DEF ArtifactRows
      <4>2. Home[x] # Here
        BY <3>1, <4>1 DEF ShownArtifacts
      <4>3. CASE Home[x] \in linked
        BY <3>1, <4>1, <4>3 DEF LivingRuns
      <4>4. CASE Home[x] \in Jobs
        BY <3>1, <4>1, <4>4 DEF LivingJobs
      <4> QED BY <4>1, <4>2, <4>3, <4>4 DEF Reaches
    <3> QED BY <3>4, <3>5
  <2>3. ASSUME shown, ~ wanted
        PROVE  \E j \in Jobs \ OwnJobs : Living(j) /\ RunOf[j] \in linked \cap archivedRuns
    <3>1. S # {} /\ T = {}
      <4> HIDE DEF S, T, wanted, shown
      <4> QED BY <2>1, <2>3
    <3>2. ShownArtifacts \subseteq ArtifactRows("experiment")
      BY DEF ShownArtifacts, ArtifactRows, Reaches
    <3>3. LivingRuns = {} /\ LivingJobs # {}
      BY <3>1, <3>2 DEF FreshnessActivity
    <3>4. PICK j \in Jobs : Living(j) /\ Reaches(j)
      BY <3>3 DEF LivingJobs
    <3>5. j \notin OwnJobs
      BY <3>1, <3>4 DEF FreshnessActivity
    <3>6. RunOf[j] \in linked
      BY <3>4, <3>5, HomeAssumption DEF Reaches, ReviewInv, Tables, EvidenceInv
    <3> QED BY <3>3, <3>4, <3>5, <3>6 DEF LivingRuns
  <2>4. ("handoff" \in AttentionCards) = shown
    BY <1>1
  <2>5. CASE wanted = shown
    <3> HIDE DEF wanted, shown
    <3> QED BY <1>1, <1>4, <2>5 DEF HandoffAdviceAgrees
  <2>6. CASE wanted /\ ~ shown
    <3>1. ~ ("handoff" \in AttentionCards)
      BY <2>4, <2>6
    <3>2. {"handoff" \in WorkloopActions} \cup (IF closed THEN {} ELSE {CheckpointIssues # {}}) = {TRUE}
      <4>1. wanted = TRUE
        BY <1>0, <2>6
      <4> HIDE DEF wanted
      <4> QED BY <1>4, <4>1
    <3> HIDE DEF wanted, shown
    <3> QED BY <1>7, <2>2, <2>6, <3>1, <3>2 DEF HandoffAdviceAgrees
  <2>7. CASE shown /\ ~ wanted
    <3>1. "handoff" \in AttentionCards
      BY <2>4, <2>7
    <3>2. {"handoff" \in WorkloopActions} \cup (IF closed THEN {} ELSE {CheckpointIssues # {}}) = {FALSE}
      <4>1. wanted = FALSE
        BY <1>0, <2>7
      <4> HIDE DEF wanted
      <4> QED BY <1>4, <4>1
    <3> HIDE DEF wanted, shown
    <3> QED BY <1>7, <2>3, <2>7, <3>1, <3>2 DEF HandoffAdviceAgrees
  <2> HIDE DEF wanted, shown
  <2> QED BY <1>0, <2>5, <2>6, <2>7
<1> QED BY <1>6, <1>7

(* HandoffAdviceAgrees: the dashboard, experiment workloop and doctor      *)
(* advise a handoff together, but for the three cases it names, two of     *)
(* them where there was no handoff yet, one in each direction.             *)
THEOREM Advised == ReviewSpec => []HandoffAdviceAgrees
  BY AdviceIf, ReviewInvariance, PTL

(* CleanupStaysInPlan: cleanup_experiment resolves the open debug notes of *)
(* jobs that recovered, and others only if something has changed since it  *)
(* planned.                                                                *)
THEOREM CleanedUp == ReviewSpec => CleanupStaysInPlan
<1> DEFINE Stays ==
      \A g \in Agents, d \in Debugs :
        /\ commands[g].phase = "planned" /\ commands'[g].phase = "resolved"
        /\ d \in commands[g].plan
        => \/ debugs[d] = "open" /\ Failed(About[d]) /\ ~Blocking(About[d])
           \/ commands[g].stale
<1>1. ReviewInv => Stays
  BY SilentParts DEF CommandOK, Settled, Recovered, Blocking, RetriedAs
<1>2. ReviewInv /\ [ReviewNext]_reviewVars => [Stays]_reviewVars
  BY <1>1
<1> HIDE DEF Stays
<1>3. ReviewSpec => [][Stays]_reviewVars
  BY <1>2, ReviewInvariance, PTL DEF ReviewSpec
<1> QED BY <1>3 DEF CleanupStaysInPlan, Stays

-----------------------------------------------------------------------------
(* A set of numbers that is not empty has a least one.                     *)
LEMMA LeastNatural ==
  ASSUME NEW S, S \subseteq Nat, S # {}
  PROVE  \E n \in S : \A k \in S : n <= k
<1>1. IsWellFoundedOn(OpToRel(<, Nat), Nat)
  BY NatLessThanWellFounded
<1>2. PICK n \in S : \A k \in S : ~ (<<k, n>> \in OpToRel(<, Nat))
  <2> HIDE DEF OpToRel
  <2> QED BY <1>1, WFMin
<1>3. \A k \in S : ~(k < n)
  BY <1>2 DEF OpToRel
<1>4. \A k \in S : n <= k
  BY <1>3
<1> QED BY <1>4

LEMMA ReviewParts ==
  ASSUME ReviewNotes, NEW r \in reviews
  PROVE  /\ r.at \in Nat /\ r.at <= MaxTime /\ r.rank \in Nat /\ r.marker \in Marker /\ Faithful(r.marker)
<1>1. r \in ReviewNote /\ Faithful(r.marker)
  BY DEF ReviewNotes
<1>2. r.at \in Time /\ r.rank \in ReviewRanks /\ r.marker \in Marker
  BY <1>1 DEF ReviewNote
<1>3. r.at \in Nat /\ r.at <= MaxTime
  BY <1>2, TimeAssumption DEF Time
<1>4. r.rank \in Nat
  BY <1>2, RankAssumption
<1> QED BY <1>1, <1>2, <1>3, <1>4

(* Of several reviews one is the last.                                     *)
LEMMA LastIsThere ==
  ASSUME ReviewNotes, reviews # {}
  PROVE  LastReview \in reviews
<1> DEFINE ages == {MaxTime - r.at : r \in reviews}
<1>1. ages \subseteq Nat /\ ages # {}
  BY ReviewParts, TimeAssumption
<1>2. PICK age \in ages : \A k \in ages : age <= k
  BY <1>1, LeastNatural
<1>3. PICK r1 \in reviews : age = MaxTime - r1.at
  BY <1>2
<1>4. \A r \in reviews : r.at <= r1.at
  <2> SUFFICES ASSUME NEW r \in reviews PROVE r.at <= r1.at
    OBVIOUS
  <2>1. age <= MaxTime - r.at
    BY <1>2
  <2> QED BY <1>3, <2>1, ReviewParts, TimeAssumption
<1>5. PICK top \in Nat : \A r \in reviews : r.rank <= top
  BY DEF ReviewNotes
<1> DEFINE latest == {r \in reviews : r.at = r1.at}
           depths == {top - r.rank : r \in latest}
<1>6. depths \subseteq Nat /\ depths # {}
  BY <1>3, <1>5, ReviewParts
<1>7. PICK depth \in depths : \A k \in depths : depth <= k
  BY <1>6, LeastNatural
<1>8. PICK r2 \in latest : depth = top - r2.rank
  BY <1>7
<1>9. \A r \in latest : r.rank <= r2.rank
  <2> SUFFICES ASSUME NEW r \in latest PROVE r.rank <= r2.rank
    OBVIOUS
  <2>1. depth <= top - r.rank
    BY <1>7
  <2> QED BY <1>5, <1>8, <2>1, ReviewParts
<1>10. \A q \in reviews : ~Before(Key(r2.at, r2.rank), Key(q.at, q.rank))
  <2> SUFFICES ASSUME NEW q \in reviews
               PROVE  ~ (r2.at < q.at \/ (r2.at = q.at /\ r2.rank < q.rank))
    BY DEF Before, Key
  <2>1. q.at <= r2.at /\ r2.at = r1.at
    BY <1>4, <1>8
  <2>2. q.at = r2.at => q.rank <= r2.rank
    BY <1>9, <2>1
  <2> QED BY <1>8, <2>1, <2>2, ReviewParts
<1> QED BY <1>8, <1>10 DEF LastReview

LEMMA ActivityTimes ==
  ASSUME Tables, NEW x \in Activity
  PROVE  ActivityAt(x) \in Nat
<1>1. jobs \in [Jobs -> Job \cup {None}] /\ notes \in [Notes -> Time \cup {None}]
      /\ artifacts \in [Arts -> Artifact \cup {None}] /\ validations \in [Checks -> Validation \cup {None}]
  BY DEF Tables, EvidenceInv
<1>2. Time \subseteq Nat
  BY TimeAssumption DEF Time
<1>3. CASE x \in TerminalJobs
  <2>1. x \in Jobs /\ jobs[x] \in Job
    BY <1>1, <1>3 DEF TerminalJobs, LivingJobs, Living
  <2>2. jobs[x].touched \in Time /\ jobs[x].finished \in Time \cup {None}
    BY <2>1 DEF Job
  <2> QED BY <1>2, <2>1, <2>2 DEF ActivityAt, OrElse
<1>4. CASE x \in ShownArtifacts
  <2>1. x \in Arts /\ x \notin Jobs /\ artifacts[x] \in Artifact
    BY <1>1, <1>4, DistinctAssumption DEF ShownArtifacts, IsActive, IsThere
  <2>2. artifacts[x].at \in Time
    BY <2>1 DEF Artifact
  <2> QED BY <1>2, <2>1, <2>2 DEF ActivityAt
<1>5. CASE x \in ShownChecks
  <2>1. x \in Checks /\ x \notin Jobs /\ x \notin Arts /\ validations[x] \in Validation
    BY <1>1, <1>5, DistinctAssumption DEF ShownChecks
  <2>2. validations[x].at \in Time
    BY <2>1 DEF Validation
  <2> QED BY <1>2, <2>1, <2>2 DEF ActivityAt
<1>6. CASE x \in ShownNotes
  <2>1. x \in Notes /\ x \notin Jobs \cup Arts \cup Checks /\ notes[x] \in Time
    BY <1>1, <1>6, DistinctAssumption DEF ShownNotes
  <2> QED BY <1>2, <2>1 DEF ActivityAt
<1>7. x \in TerminalJobs \/ x \in ShownArtifacts \/ x \in ShownChecks \/ x \in ShownNotes
  BY DEF Activity
<1> QED BY <1>3, <1>4, <1>5, <1>6, <1>7

(* What the last review does not know has been counted for something that  *)
(* has gone.                                                               *)
LEMMA PendingIf ==
  ASSUME ReviewInv PROVE ActivityStaysPending
<1> SUFFICES ASSUME LifecycleState = "open"
             PROVE  /\ Activity # {} => reviews # {}
                    /\ \A x \in Activity :
                         LET marker == LastReview.marker
                         IN  \/ x \in marker.known \ marker.changed
                             \/ /\ ActivityAt(x) <= LastReview.at
                                /\ x \in marker.known \/ marker.lost
  BY DEF ActivityStaysPending
<1>1. ~ PendingReview
  BY DEF LifecycleState
<1>2. Activity # {} =>
        /\ reviews # {} /\ ~ ActivityAfter(Key(LastReview.at, LastReview.rank))
        /\ ~ (ActivityCount > LastReview.marker.count)
  BY <1>1 DEF PendingReview
<1>3. ASSUME NEW x \in Activity
      PROVE  LET marker == LastReview.marker
             IN  /\ ActivityAt(x) <= LastReview.at
                 /\ x \in marker.known \/ marker.lost
  <2>1. PICK last \in reviews : last = LastReview
    BY <1>2, LastIsThere DEF ReviewInv
  <2> DEFINE m == last.marker
  <2>2. last.at \in Nat /\ m \in Marker /\ Faithful(m)
    BY ReviewParts DEF ReviewInv
  <2>3. ~ Before(Key(last.at, last.rank), Key(ActivityAt(x), Rank[x]))
    BY <1>2, <2>1 DEF ActivityAfter
  <2>4. ActivityAt(x) <= last.at
    <3>1. ActivityAt(x) \in Nat
      BY ActivityTimes DEF ReviewInv
    <3> QED BY <2>2, <2>3, <3>1 DEF Before, Key
  <2>5. ASSUME x \notin m.known, ~ m.lost PROVE FALSE
    <3>1. m.known \subseteq Activity /\ m.count <= Cardinality(m.known) + Cardinality(RecoveredJobs)
      BY <2>2, <2>5 DEF Faithful
    <3>2. IsFiniteSet(m.known) /\ Cardinality(m.known) \in Nat
      BY <3>1, FiniteActivity, FS_Subset, FS_CardinalityType
    <3>3. Cardinality(m.known \cup {x}) = Cardinality(m.known) + 1
      BY <2>5, <3>2, FS_AddElement
    <3>4. Cardinality(m.known \cup {x}) <= Cardinality(Activity)
      BY <3>1, FiniteActivity, FS_Subset
    <3>5. ~ (Cardinality(Activity) + Cardinality(RecoveredJobs) > m.count)
      BY <1>2, <2>1 DEF ActivityCount
    <3>6. m.count \in Nat
      BY <2>2 DEF Marker
    <3> HIDE DEF m
    <3> QED BY <3>1, <3>2, <3>3, <3>4, <3>5, <3>6, FiniteActivity
  <2> QED BY <2>1, <2>4, <2>5
<1> QED BY <1>2, <1>3

(* ActivityStaysPending: an experiment that the dashboard shows as open    *)
(* has no activity that its last review did not count, but for what is     *)
(* dated before the review and had been counted, or makes up in number for *)
(* what has gone.                                                          *)
THEOREM Pending == ReviewSpec => []ActivityStaysPending
  BY PendingIf, ReviewInvariance, PTL
=============================================================================
