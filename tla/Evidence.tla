------------------------------- MODULE Evidence -------------------------------
(***************************************************************************)
(* Evidence on experiments and runs: artifacts, validations, notes and     *)
(* metrics, written by commands and by manifests, and the gate that closes *)
(* an archived experiment to everything but errata.                        *)
(*                                                                         *)
(* The four tables meet nowhere but in the experiments, runs and links     *)
(* their rows hang on, so a behaviour follows one of them.                 *)
(*                                                                         *)
(* A command reads outside any transaction: first who owns its target,     *)
(* then which row it would meet; only then it writes.  Experiments are     *)
(* archived, runs linked and rows written between any two of these steps.  *)
(* A manifest is planned and applied in one transaction.                   *)
(***************************************************************************)
EXTENDS FiniteSets

CONSTANTS
  Procs,        \* commands under way at once
  Experiments,  \* ids of experiments
  Runs,         \* ids of runs
  Ids,          \* ids that rows may have
  Keys,         \* URIs of artifacts, names of checks and metrics, titles of handoffs
  Contents,     \* statuses, values and hashes
  Resolved,     \* the one of them that resolves a note
  Given,        \* bound: those that commands and manifests give
  Attrs,        \* what attributes may say beside the reserved ones
  Plain,        \* what a row says unless attributes are customised
  Aims,         \* bound: the targets that they give
  Archivable,   \* bound: experiments and runs that are ever archived
  Linkable,     \* bound: experiments that runs are ever linked to
  Null          \* no row, no entity, no key

VARIABLES
  kind,         \* the table that is followed
  archived,     \* experiments and runs with deleted_at set
  links,        \* experiment_runs
  rows,         \* the table by id; Null where no row has that id
  ops           \* per command: its request, and what its reads have told it

vars == <<kind, archived, links, rows, ops>>

-----------------------------------------------------------------------------
Kinds == {"artifact", "validation", "note", "metric"}

Target == [exp : Experiments \cup {Null}, run : Runs \cup {Null}]

(* erratum, replaces: the reserved attributes of the same names.           *)
Row ==
  [on: Target, key: Keys \cup {Null}, content: Contents,
   archived: BOOLEAN, erratum: BOOLEAN, replaces: Ids \cup {Null}, attrs: Attrs]

(* upsert: a row it meets is updated; gated: the command looks at owners.  *)
Request ==
  [does: {"add", "link", "refresh"}, on: Target, key: Keys \cup {Null},
   content: Contents, errata: BOOLEAN, upsert: BOOLEAN, gated: BOOLEAN]

(* replaces, attrs: those of the row that a refresh has read; stale:       *)
(* something has changed since the command looked first (kept for the      *)
(* properties; no step depends on it).                                     *)
Op ==
  [phase: {"idle", "checked", "found"}, request: Request \cup {Null},
   found: Ids \cup {Null}, replaces: Ids \cup {Null}, attrs: Attrs, stale: BOOLEAN]

ASSUME NullAssumption ==
  Null \notin Experiments \cup Runs \cup Ids \cup Keys \cup Contents \cup Row \cup Request
ASSUME EntitiesAssumption == Experiments \cap Runs = {}
ASSUME BoundAssumption ==
  Aims \subseteq Target /\ Archivable \subseteq Experiments \cup Runs /\ Linkable \subseteq Experiments
ASSUME ContentsAssumption == Resolved \in Contents /\ Given \subseteq Contents /\ Plain \in Attrs

Nowhere == [exp |-> Null, run |-> Null]

(* What the rows of a table may be attached to.  An artifact has a column  *)
(* for each, of which commands require one and manifests none.             *)
OnExperiment == [exp : Experiments, run : {Null}]
OnRun == [exp : {Null}, run : Runs]

Targets ==
  IF kind = "artifact" THEN Target
  ELSE IF kind = "metric" THEN OnRun
  ELSE OnExperiment \cup OnRun

(* Of notes, only handoffs are told apart by their titles, which no other  *)
(* note is given.                                                          *)
RowKeys == IF kind = "note" THEN Keys \cup {Null} ELSE Keys
GivenKeys == IF kind = "note" THEN {Null} ELSE Keys
Errata == IF kind = "metric" THEN {FALSE} ELSE BOOLEAN

Additions ==
  {r \in [does: {"add"}, on: (Targets \cap Aims) \ {Nowhere}, key: GivenKeys, content: Given,
          errata: Errata, upsert: BOOLEAN, gated: BOOLEAN] :
     /\ r.upsert => kind # "note" /\ ~(kind = "artifact" /\ r.errata)
     /\ kind \in {"validation", "metric"} => r.upsert
     /\ ~r.gated => kind = "metric"}

LinkOf(e, r) ==
  [does |-> "link", on |-> [exp |-> e, run |-> r], key |-> Null, content |-> Resolved,
   errata |-> FALSE, upsert |-> FALSE, gated |-> FALSE]

(* errata: the other mark.                                                 *)
RefreshTo(c, errata) ==
  [does |-> "refresh", on |-> Nowhere, key |-> Null, content |-> c,
   errata |-> errata, upsert |-> FALSE, gated |-> FALSE]

Idle == [phase |-> "idle", request |-> Null, found |-> Null,
         replaces |-> Null, attrs |-> Plain, stale |-> FALSE]

InFlight(p) == ops[p].phase # "idle"
Asked(p) == ops[p].request

Exists(x) == rows[x] # Null
Active(x) == Exists(x) /\ ~rows[x].archived
Fresh(x) == ~Exists(x)

Init ==
  /\ kind \in Kinds
  /\ archived = {}
  /\ links = {}
  /\ rows = [x \in Ids |-> Null]
  /\ ops = [p \in Procs |-> Idle]

-----------------------------------------------------------------------------
(* Who owns a target, and whether all of them are open.                    *)
Owners_Direct(t) == {t.exp} \ {Null}

Owners(t) == ({t.exp} \ {Null}) \cup {e \in Experiments : <<e, t.run>> \in links}

Open(t) == Owners(t) \cap archived = {}

EntityActive(t) == t.exp \notin archived /\ t.run \notin archived

Related(t, u) ==
  Owners(t) = {} \/ Owners(u) = {} \/ Owners(t) \cap Owners(u) # {}

(* The active rows that a request or a row of a manifest stands for: the   *)
(* artifact with its URI, the validation with its entity and check, the    *)
(* metric with its run and series.                                         *)
SameKey(r, u) ==
  kind # "note" /\ u.key = r.key /\ (kind # "artifact" => u.on = r.on)

Matching_AnyRow(r) == {x \in Ids : Exists(x) /\ SameKey(r, rows[x])}

Matching(r) == {x \in Ids : Active(x) /\ SameKey(r, rows[x])}

(* idx_artifacts_uri_unique, idx_validations_key, idx_metrics_idempotency  *)
Indexed(table) ==
  \A x, y \in Ids :
    x # y /\ table[x] # Null /\ table[y] # Null /\ SameKey(table[x], table[y])
      => table[x].archived \/ table[y].archived

-----------------------------------------------------------------------------
(* add_artifact, add_validation, add_note, add_metric; the import of a      *)
(* metrics CSV is an add_metric that does not look at owners.              *)

Permitted(r) ==
  /\ r.gated => r.errata \/ Open(r.on)
  /\ kind = "validation" => r.errata \/ EntityActive(r.on)

Begun(p, phase, request, x) ==
  /\ ~InFlight(p)
  /\ ops' = [ops EXCEPT ![p] =
       [phase |-> phase, request |-> request, found |-> x,
        replaces |-> IF x = Null THEN Null ELSE rows[x].replaces,
        attrs |-> IF x = Null THEN Plain ELSE rows[x].attrs, stale |-> FALSE]]
  /\ UNCHANGED <<kind, archived, links, rows>>

Check(p, r) ==
  /\ Permitted(r)
  /\ Begun(p, IF kind = "note" THEN "found" ELSE "checked", r, Null)

(* The row it meets, which the write will use although it may have changed *)
(* by then.  An erratum takes the place of a row of its own experiments    *)
(* only; an artifact that exists is updated on --update-existing only.     *)
Usable_AnyExperiment(r, x) == r.errata \/ r.upsert

Usable(r, x) ==
  IF r.errata THEN kind = "artifact" => Related(r.on, rows[x].on)
  ELSE r.upsert

Find(p) ==
  /\ ops[p].phase = "checked"
  /\ \/ /\ Matching(Asked(p)) = {}
        /\ ops' = [ops EXCEPT ![p].phase = "found"]
     \/ \E x \in Matching(Asked(p)) :
          ops' = [ops EXCEPT ![p] =
            IF Usable(Asked(p), x) THEN [@ EXCEPT !.phase = "found", !.found = x]
            ELSE Idle]
  /\ UNCHANGED <<kind, archived, links, rows>>

(* A commit of one command, or of something that reads and writes in one   *)
(* step (S is empty then): what the others have read is out of date.       *)
Commit(S) ==
  LET changed == <<archived, links, rows>>' # <<archived, links, rows>>
  IN  ops' = [q \in Procs |->
        IF q \in S THEN Idle
        ELSE IF InFlight(q) THEN [ops[q] EXCEPT !.stale = @ \/ changed] ELSE ops[q]]

Write(table, S) ==
  /\ Indexed(table)
  /\ rows' = table
  /\ UNCHANGED <<kind, archived, links>>
  /\ Commit(S)

NewRow(r, replaced) ==
  [on |-> r.on, key |-> r.key, content |-> r.content,
   archived |-> FALSE, erratum |-> r.errata, replaces |-> replaced, attrs |-> Plain]

Inserted(r, x) == [rows EXCEPT ![x] = NewRow(r, Null)]

Replaced_InPlace(r, old, x) ==
  [rows EXCEPT ![x] = NewRow(r, old)]

Replaced(r, old, x) ==
  [rows EXCEPT ![old].archived = TRUE, ![x] = NewRow(r, old)]

Either(new, old) == IF new = Null THEN old ELSE new

Merged(t, u) == [exp |-> Either(t.exp, u.exp), run |-> Either(t.run, u.run)]

(* UPDATE ... WHERE id: whatever the row is by now.  The attributes are    *)
(* those of the request, so that the marks of an erratum are lost; those   *)
(* of metrics are not written at all.                                      *)
Updated(r, x) ==
  [rows EXCEPT ![x] =
    [@ EXCEPT !.on = IF kind = "artifact" THEN Merged(r.on, rows[x].on) ELSE rows[x].on,
              !.content = r.content, !.erratum = FALSE, !.replaces = Null,
              !.attrs = IF kind = "metric" THEN rows[x].attrs ELSE Plain]]

Ready(p) == ops[p].phase = "found" /\ Asked(p).does = "add"
Met(p) == ops[p].found

Insert(p, x) ==
  Ready(p) /\ Met(p) = Null /\ Fresh(x) /\ Write(Inserted(Asked(p), x), {p})

Replace(p, x) ==
  /\ Ready(p) /\ Met(p) # Null /\ Asked(p).errata
  /\ Fresh(x) /\ Write(Replaced(Asked(p), Met(p), x), {p})

Update(p) ==
  Ready(p) /\ Met(p) # Null /\ ~Asked(p).errata /\ Write(Updated(Asked(p), Met(p)), {p})

(* The index knows of a row that the command did not meet, the database is *)
(* locked, or the process dies: nothing is written.                        *)
Abort(p) ==
  /\ InFlight(p)
  /\ ops' = [ops EXCEPT ![p] = Idle]
  /\ UNCHANGED <<kind, archived, links, rows>>

(* link_run: the experiment is active when it looks.                       *)
LinkRead(p, e, r) == e \notin archived /\ Begun(p, "found", LinkOf(e, r), Null)

Link(p) ==
  /\ InFlight(p) /\ Asked(p).does = "link"
  /\ links' = links \cup {<<Asked(p).on.exp, Asked(p).on.run>>}
  /\ UNCHANGED <<kind, archived, rows>>
  /\ Commit({p})

(* refresh_local_artifact: no gate; the file is hashed after the row is    *)
(* read, and attributes, or the hash, go back to what was read.            *)
RefreshRead(p, x, c) ==
  /\ kind = "artifact" /\ Exists(x)
  /\ Begun(p, "found", RefreshTo(c, rows[x].erratum), x)

Refresh_MetadataOnly(p) ==
  /\ InFlight(p) /\ Asked(p).does = "refresh"
  /\ Write([rows EXCEPT ![Met(p)] =
       [@ EXCEPT !.content = Asked(p).content, !.erratum = Asked(p).errata,
                 !.replaces = ops[p].replaces, !.attrs = Plain]], {p})

Refresh(p) ==
  /\ InFlight(p) /\ Asked(p).does = "refresh"
  /\ Write([rows EXCEPT ![Met(p)] =
       [@ EXCEPT !.content = Asked(p).content, !.erratum = Asked(p).errata,
                 !.replaces = ops[p].replaces, !.attrs = ops[p].attrs]], {p})

-----------------------------------------------------------------------------
(* Commands without a gate, whose only read is the one that finds the row. *)

(* archive_experiment, archive_run                                         *)
Archive(e) ==
  /\ archived' = archived \cup {e}
  /\ UNCHANGED <<kind, links, rows>>
  /\ Commit({})

(* archive_artifact, archive_validation, archive_note, archive_metric, and  *)
(* the _op archive of a manifest.                                          *)
ArchiveRow(x) == Exists(x) /\ Write([rows EXCEPT ![x].archived = TRUE], {})

ResolveNote(x) ==
  kind = "note" /\ Exists(x) /\ Write([rows EXCEPT ![x].content = Resolved], {})

(* switch_session leaves a note on the experiment of the session it ends,  *)
(* which may have been archived since that session began.                  *)
HandoffNote(e, k, c) ==
  [on |-> [exp |-> e, run |-> Null], key |-> k, content |-> c, errata |-> FALSE]

Handoff(e, k, c) ==
  kind = "note" /\ \E x \in Ids : Fresh(x) /\ Write(Inserted(HandoffNote(e, k, c), x), {})

-----------------------------------------------------------------------------
(* A manifest of one row m: found by id (archived or not), else as a       *)
(* command finds it; gated on what it is attached to, and on what the row  *)
(* that it updates is attached to; all in one transaction.  An id that no  *)
(* row has is as good as none, for new ids are any that are fresh.         *)
ManifestRows ==
  [on: Targets \cap Aims, key: GivenKeys, content: Given, errata: Errata,
   id: {x \in Ids : Exists(x)} \cup {Null}]

FoundBy(m) == IF m.id # Null THEN {m.id} ELSE Matching(m)

MayTarget(m) ==
  /\ kind = "metric" \/ m.errata \/ Open(m.on)
  /\ kind = "validation" => m.errata \/ EntityActive(m.on)

MayUpdate(x) == kind = "metric" \/ Open(rows[x].on)

Replacing(m) == m.errata /\ kind \in {"artifact", "validation"}

(* marks: attributes are written anew, the marks among them, for m is an   *)
(* erratum or has attributes.                                              *)
UpdatedBy(m, marks, x) ==
  [rows EXCEPT ![x] =
    [@ EXCEPT !.on = IF kind = "artifact" THEN Merged(m.on, rows[x].on) ELSE rows[x].on,
              !.key = IF kind = "artifact" THEN m.key ELSE rows[x].key,
              !.content = m.content,
              !.erratum = IF marks THEN m.errata ELSE rows[x].erratum,
              !.replaces = IF marks THEN Null ELSE rows[x].replaces,
              !.attrs = IF marks THEN Plain ELSE rows[x].attrs]]

ReconcileInsert(m) ==
  FoundBy(m) = {} /\ \E x \in Ids : Fresh(x) /\ Write(Inserted(m, x), {})

ReconcileReplace(m) ==
  /\ Replacing(m)
  /\ \E old \in FoundBy(m), x \in Ids :
       /\ kind = "artifact" => Related(m.on, rows[old].on)
       /\ Fresh(x) /\ Write(Replaced(m, old, x), {})

ReconcileUpdate(m) ==
  /\ ~Replacing(m)
  /\ \E old \in FoundBy(m), marks \in BOOLEAN :
       /\ MayUpdate(old)
       /\ m.errata => marks
       /\ marks => kind # "metric"
       /\ Write(UpdatedBy(m, marks, old), {})

ReconcileRow(m) ==
  /\ MayTarget(m)
  /\ ReconcileInsert(m) \/ ReconcileReplace(m) \/ ReconcileUpdate(m)

(* A row of the custom_attributes section: any artifact or metric by its   *)
(* id, whoever owns it.  The reserved attributes are out of its reach.     *)
ReconcileAttrs_Anew(x, a) ==
  /\ kind \in {"artifact", "metric"} /\ Exists(x)
  /\ Write([rows EXCEPT ![x] = [@ EXCEPT !.attrs = a, !.erratum = FALSE, !.replaces = Null]], {})

ReconcileAttrs(x, a) ==
  /\ kind \in {"artifact", "metric"} /\ Exists(x)
  /\ Write([rows EXCEPT ![x].attrs = a], {})

(* A row of the runs section that names an experiment of its own.          *)
ReconcileLink(e, r) ==
  /\ e \notin archived
  /\ links' = links \cup {<<e, r>>}
  /\ UNCHANGED <<kind, archived, rows>>
  /\ Commit({})

-----------------------------------------------------------------------------
Command(p) ==
  \/ \E r \in Additions : Check(p, r)
  \/ \E e \in Linkable, r \in Runs : LinkRead(p, e, r)
  \/ \E x \in Ids, c \in Contents : RefreshRead(p, x, c)
  \/ Find(p)
  \/ \E x \in Ids : Insert(p, x) \/ Replace(p, x)
  \/ Update(p) \/ Abort(p) \/ Link(p) \/ Refresh(p)

Ungated ==
  \/ \E e \in Archivable : Archive(e)
  \/ \E x \in Ids : ArchiveRow(x) \/ ResolveNote(x)
  \/ \E e \in Experiments, k \in Keys, c \in Given : Handoff(e, k, c)

Reconcile ==
  \/ \E m \in ManifestRows : ReconcileRow(m)
  \/ \E x \in Ids, a \in Attrs \ {Plain} : ReconcileAttrs(x, a)
  \/ \E e \in Linkable, r \in Runs : ReconcileLink(e, r)

Next == Ungated \/ Reconcile \/ \E p \in Procs : Command(p)

Spec == Init /\ [][Next]_vars

-----------------------------------------------------------------------------
TypeOK ==
  /\ kind \in Kinds
  /\ archived \subseteq Archivable
  /\ links \subseteq Linkable \X Runs
  /\ rows \in [Ids -> Row \cup {Null}]
  /\ \A x \in Ids : Exists(x) => rows[x].on \in Targets /\ rows[x].key \in RowKeys
  /\ ops \in [Procs -> Op]

(* An archived experiment owns t, as its target or through a run.          *)
Shut(t) == \E e \in archived : t.exp = e \/ <<e, t.run>> \in links

(* Row x is written, other than by archiving it.                           *)
Written(x) ==
  /\ rows'[x] # rows[x]
  /\ Exists(x) => rows'[x] # [rows[x] EXCEPT !.archived = TRUE]

(* Row x is evidence that an archived experiment should not get: a new row *)
(* without the mark of an erratum, or an old one that changes.             *)
Intrudes(x) ==
  /\ Written(x)
  /\ IF Exists(x) THEN Shut(rows[x].on) \/ Shut(rows'[x].on)
     ELSE Shut(rows'[x].on) /\ ~rows'[x].erratum

Ends(p) == InFlight(p) /\ ~InFlight(p)'

(* After an experiment is archived, what it owns is added to by errata and *)
(* not changed in place, also where it owns a run only.  The exceptions    *)
(* are these: notes are resolved, and sessions leave their handoffs;       *)
(* manifests write metrics, and so does the import; manifests customise    *)
(* attributes of artifacts, and nothing else of them; artifacts are        *)
(* refreshed from their files, or updated through another target; and a    *)
(* command writes whose reads are out of date.                             *)
ClosedToEvidence ==
  [][\A x \in Ids : Intrudes(x) =>
       \/ kind = "note" /\ rows[x] # Null /\ rows'[x] = [rows[x] EXCEPT !.content = Resolved]
       \/ kind = "note" /\ rows[x] = Null /\ rows'[x].key # Null
       \/ /\ kind = "artifact" /\ rows[x] # Null
          /\ rows'[x] = [rows[x] EXCEPT !.attrs = rows'[x].attrs]
          /\ \A p \in Procs : ~Ends(p)
       \/ kind = "metric" /\ \A p \in Procs : Ends(p) => ~Asked(p).gated
       \/ \E p \in Procs :
            /\ Ends(p)
            /\ \/ ops[p].stale
               \/ Asked(p).does = "refresh"
               \/ kind = "artifact" /\ Met(p) = x /\ Asked(p).does = "add" /\ ~Shut(Asked(p).on)]_vars

(* What an erratum replaces exists, and is archived with it: the ledger    *)
(* never shows both.                                                       *)
SupersededIsArchived ==
  \A x \in Ids : Exists(x) /\ rows[x].replaces # Null =>
    Exists(rows[x].replaces) /\ rows[rows[x].replaces].archived

(* Row y comes to take the place of row x.                                 *)
Supersedes(y, x) == Fresh(y) /\ rows'[y] # Null /\ rows'[y].replaces = x

(* A row that has been archived is at rest: it is changed, or gets another *)
(* successor, only by a command whose lookup is out of date, by a refresh  *)
(* or the resolution of a note, which name their row, or by a manifest,    *)
(* which finds rows by id although they are archived.                      *)
RetractedRowsRest ==
  [][\A x \in Ids :
       /\ Exists(x) /\ rows[x].archived
       /\ rows'[x] # rows[x] \/ \E y \in Ids : Supersedes(y, x)
       => \A p \in Procs : Ends(p) => ops[p].stale \/ Asked(p).does = "refresh"]_vars

(* No experiment retracts the artifact of another one by an erratum of its *)
(* own: both have an owner in common, or one of them has none.             *)
ErrataStayHome ==
  [][\A x, y \in Ids :
       Supersedes(y, x) /\ kind = "artifact" =>
         \/ \E e \in Experiments :
              /\ rows[x].on.exp = e \/ <<e, rows[x].on.run>> \in links
              /\ rows'[y].on.exp = e \/ <<e, rows'[y].on.run>> \in links
         \/ \E t \in {rows[x].on, rows'[y].on} :
              t.exp = Null /\ \A e \in Experiments : <<e, t.run>> \notin links
         \/ \E p \in Procs : Ends(p) /\ ops[p].stale]_vars

(* A refresh writes back all the attributes that it read before it hashed  *)
(* the file.  What a manifest has said of an artifact is lost by that only *)
(* if it was said, or something else was written, while the file was read. *)
RefreshKeepsAttrs ==
  [][\A p \in Procs :
       Ends(p) /\ Asked(p).does = "refresh" /\ rows'[Met(p)].attrs # rows[Met(p)].attrs
         => ops[p].stale]_vars
=============================================================================
