------------------------------- MODULE Reconcile -------------------------------
(***************************************************************************)
(* Reconciliation: a manifest is planned row by row against the ledger as  *)
(* it is, the operations are put in order, and all are applied in one      *)
(* transaction, or none.  A dry run is the plan alone.                     *)
(*                                                                         *)
(* Of the sections of a manifest, these are runs, job_runs,                *)
(* custom_attributes of runs and sync_events.  Names, kinds, statuses of   *)
(* runs and parents are left out of the rows, which give no status.        *)
(***************************************************************************)
EXTENDS RunLifecycle, Sequences, Naturals

CONSTANTS
  Manifests,    \* bound: the manifests that are planned, by topic
  Steps         \* bound: those of them that are applied, at any time

-----------------------------------------------------------------------------
(* Null is what a row does not say.  op: upsert, where it says nothing.    *)
RunRow ==
  [section: {"runs"}, op: {Null, "archive"}, id: Runs \cup {Null}, exp: Experiments \cup {Null},
   key: Keys \cup {Null}, external: Externals \cup {Null}, attrs: (SUBSET Attrs) \cup {Null}]

EdgeRow ==
  [section: {"job_runs"}, op: {Null, "archive"}, pair: Jobs \X Runs, role: Roles, status: Statuses]

AttrsRow == [section: {"custom_attributes"}, run: Runs, attrs: SUBSET Attrs]
SyncRow == [section: {"sync_events"}, key: SyncKeys \cup {Null}]

Row == RunRow \cup EdgeRow \cup AttrsRow \cup SyncRow

(* exp: the experiment of all rows that name none.                         *)
Manifest == [rows: Seq(Row), exp: Experiments \cup {Null}]

ASSUME ManifestsAssumption ==
  /\ DOMAIN Manifests = Topics /\ DOMAIN Steps = Topics
  /\ \A t \in Topics : Manifests[t] \subseteq Manifest /\ Steps[t] \subseteq Manifests[t]
  /\ Manifests["experiments"] = {}

ASSUME NullFieldAssumption ==
  Null \notin Ledger \cup SyncKeys /\ \A attrs \in SUBSET Attrs : attrs # Null

-----------------------------------------------------------------------------
(* _dedupe_external_rows: rows without an id and with the same external    *)
(* identifier are one row, in which the later one has the last word.       *)
SameExternal(row, other) ==
  /\ row.section = "runs" /\ other.section = "runs"
  /\ row.id = Null /\ other.id = Null
  /\ row.external # Null /\ row.external = other.external

Overridden(old, new) == [field \in DOMAIN old |-> Either(new[field], old[field])]

Deduped_KeepsAll(rows) == rows

Merged(rows, row) ==
  LET same == {i \in DOMAIN rows : SameExternal(rows[i], row)}
  IN  IF same = {} THEN Append(rows, row)
      ELSE [i \in DOMAIN rows |-> IF i \in same THEN Overridden(rows[i], row) ELSE rows[i]]

Deduped(rows) ==
  LET first[n \in 0..Len(rows)] == IF n = 0 THEN <<>> ELSE Merged(first[n - 1], rows[n])
  IN  first[Len(rows)]

(* The rows that are planned, with the experiment of the manifest.         *)
PlannedRows(m) ==
  LET rows == Deduped(m.rows)
  IN  [i \in DOMAIN rows |->
         IF rows[i].section = "runs" THEN [rows[i] EXCEPT !.exp = Either(@, m.exp)] ELSE rows[i]]

(* _find_entity: by id, archived or not; else by experiment and key where  *)
(* the row has both, and only then by the external identifier.             *)
FindRun(d, row) ==
  IF row.id # Null /\ d.runs[row.id] # Null THEN {row.id}
  ELSE IF Null \notin {row.exp, row.key} THEN WithKey(d, row.exp, row.key)
  ELSE WithExternal(d, row.external)

(* action "refused": the planner raises an error.                          *)
Operation(section, action, id, row) ==
  [section |-> section, action |-> action, id |-> id, row |-> row]

(* _archive_operation: what is not there cannot be archived; what is       *)
(* archived, and was found by its id or as an edge, stays so.              *)
ArchiveOperation_Again(row, id, found, archived) ==
  Operation(row.section, IF ~found THEN "refused" ELSE "archive", id, row)

ArchiveOperation(row, id, found, archived) ==
  Operation(row.section, IF ~found THEN "refused" ELSE IF archived THEN "noop" ELSE "archive", id, row)

(* A run that exists keeps the attributes it has where the row has none.   *)
Filled(row, attrs) == [row EXCEPT !.attrs = Either(@, attrs)]

(* The experiment is compared also where the row has none.                 *)
RunDiffers(d, r, row) ==
  \/ d.runs[r].home # row.exp
  \/ row.key # Null /\ row.key # d.runs[r].key
  \/ row.external # Null /\ row.external # d.runs[r].external
  \/ row.attrs # Null /\ row.attrs # d.runs[r].attrs
  \/ row.exp # Null /\ <<row.exp, r>> \notin d.links

RunOperation(d, row, new) ==
  LET found == FindRun(d, row)
      known == found # {}
      r == IF known THEN CHOOSE s \in found : TRUE ELSE Either(row.id, new)
      planned == Filled(row, IF known THEN d.runs[r].attrs ELSE {})
  IN  IF row.op = "archive" THEN ArchiveOperation(row, r, known, known /\ d.runs[r].archived)
      ELSE Operation("runs",
             IF row.exp # Null /\ ~ActiveExperiment(d, row.exp) THEN "refused"
             ELSE IF ~known THEN "insert"
             ELSE IF RunDiffers(d, r, row) THEN "update" ELSE "noop",
             r, planned)

EdgeOperation(d, row) ==
  LET edge == d.edges[row.pair]
      known == edge # Null
  IN  IF row.op = "archive" THEN ArchiveOperation(row, row.pair, known, known /\ edge.archived)
      ELSE Operation("job_runs",
             IF ~known THEN "insert"
             ELSE IF edge.role # row.role THEN "refused"
             ELSE IF edge.status # row.status \/ edge.archived THEN "update" ELSE "noop",
             row.pair, row)

AttrsOperation(d, row) ==
  Operation("custom_attributes",
    IF d.runs[row.run] = Null THEN "refused"
    ELSE IF row.attrs \subseteq d.runs[row.run].attrs THEN "noop" ELSE "update",
    row.run, row)

SyncOperation(d, row) ==
  Operation("sync_events", IF row.key \in d.syncs THEN "noop" ELSE "sync_event", row.key, row)

PlanRow(d, row, new) ==
  IF row.section = "runs" THEN RunOperation(d, row, new)
  ELSE IF row.section = "job_runs" THEN EdgeOperation(d, row)
  ELSE IF row.section = "custom_attributes" THEN AttrsOperation(d, row)
  ELSE SyncOperation(d, row)

(* Rows that stand for no run and name no id get new ones.                 *)
Unnamed(d, row) ==
  row.section = "runs" /\ row.op = Null /\ row.id = Null /\ FindRun(d, row) = {}

NewIds(d, rows) ==
  LET unnamed == {i \in DOMAIN rows : Unnamed(d, rows[i])}
      fresh == {r \in Runs : d.runs[r] = Null /\ \A i \in DOMAIN rows :
                                rows[i].section = "runs" => rows[i].id # r}
  IN  {new \in [unnamed -> fresh] : \A i, j \in unnamed : new[i] = new[j] => i = j}

(* By action and section, and then by the place in the manifest.           *)
Rank == [insert |-> 0, update |-> 2, sync_event |-> 3, noop |-> 4, archive |-> 5, refused |-> 6]
Section == [runs |-> 0, job_runs |-> 2, custom_attributes |-> 7, sync_events |-> 8]

Before(operations, i, j) ==
  LET o == operations[i]  u == operations[j]
  IN  \/ Rank[o.action] < Rank[u.action]
      \/ /\ Rank[o.action] = Rank[u.action]
         /\ Section[o.section] < Section[u.section] \/ (o.section = u.section /\ i < j)

InOrder(operations) ==
  LET place == CHOOSE p \in [DOMAIN operations -> DOMAIN operations] :
                 \A i, j \in DOMAIN operations : i < j => Before(operations, p[i], p[j])
  IN  [i \in DOMAIN operations |-> operations[place[i]]]

Plan(d, rows, new) ==
  InOrder([i \in DOMAIN rows |-> PlanRow(d, rows[i], IF i \in DOMAIN new THEN new[i] ELSE Null)])

Actions(plan) == {plan[i].action : i \in DOMAIN plan}

(* The manifest may be planned: its experiment is open, no row is refused. *)
Open(d, m) == m.exp # Null => ActiveExperiment(d, m.exp)
Accepted(plan) == "refused" \notin Actions(plan)

-----------------------------------------------------------------------------
(* Null in the place of a ledger: a statement has failed.  The ledger in   *)
(* which an operation is applied may not be the one it was planned for.    *)
ApplyArchive(d, o) ==
  IF o.section = "runs" THEN ArchivedRun(d, o.id) ELSE [d EXCEPT !.edges[o.id].archived = TRUE]

ApplyRun(d, o) ==
  IF o.action = "update" THEN
    WithRun(d, o.id, UpdatedRun(d.runs[o.id], o.row.exp, o.row.key, o.row.external, o.row.attrs),
            o.row.exp)
  ELSE IF d.runs[o.id] # Null THEN Null
  ELSE WithRun(d, o.id, NewRun(o.row.exp, o.row.key, o.row.external, o.row.attrs), o.row.exp)

ApplyEdge(d, o) ==
  IF o.action = "update" THEN WithEdge(d, o.id, d.edges[o.id].role, o.row.status)
  ELSE IF d.edges[o.id] # Null \/ d.runs[o.id[2]] = Null THEN Null
  ELSE WithEdge(d, o.id, o.row.role, o.row.status)

(* The attributes are read again.                                          *)
ApplyAttrs(d, o) == [d EXCEPT !.runs[o.id].attrs = @ \cup o.row.attrs]

ApplySync(d, o) ==
  IF o.row.key \in d.syncs THEN Null ELSE [d EXCEPT !.syncs = @ \cup ({o.row.key} \ {Null})]

ApplyOperation(d, o) ==
  IF o.action = "noop" THEN d
  ELSE IF o.action = "archive" THEN ApplyArchive(d, o)
  ELSE IF o.section = "runs" THEN ApplyRun(d, o)
  ELSE IF o.section = "job_runs" THEN ApplyEdge(d, o)
  ELSE IF o.section = "custom_attributes" THEN ApplyAttrs(d, o)
  ELSE ApplySync(d, o)

(* The indexes are tested by each statement.                               *)
Effect(d, o) ==
  LET next == ApplyOperation(d, o) IN IF next = Null \/ ~RunsIndexed(next) THEN Null ELSE next

Applied(d, plan) ==
  LET after[n \in 0..Len(plan)] ==
        IF n = 0 THEN d ELSE IF after[n - 1] = Null THEN Null ELSE Effect(after[n - 1], plan[n])
  IN  after[Len(plan)]

(* What may become of the ledger with manifest m.                          *)
Outcomes(m) ==
  LET rows == PlannedRows(m)
  IN  IF ~Open(db, m) THEN {}
      ELSE {Applied(db, plan) : plan \in
              {q \in {Plan(db, rows, new) : new \in NewIds(db, rows)} : Accepted(q)}}

Reconcile(m) == \E d \in Outcomes(m) \ {Null} : Commit(d, {})

ReconcileNext ==
  Next \/ \E m \in Steps[follows] : Reconcile(m)

ReconcileSpec == Init /\ [][ReconcileNext]_vars

-----------------------------------------------------------------------------
(* Command p ends, in this step, with one of its writes.                   *)
Writes(p, does) == Ends(p) /\ Asked(p).does = does

(* A row that says which run it is about, by its id.                       *)
NamesRun(row, r) ==
  \/ row.section = "runs" /\ row.id = r
  \/ row.section = "custom_attributes" /\ row.run = r

(* Why the row of an archived run changes: an update whose lookup is out   *)
(* of date; the link that gives it a home; a second archiving, which       *)
(* brings back its status; a manifest that names its id.                   *)
ByAdd(r) == \E p \in Procs : Writes(p, "add") /\ Found(p) = r /\ ops[p].stale

ByLink(r) ==
  \E p \in Procs :
    /\ Writes(p, "link") /\ Asked(p).run = r /\ db.runs[r].home = Null
    /\ db'.runs[r] = [db.runs[r] EXCEPT !.home = Asked(p).exp]

ByName(r) ==
  \E m \in Steps[follows] :
    /\ Reconcile(m)
    /\ LET rows == PlannedRows(m) IN \E i \in DOMAIN rows : NamesRun(rows[i], r)

Explained(r) ==
  /\ db'.runs[r] # Null /\ db'.runs[r].archived
  /\ ByAdd(r) \/ ByLink(r) \/ db'.runs[r] = [db.runs[r] EXCEPT !.status = "archived"] \/ ByName(r)

(* A run that has been archived stays archived, and its row is changed by  *)
(* nobody who looks for runs, unless what was looked for has changed since:*)
(* only by those who name it, each in its way.                             *)
ArchivedRunsRest ==
  [][\A r \in Runs :
       db.runs[r] # Null /\ db.runs[r].archived /\ db'.runs[r] # db.runs[r] => Explained(r)]_vars

Quiet == \A p \in Procs : ~InFlight(p)

(* A row that stands for the same thing when it is looked for again: a run *)
(* that is archived, one that a row does not identify, and a sync event    *)
(* without a key are not found; a row for no experiment never agrees with  *)
(* a run that has one.                                                     *)
Recognised(row) ==
  /\ row.section = "runs" =>
       IF row.op = "archive" THEN row.id # Null /\ db.runs[row.id] # Null
       ELSE /\ row.id # Null \/ row.external # Null \/ Null \notin {row.exp, row.key}
            /\ row.exp = Null => \A r \in FindRun(db, row) : db.runs[r].home = Null
  /\ row.section = "sync_events" => row.key # Null

Named(row) == (FindRun(db, row) \cup {row.id}) \ {Null}

(* Two rows of one manifest that undo each other.                          *)
Contradict(row, other) ==
  \/ /\ row.section = "runs" /\ other.section = "runs"
     /\ Named(row) \cap Named(other) # {}
  \/ /\ row.section = "runs" /\ row.attrs # Null
     /\ other.section = "custom_attributes" /\ other.run \in Named(row)
  \/ /\ row.section = "job_runs" /\ other.section = "job_runs" /\ row.pair = other.pair

(* Whoever reconciles a manifest again, after all of its rows were applied *)
(* and nothing has changed, does nothing: unless a row of it cannot be     *)
(* found again or two contradict each other.                               *)
SecondApplicationIsNoop ==
  Quiet =>
    \A m \in Manifests[follows] : LET rows == PlannedRows(m) IN
      /\ \A i \in DOMAIN rows : Recognised(rows[i])
      /\ \A i, j \in DOMAIN rows : i # j => ~Contradict(rows[i], rows[j])
      => \A d \in Outcomes(m) \ {Null} : Actions(Plan(d, rows, <<>>)) \subseteq {"noop"}

(* The run that a row asks for.                                            *)
Upserts(row) == row.section = "runs" /\ row.op # "archive"

Aim(row) == IF FindRun(db, row) = {} THEN {row.id} \ {Null} ELSE FindRun(db, row)

Becomes(row) ==
  IF FindRun(db, row) = {} THEN NewRun(row.exp, row.key, row.external, {})
  ELSE LET r == CHOOSE s \in FindRun(db, row) : TRUE
       IN  UpdatedRun(db.runs[r], row.exp, row.key, row.external, {})

SameIdentity(run, other) ==
  /\ IsActive(run) /\ IsActive(other)
  /\ \/ run.external # Null /\ run.external = other.external
     \/ Null \notin {run.home, run.key} /\ run.home = other.home /\ run.key = other.key

(* A row takes what another run is known by.                               *)
Taken(row) ==
  Upserts(row) /\ \E r \in Runs \ Aim(row) : SameIdentity(Becomes(row), db.runs[r])

(* Two rows are for one new run, edge or event, and are not known to be    *)
(* the same row; or they move one run to two experiments.                  *)
Twice(row, other) ==
  \/ /\ Upserts(row) /\ Upserts(other) /\ ~SameExternal(row, other)
     /\ IF Aim(row) \cap Aim(other) = {} THEN SameIdentity(Becomes(row), Becomes(other))
        ELSE FindRun(db, row) = {} \/ row.exp # other.exp
  \/ /\ row.section = "job_runs" /\ other.section = "job_runs"
     /\ row.pair = other.pair /\ db.edges[row.pair] = Null
  \/ /\ row.section = "sync_events" /\ other.section = "sync_events"
     /\ row.key = other.key /\ row.key # Null /\ row.key \notin db.syncs

(* The new edge of a run that neither the ledger nor the manifest has.     *)
Dangling(row, rows) ==
  /\ row.section = "job_runs"
  /\ db.edges[row.pair] = Null /\ db.runs[row.pair[2]] = Null
  /\ \A i \in DOMAIN rows : Upserts(rows[i]) => row.pair[2] \notin Aim(rows[i])

(* What a dry run announces is done: a manifest that is planned is applied *)
(* whole, but for conflicts that the planner, who sees one row at a time,  *)
(* leaves to the indexes and foreign keys.                                 *)
DryRunPredicts ==
  Quiet =>
    \A m \in Manifests[follows] : LET rows == PlannedRows(m) IN
      Null \in Outcomes(m) =>
        \/ \E i \in DOMAIN rows : Taken(rows[i]) \/ Dangling(rows[i], rows)
        \/ \E i, j \in DOMAIN rows : i # j /\ Twice(rows[i], rows[j])
=============================================================================
