------------------------------ MODULE JobRetry ------------------------------
(***************************************************************************)
(* The jobs table and its retry lineage: `job add`, `job link-retry`,      *)
(* `job update-status`, `job archive` and the jobs section of              *)
(* `reconcile --apply`, run by several processes on one SQLite file.       *)
(*                                                                         *)
(* The commands of repository.py look a retry target up and walk its chain *)
(* before their first write opens a transaction: a read, then one atomic   *)
(* write, with the writes of others in between.  reconcile_manifest runs   *)
(* under BEGIN IMMEDIATE and is one atomic step.                           *)
(***************************************************************************)
EXTENDS Integers, FiniteSets, Sequences

CONSTANTS
  Procs,          \* command slots: how many commands may overlap
  JobIds,         \* ids that jobs may have
  Experiments,    \* values of experiment_id in use, beside Null
  GivenStatuses,  \* values of --status in use
  RowStatuses,    \* values of the status field of a manifest row in use
  MaxRows,        \* bound: the job rows of one manifest
  Null            \* SQL NULL, or a field a manifest row leaves out

VARIABLES
  jobs,           \* the jobs table, by id; Null where no row has that id
  ops             \* per command slot: the write its reads have decided on

vars == <<jobs, ops>>

-----------------------------------------------------------------------------
(* JOB_STATUSES                                                            *)
JobStatuses ==
  {"planned", "submitting", "unknown_submit", "queued", "running",
   "succeeded", "failed", "killed", "skipped", "unknown"}

OrNull(S) == S \cup {Null}

JobRow ==
  [experiment: OrNull(Experiments), status: JobStatuses,
   retryOf: OrNull(JobIds), archived: BOOLEAN]

Op ==
  [write: {"none", "insert", "update", "link"}, job: OrNull(JobIds),
   target: OrNull(JobIds), status: OrNull(JobStatuses),
   experiment: OrNull(Experiments)]

Idle ==
  [write |-> "none", job |-> Null, target |-> Null, status |-> Null,
   experiment |-> Null]

ASSUME NullAssumption == Null \notin JobIds \cup JobRow
ASSUME JobIdsAssumption == IsFiniteSet(JobIds)
ASSUME GivenAssumption == GivenStatuses \cup RowStatuses \subseteq JobStatuses /\ MaxRows \in Nat

Exists(j) == jobs[j] # Null
Active(j) == Exists(j) /\ ~jobs[j].archived
ActiveJobs == {j \in JobIds : Active(j)}

Init ==
  /\ jobs = [j \in JobIds |-> Null]
  /\ ops = [p \in Procs |-> Idle]

Decide(p, op) ==
  /\ ops[p].write = "none"
  /\ ops' = [ops EXCEPT ![p] = op]
  /\ UNCHANGED jobs

Done(p) == ops' = [ops EXCEPT ![p] = Idle]

-----------------------------------------------------------------------------
(* _retry_of_id: the tests a retry target passes before the write.  The    *)
(* chain from the target is followed over active rows only; it contains    *)
(* what every set that holds the target and is closed under those links    *)
(* contains.                                                               *)

Closed(S) ==
  \A j \in S : Active(j) /\ jobs[j].retryOf # Null => jobs[j].retryOf \in S

RetryChainContains(start, needle) ==
  \A S \in SUBSET JobIds : start \in S /\ Closed(S) => needle \in S

RetryAllowed_NoChainCheck(j, t) == Active(t) /\ t # j

RetryAllowed_AnyTarget(j, t) == Exists(t) /\ t # j /\ ~RetryChainContains(t, j)

RetryAllowed(j, t) ==
  /\ Active(t)
  /\ t # j
  /\ ~RetryChainContains(t, j)

(* add_job: a new row...                                                   *)
AddRead(p, t, e, s) ==
  /\ t # Null => Active(t)
  /\ Decide(p, [Idle EXCEPT !.write = "insert", !.target = t,
                            !.experiment = e, !.status = s])

(* ... or, with --update-existing, the active row of the same external id. *)
UpsertRead(p, j, t, e, s) ==
  /\ Active(j)
  /\ t # Null => RetryAllowed(j, t)
  /\ Decide(p, [write |-> "update", job |-> j, target |-> t,
                experiment |-> e, status |-> s])

(* link_job_retry: the job itself may be archived, its target may not.     *)
LinkRead(p, j, t) ==
  /\ Exists(j)
  /\ RetryAllowed(j, t)
  /\ Decide(p, [Idle EXCEPT !.write = "link", !.job = j, !.target = t])

Insert(p) ==
  /\ ops[p].write = "insert"
  /\ \E j \in JobIds :
       /\ ~Exists(j)
       /\ jobs' = [jobs EXCEPT ![j] =
            [experiment |-> ops[p].experiment, status |-> ops[p].status,
             retryOf |-> ops[p].target, archived |-> FALSE]]
  /\ Done(p)

Coalesce(x, y) == IF x = Null THEN y ELSE x

Update(p) ==
  /\ ops[p].write = "update"
  /\ LET old == jobs[ops[p].job]
     IN  jobs' = [jobs EXCEPT ![ops[p].job] =
           [old EXCEPT !.experiment = ops[p].experiment, !.status = ops[p].status,
                       !.retryOf = Coalesce(ops[p].target, old.retryOf)]]
  /\ Done(p)

Link(p) ==
  /\ ops[p].write = "link"
  /\ jobs' = [jobs EXCEPT ![ops[p].job].retryOf = ops[p].target]
  /\ Done(p)

(* The command dies, or finds the database locked, before its commit.      *)
Abort(p) ==
  /\ ops[p].write # "none"
  /\ Done(p)
  /\ UNCHANGED jobs

(* update_job_status and archive_job: one UPDATE by id of a row that was   *)
(* found before; rows are never deleted, so nothing they read can go stale.*)
UpdateStatus(j, s) ==
  /\ Exists(j)
  /\ jobs' = [jobs EXCEPT ![j].status = s]
  /\ UNCHANGED ops

Archive(j) ==
  /\ Exists(j)
  /\ jobs' = [jobs EXCEPT ![j].archived = TRUE]
  /\ UNCHANGED ops

-----------------------------------------------------------------------------
(* reconcile_manifest over the jobs section.  A row names one job, by id   *)
(* or by external id, and nothing keeps two rows from naming the same: only*)
(* rows without an id are merged.  other: the row changes something beside *)
(* the fields here (a name, the attrs, an explicit null).                  *)

UpsertRow ==
  [op: {"upsert"}, id: JobIds, status: OrNull(RowStatuses),
   experiment: OrNull(Experiments), retryOf: OrNull(JobIds), other: BOOLEAN]

ArchiveRow ==
  [op: {"archive"}, id: JobIds, status: {Null}, experiment: {Null},
   retryOf: {Null}, other: {FALSE}]

Manifests == UNION {[1 .. n -> UpsertRow \cup ArchiveRow] : n \in 1 .. MaxRows}

(* _row_diff: the planned row always has an experiment_id, given or not.   *)
Differs(row, old) ==
  \/ row.other
  \/ row.experiment # old.experiment
  \/ row.status \notin {Null, old.status}
  \/ row.retryOf \notin {Null, old.retryOf}

(* The actions of the plan; what is in none of the three is a noop.        *)
Upserts(m) == {i \in DOMAIN m : m[i].op = "upsert"}
Inserted(m) == {i \in Upserts(m) : ~Exists(m[i].id)}
Updated(m) == {i \in Upserts(m) : Exists(m[i].id) /\ Differs(m[i], jobs[m[i].id])}
Archived(m) == {i \in DOMAIN m : m[i].op = "archive" /\ Active(m[i].id)}

LastIn(rows) == CHOOSE i \in rows : \A k \in rows : k <= i

(* _validate_retry_operations: the links of the active jobs, overlaid with *)
(* those of the rows that insert, update or change nothing.  The row that  *)
(* comes last in the order of the plan (ACTION_ORDER: a noop after every   *)
(* update) stands for its job; one that leaves retry_of out, for a job     *)
(* without a link.                                                         *)
Overlaid(m, j) == {i \in DOMAIN m \ Archived(m) : m[i].id = j}

DecidingRow(m, j) ==
  LET noops == Overlaid(m, j) \ (Inserted(m) \cup Updated(m))
  IN  LastIn(IF noops = {} THEN Overlaid(m, j) ELSE noops)

PlannedJobs(m) == ActiveJobs \cup {j \in JobIds : Overlaid(m, j) # {}}

PlannedLinks(m) ==
  [j \in PlannedJobs(m) |->
     IF Overlaid(m, j) # {} THEN m[DecidingRow(m, j)].retryOf ELSE jobs[j].retryOf]

(* The walk from every job comes to an end: no jobs retry one another.     *)
Acyclic(links) ==
  ~ \E C \in SUBSET DOMAIN links : C # {} /\ \A j \in C : links[j] \in C

LinksValid_NoCycleTest(links) ==
  \A j \in DOMAIN links :
    links[j] # Null => links[j] # j /\ links[j] \in DOMAIN links

LinksValid_NoTargetTest(links) == Acyclic(links)

LinksValid(links) ==
  /\ \A j \in DOMAIN links :
       links[j] # Null => links[j] # j /\ links[j] \in DOMAIN links
  /\ Acyclic(links)

(* What SQLite tests at every statement: the primary key, and retry_of     *)
(* REFERENCES jobs(id).  The inserts come first, in manifest order.        *)
StatementsPass(m) ==
  /\ \A i, k \in Inserted(m) : m[i].id = m[k].id => i = k
  /\ \A i \in Inserted(m) \cup Updated(m) :
       m[i].retryOf # Null =>
         \/ Exists(m[i].retryOf)
         \/ \E k \in Inserted(m) :
              m[k].id = m[i].retryOf /\ (i \in Inserted(m) => k < i)

Committable(m) ==
  /\ \A i \in DOMAIN m : m[i].op = "archive" => Exists(m[i].id)
  /\ StatementsPass(m)
  /\ LinksValid(PlannedLinks(m))

(* _apply_job: the row inserted...                                         *)
FreshRow(row) ==
  [experiment |-> row.experiment, status |-> Coalesce(row.status, "planned"),
   retryOf |-> row.retryOf, archived |-> FALSE]

(* ... and what the updates, each with COALESCE, leave of an old one: of   *)
(* every field the value that the last row with that field gave.           *)
(* _apply_archive, after them, sets deleted_at.                            *)
LastGiven(m, j, field) ==
  LET rows == {i \in Updated(m) : m[i].id = j /\ m[i][field] # Null}
  IN  IF rows = {} THEN jobs[j][field] ELSE m[LastIn(rows)][field]

MergedRow(m, j) ==
  [experiment |-> LastGiven(m, j, "experiment"), status |-> LastGiven(m, j, "status"),
   retryOf |-> LastGiven(m, j, "retryOf"),
   archived |-> jobs[j].archived \/ \E i \in Archived(m) : m[i].id = j]

(* An invalid manifest, or a failing statement, rolls everything back: no  *)
(* step.                                                                   *)
AfterReconcile(m) ==
  [j \in JobIds |->
     IF Exists(j) THEN MergedRow(m, j)
     ELSE IF Overlaid(m, j) # {} THEN FreshRow(m[DecidingRow(m, j)])
     ELSE Null]

Reconcile(m) ==
  /\ Committable(m)
  /\ jobs' = AfterReconcile(m)
  /\ UNCHANGED ops

-----------------------------------------------------------------------------
Begin(p) ==
  \/ \E t \in OrNull(JobIds), e \in OrNull(Experiments), s \in GivenStatuses :
       \/ AddRead(p, t, e, s)
       \/ \E j \in JobIds : UpsertRead(p, j, t, e, s)
  \/ \E j, t \in JobIds : LinkRead(p, j, t)

Step(p) == Begin(p) \/ Insert(p) \/ Update(p) \/ Link(p) \/ Abort(p)

Next ==
  \/ \E p \in Procs : Step(p)
  \/ \E j \in JobIds : Archive(j) \/ \E s \in GivenStatuses : UpdateStatus(j, s)
  \/ \E m \in Manifests : Reconcile(m)

Spec == Init /\ [][Next]_vars

-----------------------------------------------------------------------------
TypeOK ==
  /\ jobs \in [JobIds -> OrNull(JobRow)]
  /\ ops \in [Procs -> Op]

RetryLinks == [j \in ActiveJobs |-> jobs[j].retryOf]

(* The check of the retry target that is about to be written would fail if *)
(* it were made now.                                                       *)
Stale(p) ==
  /\ ops[p].target # Null
  /\ IF ops[p].write = "insert" THEN ~Active(ops[p].target)
     ELSE ~RetryAllowed(ops[p].job, ops[p].target)

Writes(p) == ops[p].write # "none" /\ jobs' # jobs /\ ops'[p] = Idle

Reconciles(m) == Reconcile(m) /\ jobs' # jobs

(* A row that names a linked job without repeating its link.               *)
OmitsLink(m) ==
  \E i \in Upserts(m) :
    Exists(m[i].id) /\ m[i].retryOf = Null /\ jobs[m[i].id].retryOf # Null

(* Two rows that name one job and do not give it the same link.            *)
Conflicting(m, j) ==
  \E i, k \in Upserts(m) : m[i].id = j /\ m[k].id = j /\ m[i].retryOf # m[k].retryOf

(* The retry graph of the active jobs becomes cyclic in three ways only: a *)
(* write whose check of the chain another command has overtaken, or a      *)
(* reconcile whose manifest leaves the link of a linked job out (validated *)
(* as "no link", written as "keep the link") or names a job twice with     *)
(* different links (validated as the last row, written as both).           *)
CyclesNeedNamedCause ==
  [][Acyclic(RetryLinks) /\ ~Acyclic(RetryLinks') =>
       \/ \E p \in Procs : Writes(p) /\ Stale(p)
       \/ \E m \in Manifests :
            (OmitsLink(m) \/ \E j \in JobIds : Conflicting(m, j)) /\ Reconciles(m)]_vars

(* An active job comes to retry an archived one in four ways only: the     *)
(* target is archived under it, a write whose check was overtaken by that  *)
(* archiving, or a reconcile whose manifest names the archived target or   *)
(* names the job itself twice with different links.                        *)
Dangling(j) ==
  /\ Active(j)
  /\ jobs[j].retryOf # Null
  /\ ~Active(jobs[j].retryOf)

DanglingNeedsNamedCause ==
  [][\A j \in JobIds :
       Dangling(j)' /\ ~Dangling(j) =>
         \/ Active(jobs'[j].retryOf)
         \/ \E p \in Procs : Writes(p) /\ Stale(p) /\ ops[p].target = jobs'[j].retryOf
         \/ \E m \in Manifests :
              /\ Conflicting(m, j) \/ \E i \in DOMAIN m : m[i].id = jobs'[j].retryOf
              /\ Reconciles(m)]_vars

-----------------------------------------------------------------------------
(* A claim of the documentation that the code does not meet.               *)

(* "WHEN a reconcile manifest contains a ... cyclic retry link THEN        *)
(* reconcile rejects the manifest": no manifest closes a cycle.            *)
ManifestsCloseNoCycle ==
  [][(\E m \in Manifests : Reconciles(m)) /\ Acyclic(RetryLinks) => Acyclic(RetryLinks')]_vars
=============================================================================
