# Fieldbook in TLA+

Fieldbook is a local-first ledger for experiments: one SQLite file
(`.experiments/ledger.sqlite`), a command line, and a handful of agents and people who run
that command line at the same time. There is no server. Every command is an
operating-system process that opens its own connection, reads, decides, writes and exits;
the database is the only thing the processes share, apart from a session marker file,
snapshot files and the external systems (a job scheduler, W&B). This directory models the
parts of it in which the order of those steps matters, checks the models with TLC and
proves the central facts with TLAPS.

## How a command touches the ledger

Everything below rests on one fact of Python's `sqlite3` as `db.connect`
(`src/src/fieldbook/db.py:64-80`) uses it: a `SELECT` outside a transaction sees the
database of that instant and holds nothing; the first `INSERT`, `UPDATE` or `DELETE` opens
the write transaction, which `with self.conn:` commits or rolls back as one. `BEGIN
IMMEDIATE` takes the write lock at once. So

- a command that reads and then writes (most of `repository.py`) is **two steps**: a read
  that fixes what will be written, and one atomic write into a database that others may
  have changed;
- a command under `BEGIN IMMEDIATE` (`reconcile --apply`, the body of `session switch`) is
  **one step**;
- the unique indexes and foreign keys of `018_initial.sql` are tested in the database that
  is written: they are what a stale read runs into;
- a process may die, or find the database locked for more than its five seconds of
  `busy_timeout`, between any two steps: the transaction it had open is gone.

Every module models commands this way. A command in flight is a record in a function
`ops`, from command slots (`Procs`) to what its reads decided.

## Inventory

| Component | State | Operations | Hard behaviour | What makes it correct |
|---|---|---|---|---|
| Advisory leases (`repository.py:408-509`) | `leases` | claim, heartbeat, release | read-then-write, takeover against release, expiry judged early, unique index | one unreleased lease per entity; takeovers only when expired or forced; a true lineage |
| Jobs and retry lineage (`repository.py:691-899`, `_retry_of_id`) | `jobs` | add, upsert, link-retry, update-status, archive | chain checked before the write; archived targets | the retry graph stays acyclic and resolves |
| Reconcile (`reconcile.py`) | every table, `reconcile_events` | plan, apply a manifest, dry run | rows planned one by one and applied in another order; validation against a plan, writes with `COALESCE`; foreign keys row by row | one transaction; a dry run says what is done; applying twice changes nothing |
| Recovery views and readiness (`018_initial.sql:684-801`, `experiment_status`) | derived | – | transitive over archived and foreign rows | no failure hidden behind an unfinished retry |
| Doctor (`doctor.py`) | derived | checks | must report what slipped in | reports every broken row, and no sound one |
| Runs and edges (`add_run`, `link_run`, `_upsert_job_run`) | `runs`, `experiment_runs`, `job_runs` | add, upsert, link, archive | external ids and idempotency keys looked up before the insert; a home in the row and links beside it | a run is linked to its home; an index is met only after an overlap; archived runs rest |
| Artifacts, metrics, validations, notes (`repository.py:901-1555`) | their tables | add, update, archive, errata | archive of the experiment races the write | nothing is written to an archived experiment without `--errata` |
| Sessions (`repository.py:1557-1727`, `cli.py:1030-1095`) | `sessions`, marker file, environment | start, switch, end | marker written after the commit; two shells in one worktree | a closed session is handed off; no command runs under a closed session |
| Writeback (`writeback.py`) | `sync_events`, the W&B summary | plan, apply | external effect before the audit row; crash in between; overlap | every write is audited; nothing is written twice unasked |
| Refresh (`refresh.py`, `adapters.py`) | files, `refresh_events` | run a source | helper, adapter, reconcile, event in separate steps; file names by second | one event per attempt, naming its own files |
| Snapshot (`snapshot.py`) | snapshot, metadata file, temporary files | export, import | copy and counts at different times; fixed temporary names; two renames | the metadata describe the snapshot beside them |
| Database and migrations (`db.py`) | schema version | init, migrate on connect | the file is created before it is migrated; newer and older versions | one version at a time; a newer ledger is only read |
| Ledger resolution (`ledger_resolution.py`) | `.fieldbook`, the directories | resolve, resolve for init | decided first, created later | init takes no ledger's place |
| Freshness (`freshness.py`) | artifacts, validations, the files | capture, refresh, validate | files looked at before the row is written; seconds | a validation of a changed file is reported |
| Review state, dashboard (`dashboard.py`, views 1225-1480) | derived, review notes | mark-reviewed, checkpoint | read, then noted; seconds as keys | new activity is pending; the three places that advise agree |
| Experiments (`create`, `checkpoint`, `cleanup`) | `experiments`, notes | create, archive, checkpoint, cleanup | a plan read before its transaction; note and archive in separate ones | a cleanup settles what it planned for the reason it planned it |
| Git info, CLI parsing, SQL guard, output, ids, prompts | none | – | pure functions of their input | – |

The state that a component keeps beside its table is named where it matters:
`.fieldbook.session` (sessions), snapshot, manifest and debug files (refresh), the summary
of a W&B run (writeback), the metadata file of an export. Components interact in three
ways: through rows (the recovery view reads jobs, writeback reads metrics and its own
audit rows), by calls (`refresh` calls the adapters and then `reconcile_manifest`; nearly
every write calls `_attrs_with_session` and, for an archived experiment, the `--errata`
gate), and by overtaking one another between a read and a write, which is what the models
are about.

## Modules

| Module | Models | Extended or instantiated by |
|---|---|---|
| `LeaseOwnership` | the promise of the lease commands: an ownership register | `Leases` (`INSTANCE ... WITH held <- Holdings`) |
| `Leases` | `claim_lease`, `heartbeat_lease`, `release_lease` on the table and its partial unique index | `MCLeases`, `LeasesProofs` |
| `JobRetry` | the jobs table, `_retry_of_id`, the job commands, the jobs section of a manifest | `JobRecovery`, `JobRetryProofs` |
| `JobRecovery` | recovery view, readiness, doctor's cycle search, all derived from `JobRetry` | `MCJobRetry` |
| `Writeback` | `plan_wandb_writeback`, `apply_wandb_writeback`, metrics changing beneath them | `MCWriteback`, `WritebackProofs` |
| `Sessions` | the session commands, markers, stamping | `MCSessions`, `SessionsProofs` |
| `Evidence` | artifacts, validations, notes, metrics; archive gate, errata, run links; commands beside manifests | `MCEvidence`, `EvidenceProofs` |
| `Refresh` | `run_refresh` over files, reconcile and refresh events | `MCRefresh`, `RefreshProofs` |
| `RunLifecycle` | `create_experiment`, `add_run`, `link_run`, `link_job_run`, archiving: experiments, runs, links, edges | `Reconcile` |
| `Reconcile` | `reconcile_manifest`: planning row by row, order, application, dry runs, beside the commands of `RunLifecycle` | `MCReconcile`, `RunLifecycleProofs` |
| `Freshness` | artifacts and validations against the files and the clock; drift and staleness | `Review` |
| `Review` | review markers, lifecycle of the dashboard, handoff status in three places, checkpoint, cleanup; composed with `Freshness` | `MCReview`, `EvidenceProofs` |
| `LedgerFile` | resolution, init, migration; export and import of snapshots on files | `MCLedgerFile`, `LedgerFileProofs` |

The `MC` modules add symmetry sets and give constants their values (the manifests of
`MCReconcile`, the behaviours of `MCReview`, the directories of `MCLedgerFile`); the
configurations replace no definition. Definitions with a suffix (`Expiry_Late`,
`Owners_Direct`) are variants with a mistake that could have been made; no action uses
them. They are there to show that the properties can tell the difference. `Freshness` and
`Review` are proved about beside `Evidence`, in one module, and so have names of their own
for what `Evidence` calls `Procs`, `ops` and `Null` (`Writers`, `tasks`, `None`).

### Leases

State: `leases` is the table by id, `clock` is `utc_now()`, `ops[p]` is the write that
command `p` has decided on. `claim_lease` (`repository.py:408-484`) is one read with four
outcomes and one write with two:

- `ClaimFresh`, `ClaimOwn`, `ClaimTakeover` are the branches after the `SELECT` at 427; a
  conflict changes nothing and is no step. `now` is drawn at 420, before the `SELECT`, so
  `ClaimTakeover` judges expiry with any `now` up to the clock.
- `ClaimInsert` is the transaction at 446-483 when the index accepts the row,
  `ClaimRejected` when it does not: `IntegrityError` takes the release of the old lease
  back as well.
- `Reclaim`, `HeartbeatRead`/`Heartbeat`, `ReleaseRead`/`Release` are the re-claim of
  one's own lease, `heartbeat_lease` and `release_lease`.
- `Abort` is a death, or a locked database, before the commit.

Writes are by id and do not test `released_at` again, so `Ended` overwrites whatever the
row holds by then. Heartbeat times, sessions and attrs are data that no guard reads, and
are left out.

`LeaseOwnership` knows neither a table nor commands under way: an entity is free, or held
by one agent with an expiry; it is acquired when free, handed over when the hold has
lapsed or force is in use, given up, and nothing else.

### Job retry and recovery

State: `jobs`, and per command the write its checks have let through. `add_job` (without
and with `--update-existing`), `link_job_retry` are a read (`AddRead`, `UpsertRead`,
`LinkRead`) and a write (`Insert`, `Update`, `Link`); `update_job_status` and
`archive_job` are single updates by id. `Reconcile(m)` is the jobs section of
`reconcile_manifest` under `BEGIN IMMEDIATE`: one step, for a manifest that `Committable`
accepts. `PlannedLinks` is the overlay the validation looks at (`reconcile.py:855-905`),
`AfterReconcile` is what `_apply_job` and `_apply_archive` write. They differ, and that
they differ is the point: a row without `retry_of` is validated as "no link" and written
as "keep the link". Nor do the rows of a manifest have to name different jobs:
`_dedupe_external_rows` (`:278-291`) merges rows without an id only. The validation then
looks at the one that comes last in the order of the plan (`DecidingRow`: a row that
changes nothing comes after all that do), while all of them are written, so that each
field ends as the last row that gives it says (`LastGiven`). `other` stands for what else
may make a row an update: a name, attributes, an explicit null.

`JobRecovery` adds no state. `RetryState` is the view `v_jobs_with_recovery_v1`:
`RetryEdges` is its recursive part, by depth, each job with the path that led to it, down
to `MaxDepth`, which the code sets to 32 (`018_initial.sql:705`). `IsReady` is the part of
`experiment_status` that looks at jobs, for each experiment by itself; `RetryCycles` is
the walk of doctor's `_retry_cycles`, which stops where it has been before.

### Writeback

State: metrics, `events` (`sync_events`), `wandb` (every value a summary field ever took,
in order), `drawn` for the stamps. A command is `Select` (the metrics are read), `Plan`
(the audit rows are read), then per row `WriteSummary`, `WriteFails` or `FakeWrite`, then
`Stamp` (time and id of the row are drawn) and `Record` (the insert, which may have waited
for the lock). `Die` is possible everywhere. The real writer answers "failed" for any
exception, also for one that comes after W&B has taken the value (`writeback.py:53-66`),
so `WriteSummary` may be answered "failed".

### Sessions

State: `sessions`, `notes`, `archived`, `markers` (one file per directory), and per
command what it has resolved and read. `Resolve` takes the id of the environment or the
marker, `Open` is `Repository.__init__` (the id is kept if its session is open), then each
command reads (`ReadTarget`, `ReadEnd`, `ReadNote`), writes (`StartSession`,
`SwitchSession`, `EndSession`, `AddNote`) and touches its marker (`TruncateMarker`,
`WriteMarker`, `ReadMarker`, `UnlinkMarker`). `write_text` truncates before it fills, so a
reader may see an empty marker, which it takes for none. `AddNote` stands for every
command that stamps a row.

### Refresh

State: `external` (what a helper would print now), `files` by stem, `ledger` (the version
of each source that was applied last), `reconciles`, `events`, and the history variable
`attempts`. An attempt is `OpenPaths` (second and file names), `Fetch` and `Capture` (the
helper prints; its output is written), `Adapt` (the snapshot is read back and the manifest
written), `Apply` or `DryRun` (the transaction of `reconcile_manifest`) and `Finalize`
(the transaction of the event). `HelperFails`, `AdapterFails`, `ReconcileFails` lead to an
event; `AdapterEscapes` and `Die` do not. Files are named by source and second, so two
attempts in one second share them.

### Runs and reconcile

State of `RunLifecycle`: `db`, one record of the tables `experiments`, `runs`,
`experiment_runs` (`links`), `job_runs` (`edges`) and the keys of `sync_events`;
`follows`, what a behaviour is about, which stays what `Init` picks because creating
experiments, adding runs and hanging runs on jobs meet in the rows they need only; and the
commands. `create_experiment` is `CreateRead` and `Create`; `add_run` is three steps,
`AddLook` (the lookup by external id), `AddCheck` (by experiment and key) and `AddUpdate`
or `AddInsert`; `link_run` is `LinkRead` and `Link`, `_upsert_job_run` is `HangRead` and
`HangUpdate` or `HangInsert`. A write that an index of `018_initial.sql` refuses is no
step (`Indexed` guards the commit); `Abort` is how such a command ends. The ledger as one
record lets `Reconcile` compute on it. A command becomes `stale`, for the properties, when
a commit changes what its lookups so far have found (`Seen`): the experiment with its key,
the runs with its identifier and with its key, the edge; not when anything else changes.

`Reconcile` adds no state. `PlannedRows` is the manifest after `_dedupe_external_rows`
(`Merged`, row by row); `PlanRow` is one of `RunOperation`, `EdgeOperation`,
`AttrsOperation`, `SyncOperation`, each against the ledger **as it is** and not as the
rows before would leave it (`reconcile.py:239-266`); `InOrder` puts the operations in the
order `Before`, by action, entity and place in the manifest; `Applied` applies one after
the other and gives `Null` as soon as the `Effect` of one of them meets an index or a
foreign key. `Outcomes(m)` is thus what a `reconcile_manifest` may end in: `{}` if the
plan itself refuses, `{Null}` if the application is rolled back, ledgers otherwise (one
for each choice of new ids). The sections about jobs are in `JobRetry`, those about
evidence in `Evidence`.

### Freshness and review

State of `Freshness`: the clock `now` in seconds, `files` (what `stat` tells of the file
of each artifact), `artifacts` with what was captured of the file, `validations`, and the
commands (`tasks`). `AddLook` and `RefreshLook` read the row and look at the file,
`TakeTime` draws the second of the write, `WriteArtifact` writes; a validation is
`ValidateLook`, `TakeTime`, `Validate`. `ManifestArtifact` is an artifact row of a
manifest, which captures nothing. `DriftedArtifacts` and `StaleValidations` are the two
functions of `freshness.py`, `ValidationIssues` is doctor's check. Both functions are
asked of one experiment, which artifacts belong to directly, through a job, or through a
run that is linked to it (`Reaches`, with `linked` the table `experiment_runs`): a job is
reached by its own `experiment_id` (`OwnJobs`) or by its run (`RunOf`), whether or not the
run is archived. Where a row belongs stays as it was first written; links are added under
way (`LinkRun`).

`Review` adds jobs, notes, review notes, debug notes, the last handoff, and agents whose
commands read in one transaction and write in others: `Count`/`MarkReviewed`,
`Report`/`HandOff`/`ArchiveAfter` (checkpoint, with `--archive`), and
`Plan`/`Resolve`/`RecordCleanup`. `PendingReview` and `LifecycleState` are the view
`v_dashboard_experiments_v1` and the groups of `dashboard.py`, `DashboardStatus` and
`FreshnessStatus` the two computations of the handoff status, which count runs alike
(`LivingRuns`), but not the same jobs and artifacts: the view has all jobs that a run
leads to (`LivingJobs`) and no artifacts on jobs or runs, `freshness.py` the jobs of the
experiment itself and all artifacts that `Reaches` finds; `AttentionCards`,
`WorkloopActions` and `CheckpointIssues` are what the dashboard, the workloop and doctor
make of them. A behaviour follows the topics that `Behaviours` gives it.

### Ledger file

State: `disk`, by path the file with its schema version and rows and what an export or
import keeps beside it (`temp`, `meta`, `tempMeta`); `config`, the `.fieldbook` files; the
commands; `torn`, a history variable that says why metadata may describe another snapshot.
`Resolved` and `InitPath` are `resolve_ledger_location` and `resolve_init_location`; a
command fixes its path in `Locate` and opens the file later: `Create` and `Migrate` are
`init_ledger`, `Use` is any other command, which `sqlite3.connect` lets create the file if
it has gone, and `Consult` is a command that `_is_read_only` lets open a newer ledger. An
export is `ExportStart`, `Backup`, `Describe` (counts from the ledger, not from the copy),
`PlaceSnapshot`, `PlaceMetadata`; an import is `ImportStart`, `Copy`, `PlaceImport`.
`Fail` unlinks the temporary files, whosoever they are; `Die` leaves them.

### Evidence

State: `archived` (experiments and runs), `links` (`experiment_runs`), `rows` (one of the
four tables, named by `kind`, which stays what `Init` picks: the tables meet in `archived`
and `links` only), and the commands. `Owners` is `_owner_experiment_ids_for_entity`: the
experiment itself, or every experiment a run is linked to. A command is `Check` (the gate,
`_validate_post_archive_write` and its variants), `Find` (the active row with its key) and
one of `Insert`, `Replace` (an erratum archives the row it found and inserts its own) and
`Update` (by id, with no second look at `deleted_at`). `LinkRead`/`Link` is `link_run`,
`RefreshRead`/`Refresh` is `refresh_local_artifact`, which has no gate and writes back the
attributes it read. `Archive`, `ArchiveRow` and `ResolveNote` are single updates, and
`Handoff` is the note that `switch_session` leaves on the experiment of the session it
ends, without a gate (`repository.py:1679-1694`). `ReconcileRow(m)` is a manifest of one
row, planned and applied in one step: it finds rows by id even when they are archived, and
gates both what it targets and what it updates. `ReconcileAttrs` is a row of the section
`custom_attributes`, which names any artifact or metric by its id and has no gate
(`reconcile.py:748-766`, `:1402-1412`); `attrs` of a row is what such rows have said,
beside the reserved marks of an erratum, which they cannot touch. A job is not a target of
its own: what it owns is owned by its experiment and its run, and an artifact with both
has the same owners. Unique indexes are tested on the table that is written (`Indexed`).
`Commit` keeps in `stale` whether anything changed since a command began; only properties
read it.

## Runs

| Run | Question | Instance |
|---|---|---|
| `leases` (`MCLeases.cfg`) | Do overlapping claims, heartbeats and releases keep one lease per entity and a true history, and implement the register? | 2 commands, 2 agents, 1 entity, 3 leases, clock to 1 |
| `job_retry` (`MCJobRetry.cfg`) | How can the retry graph become cyclic or dangling, and do doctor and the recovery view see it? | 1 command beside manifests of ≤ 2 rows and archiving, 3 jobs, links followed to depth 2 |
| `job_recovery` (`MCJobRecovery.cfg`) | Can the readiness of an experiment hide a failure, and does the view stop where it should? | 1 command at a time, no manifests, 3 jobs, 2 experiments, 3 statuses, links followed to depth 1 |
| `writeback` (`MCWriteback.cfg`) | Is a first write always acknowledged, nothing resent unasked, and does the audit bracket what W&B took? | 2 commands, 2 metrics, 2 targets, both writers |
| `sessions` (`MCSessions.cfg`) | Do closures, handoff notes, stamps and markers agree? | 4 commands, 2 directories, overlap across directories |
| `evidence` (`MCEvidence.cfg`) | What may still change when an experiment is archived, what does an erratum replace, and what becomes of attributes? | 1 command beside manifests and archiving, 2 experiments, a run of the second, 2 rows, 2 values of attributes |
| `refresh` (`MCRefresh.cfg`) | Do events, reconciles, files and ledger agree? | 2 commands of ≤ 2 attempts, 1 source that changes once, clock to 1 |
| `refresh_liveness` (`MCRefreshLiveness.cfg`) | Does every source get its turn after the failure of another? | the same, source and clock at rest |
| `reconcile` (`MCReconcile.cfg`) | Do runs keep their links and identities, is a manifest that is applied twice a noop, and does a dry run say what is done? | 1 command (2 that create experiments) beside manifests of ≤ 2 rows, 2 experiments, 2 runs, 1 job |
| `review` (`MCReview.cfg`) | Is changed evidence reported, new activity pending, and advice the same everywhere; does a cleanup keep to its plan? | 1 writer, 1 agent, ≤ 2 jobs in a behaviour, 1 run, 4 artifacts of different homes, 2 debug notes, clock to 2 |
| `ledger_file` (`MCLedgerFile.cfg`) | Do metadata describe the snapshot beside them, and does init take nobody's place? | 2 commands, 3 nested directories, 1 snapshot, ledgers older than, at and newer than the current version |

One more run, `retry_manifests_cycle`, looks for the violation of a documented claim; see
[Findings](#findings).

What the passing runs show, property by property:

- `OneUnreleasedLease`, `LineageSound`, `TakeoverJustified`, `FailedClaimLeavesNoTrace`:
  although every claim decides on a row it read earlier, the index and the rollback leave
  one unreleased lease per entity, a `previous_lease_id` that names a finished lease of
  another owner, takeovers only of expired leases or by force, and no trace of a claim
  that lost. `OwnershipSpec` says it all at once, as a refinement.
- `CyclesNeedNamedCause`, `DanglingNeedsNamedCause`: the guarantee that the retry graph is
  acyclic is not absolute in this code, so the properties say exactly when it fails: a
  check that was overtaken, a manifest that leaves out a stored link, a manifest that
  names one job twice with different links; for dangling links, the archiving of the
  target, an overtaken check, a manifest that names the target or one that names the job
  twice. A manifest is named here if it could have made the step, and several may have:
  what an omitted link does, two rows for one job can do as well, and what two rows for
  one job do to an archived target, a row that names the target can. Without any one of
  the other disjuncts TLC finds a run.
- `DoctorReportsEveryCycle`: from whatever row it starts, doctor's walk ends, and the
  union of its reports is the set of jobs whose chain leads back to them.
- `RecoverySeesChains`: on every graph, cyclic ones too, the retries that the recovery
  view finds for a job are the jobs whose links lead to it within the depth limit. (That a
  chain of more than 32 retries is cut is thus part of the property, not excluded.)
- `ReadyMeansRecovered`: each failed job of an experiment that is ready has a retry that
  succeeded, or one that is still running under **another** experiment. The second half is
  not what the design says; see [Divergences](#divergences).
- `FirstWriteAcknowledged`, `RewriteNeedsOverlap`: the gate for a first write is read in
  the plan, and holds at the write even so, because audit rows are never deleted; a synced
  metric is sent again only by a command whose plan is older than the row it should have
  seen.
- `AuditBrackets`: rows that say "synced" ≤ values W&B took ≤ rows + commands that have
  sent and not recorded, as long as no command used the fake writer. A crash costs at most
  the one row in between.
- `HandoffsMatchClosures`, `ReclosingNeedsOverlap`, `StampNeedsOverlap`,
  `MarkerFollowsSessions`: a switch closes and hands off together; an end is overwritten,
  and a closed session stamped, only by a command that had seen it open; a marker names a
  closed session only if that was closed from elsewhere or its command died. The last one
  holds for commands of one directory that do not overlap (`MaxOverlap = 1` per
  directory); with overlap it fails, which the design accepts
  (`agent-sessions-locality/design.md:156`).
- `ClosedToEvidence`: what an archived experiment owns, directly or through a run, is
  added to by errata and otherwise left alone, but for the exceptions the property lists,
  each of which TLC needs (see [Divergences](#divergences)): notes that are resolved,
  handoffs that a session leaves, metrics of manifests and imports, custom attributes
  (which change nothing else of the row), refreshes, updates through another target, and
  commands whose reads are out of date. `RetractedRowsRest`: no command changes an
  archived row unless its lookup is out of date. `SupersededIsArchived`, `ErrataStayHome`:
  an erratum takes the place of the row it names, and of no other experiment's artifact.
  `RefreshKeepsAttrs`: a refresh writes back all attributes it has read, and so takes back
  what a manifest said of the artifact only if something was written while the file was
  being hashed.
- `AuditMatchesReconciles`, `EvidenceKept`, `RegressNeedsOverlap`, `EverySourceRecorded`:
  events and reconcile events name one another unless the command died or was left by an
  exception in between; the manifest file of an event is what was applied unless another
  attempt shared its second; the ledger goes back in time only by overlapping attempts or
  shared files; every source of a command is recorded even if another one fails.
- `HomeIsLinked`, `CollisionNeedsOverlap`, `ArchivedRunsRest`: lists and gates read the
  links of a run, idempotency keys its column, and the two stay together whatever the
  order of commands and manifests; a command is refused by an index only if what it looked
  for has changed since, or if it gives a run the half of its identity that `add_run` does
  not look for, and then also alone; a run that is archived stays archived, and its row is
  changed by an update whose lookup is out of date, by the link that gives it a home, by a
  second archiving (which brings back its status), by a manifest that names its id, and by
  nothing else.
- `SecondApplicationIsNoop`: a manifest whose rows were applied plans nothing but noops
  when it is reconciled again, unless a row of it cannot be found again (`Recognised`) or
  two rows undo each other (`Contradict`). It is checked of every manifest in every quiet
  state that commands and manifests lead to, not only right after its own application.
  `DryRunPredicts`: a plan is carried out whole unless a row takes what another active run
  is known by (`Taken`), a new edge hangs on a run that neither the ledger nor the
  manifest has (`Dangling`), or two rows are for one new thing or move one run to two
  experiments (`Twice`): the conflicts that a planner who sees one row at a time leaves to
  the indexes. A row whose run exists already, or an edge that does, is no such conflict,
  however often it is given.
- `ChangedSourceIsReported`: once the file that a validation examined is another one,
  doctor and freshness report the validation, be the artifact refreshed by then or not;
  the exceptions are archived artifacts, captures that a manifest or an update dropped,
  and times that are equal or out of order.
- `ActivityStaysPending`: an experiment that is shown as open has nothing in it that its
  last review did not count, unless it is dated no later than the review's note.
  `HandoffAdviceAgrees`: the dashboard, the workloop and doctor advise a handoff together,
  but for three cases that the property names, two in which the dashboard is silent and
  one in which the other two are. `CleanupStaysInPlan`: a debug note that is resolved by a
  cleanup was open and its job had recovered, unless something happened since the plan.
- `MetadataDescribeSnapshot`: metadata beside a snapshot describe it, unless the export is
  halfway (or died there), an export without metadata came after, the ledger changed
  between backup and counts, or two exports to one output overlapped.
  `InitShadowsNothing`: an init that is told of no path changes nobody's ledger, unless
  files changed between its decision and its act.

### Bounds

Every bound is a CONSTANT or a set given in a configuration. `Procs` are slots that are
used again in all modules but `Writeback`, `Sessions` and `Refresh` (so sequences of any
length are explored up to the number of rows), and commands that run once in those. Two
commands at a time, or one beside steps that are whole commands, are enough for the
hazards listed, each of which is one command overtaking another between its read and its
write; three leases let a takeover be taken over; three jobs are the smallest set with a
cycle that no single link closes and a bystander; two attempts per command let the second
one follow a failure of the first. In `Evidence` the one command is overtaken by
everything that happens in one step; two experiments let an erratum come from the wrong
one; one of them has evidence of its own, the other one has a run (`Linkable`) whose
evidence it owns, and both are archived (`Archivable`), so that what is closed directly
and what is closed through a run meet; commands and manifests give an experiment or a run
(`Aims`), and artifacts get both by updates; contents change by refreshing and resolving
only (`Given`). One value of attributes that is not `Plain` is enough to tell what a
manifest said from what it did not. In `Reconcile` one command overtakes, and is overtaken
by, manifests, which are one step each (`Working`); all manifests of one row and those
pairs whose rows can meet are planned in every state (`SomeManifests`), and single rows
are applied (`SomeSteps`): what is asked of a pair is asked in every ledger that commands
and single rows lead to, while the ledgers that only a pair leads to are not explored. In
`Review` each behaviour has the rows that its topic is about (`cast`) and seconds up to
`until`: a second for the first write, one for a later one, and one for what falls
between; one review note with ids before and after that of a note is enough for ties. In
`LedgerFile` the ledger, the directories below it with and without a `.git`, and one path
elsewhere are the smallest nesting in which walk, git root and configuration give three
answers; `Told` are the paths that flags and environment name. `MaxOverlap`,
`MaxArchived`, `MaxRows`, `MaxReviews`, `MaxTime`, `MaxTodo`, `MaxVersion` and `MaxClock`
stop what is unbounded in reality. Manifests of two rows suffice for "row without link +
row that closes the cycle" and for a job that is named twice. They stand beside one
command, which they overtake as a second command would: what a `link-retry` does that
reads and writes between another's read and write, a manifest row with that link does in
one step. `MaxDepth` is a bound of the program: on three jobs, 2 is as far as a chain
goes, so that only the test of the path ends the search on a cycle; 1 is less, so that the
limit cuts (`job_recovery`). The largest spaces are those of `review` (1.2 million
distinct states), `job_recovery` (928 thousand), `refresh` (824 thousand) and `evidence`
(528 thousand). `CHECK_DEADLOCK FALSE` stands in a configuration where a ledger whose ids,
commands or clock are used up may stop. Symmetry is over sets whose elements the modules
only compare for equality, and is used for safety only: `MCRefreshLiveness.cfg` has none.

### Fairness

Only `Refresh` assumes any: weak fairness of each command's own `Step(p)`. A command is
one sequential process, its helper is bounded by a timeout (`refresh.py:301`), its
database waits by `busy_timeout`, and its files are local; so a step that stays enabled is
taken. Nothing forces a command to begin, the world to change or a command to die, and
where the outcome of a step is open (helper succeeds or fails) either may come. `Step`
includes `AdapterEscapes`, so the property excepts commands that an exception has left.
The lock in the database needs no fairness: who waits too long dies.

## Proofs

TLC checks the instances above; the following holds for every value of the constants that
satisfies the named assumptions of the modules (`NullAssumption`, `LifetimeAssumption`,
`BoundAssumption`, `JobIdsAssumption`, `GivenAssumption`, `ContentsAssumption`,
`WritersAssumption`, `PathAssumption`, `VersionAssumption`, `ManifestsAssumption`,
`NullFieldAssumption`, `EntitiesAssumption`, `DepthAssumption`, and those of `Freshness`
and `Review`). Most say that `Null` (or `None`) is no value of another kind; experiments
are no runs (`EntitiesAssumption`); the recovery view follows one link at least
(`DepthAssumption`); `Writeback` counts commands, and has finitely many of them
(`BoundAssumption`); in `LedgerFile` directories have ledgers of their own and snapshots
are no ledgers (`PathAssumption`). `Freshness` and `Review` count rows, so their tables
are finite (`FiniteAssumption`); ids of different tables differ (`DistinctAssumption`) and
are ordered by the prefix that `ids.py` gives them, with review notes anywhere among the
notes (`RankAssumption`); files are told apart by modification time and size
(`StampsAssumption`), and seconds are natural numbers (`TimeAssumption`,
`StaleAssumption`). All obligations are discharged by Z3, Zenon and, for the temporal
steps, LS4.

**`LeasesProofs`.** The inductive invariant is `TypeOK /\ OneUnreleasedLease /\
LineageSound /\ OpInv`. The first three are not inductive alone: a pending takeover was
decided on a row that may have changed. `OpInv` says what remains true of what a command
has read: the lease it saw exists, has the entity the claim is for and another owner, and,
if the claim is not forced, its expiry had passed. Entities, owners and expiries are never
rewritten, rows are never deleted and the clock never goes back, so no step of another
command disturbs it. From it follow `TypeCorrect`, `MutualExclusion`, `Lineage`,
`Justification` (the action property `TakeoverJustified`) and `Refinement` (`Spec =>
OwnershipSpec`): each step is mapped to one step of `LeaseOwnership` or to a stutter, a
takeover to one `HandOver`. `NoTrace` (`FailedClaimLeavesNoTrace`) needs of the invariant
that a command with an insert to make is the one that releases what it takes over, in the
same transaction.

**`JobRetryProofs`.** The inductive invariant is `TypeOK /\ OpsExist /\ LinksResolve`:
pending writes name rows that exist, and every link leads to a row. `CycleCauses` then
takes the graph as acyclic before a step and shows each kind of step in turn to keep it
so, unless the named cause is present. Of a manifest, that a row which is planned is the
one that decides (`DecidingRowOf`, `PlannedRow`) and that a field is what the last row
that gives it says (`LastGivenIs`) is all that is needed to compare what is validated with
what is written: where no row omits a link and no two disagree, they are the same. It
rests on lemmas about graphs that need no induction, because `Acyclic` is "no non-empty
set is closed under its links" and `RetryChainContains` is "every closed set with the
start holds the needle": adding a node nobody links to keeps a graph acyclic, dropping
nodes or links does, and adding the link j -> t does if j is not in the chain from t.
`DanglingCauses` goes through the same steps and asks which of them makes an active job
retry an archived one.

What is derived from the graph (`JobRecovery`) holds in every state with a typed table,
reachable or not. The walk of doctor is a recursive function, and the induction theorems
of the library cannot be used, so what is true of all its values is proved from the least
position at which it would not be (`LeastNatural`, from the well-foundedness of <): there
is a walk of every length (`WalkExists`), each step but the first follows from the one
before (`WalkFacts`), it never leaves a closed set (`WalkStaysIn`), among more steps than
there are jobs two are the same (`WalkRepeats`), and where a walk comes back to a job it
has been at, it goes on as before, so that a job on a cycle is met again (`WalkWraps`).
`CyclesAreReported` puts these together in both directions.

`RecoveryIsWhole` relates two recursions that run in opposite directions: the view goes
down from a job to its retries, the walk of a retry goes up to the job. Both exist
(`EdgesExist`, `WalkExists`). Down: whatever the view has at depth n comes to the root
over n links (`EdgeReaches`), because a walk that starts one job later is the rest of the
walk (`WalkShifts`). Up: of all depths at which a walk meets the root the least is taken;
the jobs before it are all different and not the root, so the test of the path stops none
of them, and each is in the view at its place (`ChainIsFound`). A limit n appears as the
length of both. `ReadyIsRecovered` is about one experiment: it is ready, so a failed job
of it is not blocking, hence has a retry in the view that succeeded or is active; in the
second case it is under another experiment, for this one counts no active jobs; and what
the view has found leads back to the job (`EdgeReaches` again).

**`RefreshProofs`.** The inductive invariant has three layers, each proved with the ones
before it. `TypeInv` adds to the types that a command in flight has a source, that what an
adapter reads has been written, and that a command which finalizes has an outcome.
`AuditInv` is what the audit rests on, since the reconcile and its event are two
transactions: the attempts that are recorded are behind their command, and every reconcile
is named by its event, held by the command that is finalizing it, or lost with the command
that died in between; `AuditAgrees` follows. `HistoryInv` says what files and ledger have
to do with the attempts: whoever works on files is a known attempt, the evidence of an
event is the manifest its reconcile applied unless attempts share their files, and a
command that is still to reconcile holds data at least as new as the ledger unless it was
overtaken or shares its files. From it follow `EvidenceStays` and the action property
`RegressCauses`. What a step of one command leaves of another's attempt is stated once
(`Frame`), so that each action has only its own command to account for.

**`EvidenceProofs`.** The inductive invariant is `TypeOK /\ OpInv /\
SupersededIsArchived`. A command writes on the strength of an earlier read, so the last
part is not inductive alone: a refresh writes back the mark of an erratum that it has
read, whatever happened since. `OpInv` says what such reads leave true: the row that was
met still exists, and the row that a mark names is still archived, because no write
deletes a row or shows an archived one again. That is `Sound`, shown once for each shape
of write (`InsertedSound`, `ReplacedSound`, `UpdatedSound`, `UpdatedBySound`, and
`Amended` for any single row), and `WriteStep` commits a sound table. `TypeCorrect` and
`Superseded` follow. The action properties ask what a command knows at the moment it
writes. `LookInv`, an invariant on top of the first, says: unless the command is stale,
its request is still permitted and the row it met is one it may use (`Current`), since a
commit that changes anything makes all others stale (`CommitLook`). `Retracted`,
`ErrataHome` and `EvidenceIsClosed` then take each write on its own and name the exception
it is. Each action of `Next` that writes a row has its case in `EvidenceIsClosed`, so the
list of exceptions is complete. `AttrsKept` (`RefreshKeepsAttrs`) reads off `LookInv` that
a refresh which is not stale holds the attributes that the row has.

The second half is about `ReviewSpec`, evidence and reviews together. `EvidenceInv` says
of a validation: unless its source was overtaken, the artifact is older than it and still
says what was captured when the validation was written, or is newer (`Knows`). A step
moves a command only (`OpsMoved`, `Beginning`), writes one artifact (`Writing`: what it
dates no later than a validation it marks as overtaken) or one validation
(`ValidateStep`). `Reported` follows in the state: a file that is no longer what was
captured has drifted, and an artifact that is newer makes its validations stale.

`ReviewInv` adds what reviews and agents know. What a review, or a command about to write
one, has counted is still there, and the count is no more than those and the jobs that
have recovered since, as long as nothing has gone (`Faithful`); and what a cleanup planned
is still to be settled unless something has happened (`Settled`). Every step of a writer
either leaves the tables alone (`SilentStep`) or overtakes the agents (`Overtaking`,
`OvertakenCommands`). `Pending` needs in addition that the last review exists, which is a
greatest element by second and id (`LastIsThere`), and an argument by counting: where
nothing is later than the last review and no more is counted than it says, what it does
not know makes up for something that has gone. `Advised` compares the two computations of
the handoff status on the same tables: where one is "idle" and the other "missing", it
asks which row the one counts and the other does not, and `CleanedUp` reads off what
`ReviewInv` says of a plan.

**`WritebackProofs`.** The inductive invariant is `TypeOK /\ OpInv /\ EventsExist /\
Brackets`. `AuditBrackets` compares values with rows only; between the two there are
commands that have sent a value and not recorded it, which may have been told of a success
or of a failure. `Brackets` counts them: the rows that say "synced" and the commands that
were told so are together at most the values W&B took, and those at most all rows and all
commands that have not recorded. Every step moves one command or one row from one count to
another, which is what `FiniteSetTheorems` is cited for. `OpInv` says what a plan knows
and later steps leave true, because audit rows are never deleted and stamps are drawn from
a counter: the target has a row or the first write is acknowledged, and by the rows that
the plan saw no metric it sends was synced last. From it follow `AuditTrue` and the action
properties, `FirstWrites` and `Rewrites`.

**`SessionsProofs`.** The inductive invariant is `TypeOK /\ OpInv /\
HandoffsMatchClosures`. `OpInv` has two parts: a command before its write has opened no
session, written no note and ended nobody's session (`Early`, `Unwritten`), so that ids
name the commands that made them; and the sessions that it works with exist (`WellRead`).
A second end takes a session over from a switch, which is why the property speaks of the
sessions that a switch ended last. `LookInv` adds what a command kept of its looks (the
session it works under was open when it started); from it follow `StampCauses` and
`ReclosingCauses`. `MarkersFollow` is about directories whose commands run one after
another, `MaxOverlap = 1`, as its run is; `MarkerInv` says that then a place has one
command under way (a fact about a cardinality, hence `FiniteSetTheorems`), that a session
closed under a command was closed from elsewhere, and that a command which has closed one
still knows which.

**`RunLifecycleProofs`.** The theorems are about `ReconcileSpec`, commands and manifests
together; commands alone are a case of it (`Alone`). The inductive invariant is `TypeOK /\
HomeIsLinked /\ Indexed(db) /\ OpInv`. For every command, `Sound` says that what it found
is there, for no row ever goes away, and `Fresh` that what it found is so as long as
nothing it looked for has changed (`SeenFresh`: what `Fresh` says depends on no more than
`Seen`). From `Fresh` and from `Indexed` follow `Collisions`: a write of a command that is
not stale meets no index unless it completes an identity. `Rest` (`ArchivedRunsRest`)
takes the commands one by one (`ArchivedRest`: a run that an update found was active,
hence the command is stale; `ArchivedAgain` for a second archiving) and then the manifests
(`ManifestRest`): what a row finds by key or external identifier is active when it is
planned, so an operation on an archived run comes from a row that names its id
(`FitNames`), and no operation opens a run again.

A manifest is one step, whose plan may be of any length, so the invariant of that step is
about the course of a plan: the sequence of ledgers that its operations make (`Trace`).
Nothing is ever missing in a later ledger that an earlier one has (`Grows`), hence an
operation still finds what it was planned for (`Needs`, `NeedsOn`), and each ledger on the
way has its indexes and links (`CourseSane`, `OutcomeSane`). The definitions of `Deduped`
and `Applied` are recursive functions; as above, what holds of all their values is proved
from the least position where it would not (`Stages`), and that the operations can be put
in order at all by counting, for each, those before it (`OrderExists`).

`Announced` (`DryRunPredicts`) takes the operation that fails and asks why (`FailsAt`). A
new run that is already there was inserted for another row (`RunFails`), a new edge was
brought by another row or its run is nobody's (`EdgeFits`, `RunsFirst`, `EdgeFails`). The
indexes need an invariant of the course: what run r is known by at any time is what it was
known by at the start, or what one of the rows makes of it (`KnownBy`, `CourseKnown`); two
such sources of different runs are apart unless a row is `Taken` or two are `Twice`
(`SourcesApart`), so no index is met (`KnownIndexed`).

`Again` (`SecondApplicationIsNoop`) takes each row at the moment its operation was done
(`Turn`) and shows that nothing after it undoes what the row asks, nor anything before it
changed what its plan was made from: rows of attributes only add to a run (`RunAlike`,
`AttrsStay`), no other row names the same run or edge (`RowAlone`), and the run is still
the one that is found, by id, key or external identifier, because the indexes hold of the
last ledger (`FoundAgain`). Both are proved for manifests of any length; TLC's runs have
two rows at most.

**`LedgerFileProofs`.** The inductive invariant is `TypeOK /\ ExportersKnow /\
CopiesFollow /\ MetadataDescribeSnapshot`. An export that no other one to its output has
run beside, and whose ledger has not moved, has a copy that is the ledger, then metadata
that describe the copy, then metadata that describe the snapshot (`CopiesFollow`); that no
other command touches its files needs that exports to one output know of each other
(`ExportersKnow`). One lemma, `StepKeeps`, shows both kept by any step that touches one
path, and each action is an instance of it. `NothingShadowed` compares what every
directory resolves to before and after the step in which init creates its ledger. The
ledger that a directory uses is the nearest one above it, the greatest element of a set of
depths (`Nearest`); a new one would be nearer for some directory only if it were between
it and its ledger, and then init would have found that one (`LookInv`: what a command
located is where init would put it, unless something has changed since).

Every safety property and every action property of the passing runs is thus the statement
of a theorem. Type invariants are proved of every component (`TypeCorrect`), and checked
by `leases` and `reconcile` as well. Only model-checked are the liveness property
(`EverySourceRecorded`), for liveness under fairness and `ENABLED` are out of the prover's
reach, and what a variant with a mistake breaks. What a recursive definition computes for
every input is in general out of reach as well, for it needs induction; where a least
counterexample was enough (`Walk`, `Deduped`, `Applied`), it is proved.

## Findings

A claim of the repository's documents that the model, and the code it is read from, does
not meet; the run named finds the counterexample.

| Run | Claim | What the code does |
|---|---|---|
| `retry_manifests_cycle` | a cyclic link is rejected (`job-recovery-validations/spec.md:49-51`) | with A -> B stored, the manifest [A without `retry_of`; B retry of A] passes validation and commits A -> B -> A (`reconcile.py:879`, `:1170`); so does, with B -> A stored, [A retry of B; A without `retry_of`], two rows for one job (`:283`, `:873`) |

## Divergences

Seen while modelling, without a run of their own. Most are part of the models: an action
that has the behaviour, or an exception that a property names and that TLC needs.

Leases, jobs and reconcile:

- An owner who claims an entity whose lease has expired is to get a new lease
  (`advisory-leases-and-monitors/spec.md:22-25`); the owner is tested first
  (`repository.py:434`), so the expired lease is heartbeaten and stays expired.
- While a failed job is being retried it does not block, and its retry is to appear in the
  active-job counts of readiness (`job-recovery-validations/design.md:204`). The view
  follows retries across experiments, but an active job is counted by its own
  `experiment_id` only (`repository.py:256`): with a retry under another experiment
  neither counts, and the experiment is ready. The second half of `ReadyMeansRecovered`.
- A release, or the re-claim of one's own lease, that was decided before a takeover lands
  after it: the release overwrites the takeover's reason and actor, the re-claim returns a
  lease that is released (`repository.py:501`, `:436`). `Ended` and `Reclaim` have both.
- Two overlapping `job link-retry` (or upserts) each pass the chain check and together
  close a cycle (`repository.py:836`): the first disjunct of `CyclesNeedNamedCause`.
- Rows with one id are not merged as rows with one external id are (`reconcile.py:283`):
  the retry check looks at the last of them (`:873`), all are written. Beside the cycle of
  the finding, [A retry of X; A without `retry_of`] leaves A retrying an X that is
  archived: `Conflicting` in both properties.
- The recovery view gives up after 32 links (`018_initial.sql:705`): a failed job whose
  33rd retry succeeded is reported as blocking. `RecoverySeesChains` has the limit.
- A manifest that lists a retry before its target is rejected, because the foreign key is
  tested row by row (`reconcile.py:1141`); the design resolves links within the manifest
  (`job-recovery-validations/design.md:192`). `InsertsInOrder` has it.
- Of two `experiment create` with one idempotency key at the same time, the second gets
  the error of the index and not the existing row
  (`agent-sessions-locality/proposal.md:19`, `spec.md:66-69`): the overlap of
  `CollisionNeedsOverlap`.
- A job/run edge that was archived keeps its role for ever: the error says "archive and
  create a new edge instead", but the new edge meets the archived one
  (`repository.py:2254`).
- A run row without an experiment is recorded as an update of a run that has one, every
  time, though nothing changes (`reconcile.py:403` against
  `reconcile-core-hardening/spec.md:34-36`); archiving an archived run by its external id
  or key fails instead of being a noop (`:812` against `spec.md:14-16`). Both are excluded
  by `Recognised`.
- A run row that gives attributes beside a custom-attributes row for the same run, or the
  upsert and the archive of one edge in one manifest, undo each other on every
  application: `Contradict`.

Writeback, refresh and sessions:

- Two overlapping writebacks send the same metric twice (`writeback.py:123` against
  `wandb-writeback/design.md:84-89`): the overlap of `RewriteNeedsOverlap`.
- Two source runs written back to one target overwrite each other with default options
  (`writeback.py:300` against `wandb-writeback/spec.md:115`), for the key and the
  collision test know one source run only.
- Rows left by a fake writer say "synced", and a real writeback then skips those metrics
  (`writeback.py:45`).
- Every refresh attempt is to be recorded (`refresh-orchestration/spec.md:103`); only
  `AdapterFailure` is caught (`refresh.py:210`), so a snapshot that is not UTF-8 ends the
  command without an event for this source or the ones after it: `AdapterEscapes`.
- A session that is closed elsewhere after a command has opened is still stamped on what
  the command writes (`repository.py:55`); a second `session end` overwrites the time of
  the first (`:1642`).
- One ledger has different session markers, depending on whether it was found through
  `.fieldbook` or named by a flag (`ledger_resolution.py:234`).

Evidence and review:

- `artifact add --update-existing` looks at the owners of its target only: an artifact of
  an archived experiment is updated in place, and moved, through an open target
  (`repository.py:1064-1116` against `job-recovery-validations/design.md:47-49`), and
  `artifact refresh-local` has no gate at all (`:1137`). Both are exceptions of
  `ClosedToEvidence`.
- A switch of sessions writes its handoff note to the experiment it leaves, also when that
  is archived, and without `--errata` (`repository.py:1682`); a `custom_attributes` row of
  a manifest rewrites the attributes of any artifact or metric, whoever owns it
  (`reconcile.py:755`). Both are exceptions of `ClosedToEvidence`.
- Metric rows of a manifest and the CSV import pass no gate (`reconcile.py:680`,
  `repository.py:1391`), though metrics are to remain closed after archive
  (`job-recovery-validations/proposal.md:26-27`).
- An ordinary update of a row replaces its attributes, the marks of an erratum included
  (`repository.py:968`, `:1114`); a refresh that read them before puts them back
  (`:1142`).
- A manifest that names an id may replace, or update, a row that is archived or has been
  replaced already (`reconcile.py:810`).
- Manifests capture nothing of an artifact's file (`reconcile.py:1250`), so its drift is
  never seen, and an artifact that is archived takes its validations out of the reports
  (`freshness.py:86`): exceptions of `ChangedSourceIsReported`.
- New activity is to reopen a review (`dashboard-agent-lifecycle-buckets/spec.md:67-72`);
  activity in the second of the review's note, between its count and its note, or with a
  `finished_at` in the past does not: the exceptions of `ActivityStaysPending`.
- The dashboard and `experiment_freshness` differ on the handoff of an experiment that has
  review notes only, or artifacts of archived jobs or runs only (the view counts no
  artifacts but its own), and in the second in which a handoff gets stale; and, the other
  way round, on one that has nothing but jobs of an archived run which are not its own
  (`018_initial.sql:1249-1260` against `freshness.py:207-211`). These are the exceptions
  of `HandoffAdviceAgrees`.
- A cleanup must record a checkpoint note (`active-experiment-workloop/design.md:135`);
  its notes are resolved in a transaction before, and the checkpoint is lost if the
  process dies or the experiment is archived in between (`repository.py:387`). Its other
  half, archiving superseded validations, never finds any: the unique index on validations
  leaves one active row to a check.
- The closeout checklist says "ready" while jobs run or an active validation fails: doctor
  is "ok" without errors, and failing validations are warnings (`cli.py:473-517`). Not
  modelled.
- The wide export leaves step 0 out of a column's name, for it tests the truth of the step
  (`repository.py:2535`). Not modelled.
- doctor does not surface a marker that names a closed session (`doctor.py:622-648`
  against `agent-sessions-locality/design.md:125-127`).

Ledger file:

- The counts in the metadata of a snapshot are read from the ledger after the copy, the
  temporary names are fixed, and an export that fails unlinks those of another
  (`snapshot.py:31`, `:45`, `:72`): the reasons of `MetadataDescribeSnapshot`.
- An import accepts a snapshot of an older schema (`snapshot.py:98`), and the migration
  that follows refuses every version before the baseline (`db.py:123`).

## Not modelled

- Argument parsing, output formats, prompts, ids and time formats, git information, the
  read-only SQL guard: pure functions of their input, or of one snapshot of the ledger.
- The adapters. They are external to `Refresh`: what they do to a snapshot is "translate
  or fail", and what they translate it to is a manifest, which `Reconcile` and `Evidence`
  have.
- The checks of doctor that read one row or one file (attributes, secrets, stale jobs,
  leases and sessions, expected runs, locality): each is one query. Modelled are the
  checks that search (`_retry_cycles`) or that must agree with another computation (stale
  validations, handoffs).
- The exports of metrics and the rendering of the dashboard: functions of the ledger. The
  part of the dashboard that decides the lifecycle of an experiment is in `Review`; stale
  leases and submissions, which also make an experiment need attention, are not.
- An import that replaces a ledger which another command has open: that command writes
  into a file that has no name any more. `Use` is one step in `LedgerFile`, so this loss
  is not in the model.
- The parent of a run, tags, names and other data that no command acts on.

Next would come: doctor as a whole, as a predicate on the union of the tables, with the
claim that it is silent about whatever the commands alone lead to; the jobs section inside
`Reconcile`, so that one plan has all sections; and an abstract ledger "as a function of
the last manifest" that `Reconcile` implements.
