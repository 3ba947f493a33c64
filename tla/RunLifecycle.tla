----------------------------- MODULE RunLifecycle -----------------------------
(***************************************************************************)
(* Experiments, runs, the links between them and the edges between jobs    *)
(* and runs, as commands create, find, update and archive them.            *)
(*                                                                         *)
(* A command looks for what is there already outside any transaction, by   *)
(* external identifier and by idempotency key, and writes afterwards: what *)
(* it did not see is left to the unique indexes of the ledger, and what it *)
(* saw it updates by id, whatever has become of it.                        *)
(*                                                                         *)
(* Creating experiments, adding runs to them and hanging runs on jobs meet *)
(* nowhere but in the rows they need, so a behaviour follows one of these. *)
(* parent_run_id is left out: no command acts on it.                       *)
(***************************************************************************)
EXTENDS FiniteSets

CONSTANTS
  Procs,        \* processes, each with one command at a time
  Experiments,  \* ids of experiments
  Runs,         \* ids of runs
  Jobs,         \* jobs, all of them in the ledger from the start
  Keys,         \* idempotency keys of experiments and runs
  Externals,    \* pairs (external system, external id)
  Roles,        \* roles of a run in a job
  Other,        \* the role of the run that a job is added with
  Statuses,     \* statuses of an edge
  Attrs,        \* attributes, each with one value
  SyncKeys,     \* idempotency keys of sync events
  Aims,         \* bound: the experiments that runs are added to
  Archivable,   \* bound: the experiments that are archived
  Working,      \* bound: the commands under way at once, by topic
  Null          \* no row, no experiment, no key

VARIABLES
  follows,      \* what the behaviour is about
  db,           \* the ledger
  ops           \* per command: its request, and what its reads have told it

vars == <<follows, db, ops>>

-----------------------------------------------------------------------------
Topics == {"experiments", "runs", "edges"}

Experiment == [key: Keys \cup {Null}, archived: BOOLEAN]

(* home: the column experiment_id.                                         *)
Run ==
  [home: Experiments \cup {Null}, key: Keys \cup {Null}, external: Externals \cup {Null},
   status: {"active", "archived"}, archived: BOOLEAN, attrs: SUBSET Attrs]

Edge == [role: Roles, status: Statuses, archived: BOOLEAN]

Ledger ==
  [experiments: [Experiments -> Experiment \cup {Null}],
   runs: [Runs -> Run \cup {Null}],
   links: SUBSET (Experiments \X Runs),
   edges: [Jobs \X Runs -> Edge \cup {Null}],
   syncs: SUBSET SyncKeys]

Creation == [does: {"create"}, key: Keys \cup {Null}]

(* upsert: --update-existing                                               *)
Addition ==
  {r \in [does: {"add"}, exp: Aims \cup {Null}, key: Keys \cup {Null},
          external: Externals \cup {Null}, upsert: BOOLEAN] : r.upsert => r.external # Null}

Linking == [does: {"link"}, exp: Experiments, run: Runs]
Hanging == [does: {"edge"}, job: Jobs, run: Runs, role: Roles, status: Statuses]

Request == Creation \cup Addition \cup Linking \cup Hanging

(* found: the run that the lookup found, or that an edge is known to have. *)
(* stale: what the command looked for has changed since it looked (kept    *)
(* for the properties; no step depends on it).                             *)
Op ==
  [phase: {"idle", "looked", "ready"}, request: Request \cup {Null},
   found: Runs \cup {Null}, stale: BOOLEAN]

ASSUME NullAssumption ==
  Null \notin Experiments \cup Runs \cup Keys \cup Externals \cup Experiment \cup Run \cup Edge \cup Request
ASSUME BoundAssumption ==
  /\ Working \in [Topics -> SUBSET Procs]
  /\ Aims \cup Archivable \subseteq Experiments /\ Other \in Roles

Idle == [phase |-> "idle", request |-> Null, found |-> Null, stale |-> FALSE]

InFlight(p) == ops[p].phase # "idle"
Asked(p) == ops[p].request
Found(p) == ops[p].found
Ready(p, does) == ops[p].phase = "ready" /\ Asked(p).does = does

PlainExperiment == [key |-> Null, archived |-> FALSE]

(* A run as it is inserted.                                                *)
NewRun(home, key, external, attrs) ==
  [home |-> home, key |-> key, external |-> external,
   status |-> "active", archived |-> FALSE, attrs |-> attrs]

(* Edges are for runs that are there; who starts a run is another topic.   *)
InitRuns ==
  {[r \in Runs |-> IF r \in S THEN NewRun(Null, Null, Null, {}) ELSE Null] :
     S \in IF follows = "edges" THEN SUBSET Runs ELSE {{}}}

InitExperiment == IF follows = "experiments" THEN Null ELSE PlainExperiment

Init ==
  /\ follows \in Topics
  /\ db \in [experiments: {[e \in Experiments |-> InitExperiment]}, runs: InitRuns, links: {{}},
             edges: {[pair \in Jobs \X Runs |-> Null]}, syncs: {{}}]
  /\ ops = [p \in Procs |-> Idle]

-----------------------------------------------------------------------------
(* Reading and writing a ledger d, for commands and for manifests.         *)

IsActive(row) == row # Null /\ ~row.archived

ActiveExperiment(d, e) == IsActive(d.experiments[e])

(* _existing_external, and the lookup by experiment and idempotency key    *)
WithExternal(d, x) == {r \in Runs : IsActive(d.runs[r]) /\ x # Null /\ d.runs[r].external = x}

WithKey(d, e, k) ==
  {r \in Runs : IsActive(d.runs[r]) /\ Null \notin {e, k}
                /\ d.runs[r].home = e /\ d.runs[r].key = k}

(* idx_experiments_idempotency; idx_runs_external_unique and               *)
(* idx_runs_experiment_idempotency                                         *)
ExperimentsIndexed(d) ==
  \A e, f \in Experiments :
    /\ IsActive(d.experiments[e]) /\ IsActive(d.experiments[f])
    /\ d.experiments[e].key = d.experiments[f].key /\ d.experiments[e].key # Null
    => e = f

RunsIndexed(d) ==
  /\ \A x \in Externals : \A r, s \in WithExternal(d, x) : r = s
  /\ \A e \in Experiments, k \in Keys : \A r, s \in WithKey(d, e, k) : r = s

Indexed(d) == ExperimentsIndexed(d) /\ RunsIndexed(d)

Either(new, old) == IF new = Null THEN old ELSE new

LinksWith_Always(d, e, r) == d.links \cup {<<e, r>>}

LinksWith(d, e, r) == IF e = Null THEN d.links ELSE d.links \cup {<<e, r>>}

WithRun(d, r, row, e) == [d EXCEPT !.runs[r] = row, !.links = LinksWith(d, e, r)]

(* UPDATE runs ... COALESCE(?, column) ... WHERE id = ?                    *)
UpdatedRun(row, e, k, x, attrs) ==
  [row EXCEPT !.home = Either(e, @), !.key = Either(k, @), !.external = Either(x, @),
              !.attrs = attrs]

(* _link_run_ids: the first experiment that a run is linked to is its home *)
Linked_ColumnOnly(d, e, r) == WithRun(d, r, [d.runs[r] EXCEPT !.home = Either(@, e)], Null)

Linked(d, e, r) == WithRun(d, r, [d.runs[r] EXCEPT !.home = Either(@, e)], e)

ArchivedRun(d, r) == [d EXCEPT !.runs[r].archived = TRUE, !.runs[r].status = "archived"]

(* _upsert_job_run: an edge comes back from the archive, with its old role *)
WithEdge(d, pair, role, status) ==
  [d EXCEPT !.edges[pair] = [role |-> role, status |-> status, archived |-> FALSE]]

(* What the ledger is to be after the write of a command, which has asked  *)
(* for a and found r, or inserts it.  It gives a status, active, and       *)
(* attributes, none.                                                       *)
WithCreated(d, a, e) == [d EXCEPT !.experiments[e] = [key |-> a.key, archived |-> FALSE]]

WithAdded(d, a, r) == WithRun(d, r, NewRun(a.exp, a.key, a.external, {}), a.exp)

WithUpdated(d, a, r) ==
  WithRun(d, r, [UpdatedRun(d.runs[r], a.exp, a.key, Null, {}) EXCEPT !.status = "active"], a.exp)

-----------------------------------------------------------------------------
Begin(p, phase, request, r) ==
  /\ ~InFlight(p) /\ p \in Working[follows]
  /\ ops' = [ops EXCEPT ![p] = [phase |-> phase, request |-> request, found |-> r, stale |-> FALSE]]
  /\ UNCHANGED <<follows, db>>

(* What the lookups that a command has made so far find in ledger d: a     *)
(* command that links looks for no rows but those it names.                *)
Seen(d, op) ==
  LET a == op.request
  IN  IF a.does = "create" THEN
        {e \in Experiments : ActiveExperiment(d, e) /\ a.key # Null /\ d.experiments[e].key = a.key}
      ELSE IF a.does = "add" THEN
        <<WithExternal(d, a.external), IF op.phase = "ready" THEN WithKey(d, a.exp, a.key) ELSE {}>>
      ELSE IF a.does = "edge" THEN d.edges[<<a.job, a.run>>]
      ELSE Null

(* A commit of the commands in S, which is empty when the whole of a       *)
(* command is one step: the others may have read what is no longer so.     *)
Commit(d, S) ==
  /\ Indexed(d)
  /\ db' = d
  /\ ops' = [q \in Procs |->
       IF q \in S THEN Idle
       ELSE IF InFlight(q) THEN [ops[q] EXCEPT !.stale = @ \/ Seen(d, ops[q]) # Seen(db, ops[q])]
       ELSE ops[q]]
  /\ UNCHANGED follows

(* create_experiment: an active experiment with the key is returned.       *)
CreateRead(p, k) ==
  /\ follows = "experiments"
  /\ \A e \in Experiments : k # Null /\ ActiveExperiment(db, e) => db.experiments[e].key # k
  /\ Begin(p, "ready", [does |-> "create", key |-> k], Null)

Create(p, e) ==
  /\ Ready(p, "create")
  /\ db.experiments[e] = Null
  /\ Commit(WithCreated(db, Asked(p), e), {p})

(* add_run: first the run with the external identifier is looked up, then  *)
(* the experiment and the run with the key, which is returned.  A run that *)
(* the first lookup found is updated on request only.                      *)
AddLook_Archived(p, r) ==
  /\ follows = "runs"
  /\ \E x \in {s \in Runs : db.runs[s] # Null /\ r.external # Null /\ db.runs[s].external = r.external} :
       Begin(p, "looked", r, x)

AddLook(p, r) ==
  /\ follows = "runs"
  /\ IF WithExternal(db, r.external) = {} THEN Begin(p, "looked", r, Null)
     ELSE \E x \in WithExternal(db, r.external) : Begin(p, "looked", r, x)

AddCheck_NoKey(p) ==
  /\ ops[p].phase = "looked"
  /\ LET r == Asked(p)
         goes == (r.exp # Null => ActiveExperiment(db, r.exp)) /\ (Found(p) # Null => r.upsert)
     IN  ops' = [ops EXCEPT ![p] = IF goes THEN [@ EXCEPT !.phase = "ready"] ELSE Idle]
  /\ UNCHANGED <<follows, db>>

AddCheck(p) ==
  /\ ops[p].phase = "looked"
  /\ LET r == Asked(p)
         open == r.exp # Null => ActiveExperiment(db, r.exp)
         goes == open /\ WithKey(db, r.exp, r.key) = {} /\ (Found(p) # Null => r.upsert)
     IN  ops' = [ops EXCEPT ![p] = IF goes THEN [@ EXCEPT !.phase = "ready"] ELSE Idle]
  /\ UNCHANGED <<follows, db>>

AddInsert(p, r) ==
  /\ Ready(p, "add") /\ Found(p) = Null /\ db.runs[r] = Null
  /\ Commit(WithAdded(db, Asked(p), r), {p})

AddUpdate(p) ==
  /\ Ready(p, "add") /\ Found(p) # Null
  /\ Commit(WithUpdated(db, Asked(p), Found(p)), {p})

(* link_run: the run may be archived, the experiment may not.              *)
LinkRead(p, e, r) ==
  /\ follows = "runs"
  /\ db.runs[r] # Null /\ ActiveExperiment(db, e)
  /\ Begin(p, "ready", [does |-> "link", exp |-> e, run |-> r], r)

Link(p) ==
  Ready(p, "link") /\ Commit(Linked(db, Asked(p).exp, Asked(p).run), {p})

(* link_job_run: job and run may be archived, and so may the edge, whose   *)
(* role it must have.                                                      *)
HangRead(p, h) ==
  /\ follows = "edges"
  /\ LET edge == db.edges[<<h.job, h.run>>]
     IN  /\ db.runs[h.run] # Null
         /\ edge # Null => edge.role = h.role
         /\ Begin(p, "ready", h, IF edge = Null THEN Null ELSE h.run)

HangInsert(p) ==
  /\ Ready(p, "edge") /\ Found(p) = Null
  /\ LET h == Asked(p)  pair == <<h.job, h.run>>
     IN  db.edges[pair] = Null /\ Commit(WithEdge(db, pair, h.role, h.status), {p})

HangUpdate(p) ==
  /\ Ready(p, "edge") /\ Found(p) # Null
  /\ LET h == Asked(p)  pair == <<h.job, h.run>>
     IN  Commit(WithEdge(db, pair, db.edges[pair].role, h.status), {p})

(* An index knows of a row that the command did not see, the database is   *)
(* locked, or the process dies: nothing is written.                        *)
Abort(p) ==
  /\ InFlight(p)
  /\ ops' = [ops EXCEPT ![p] = Idle]
  /\ UNCHANGED <<follows, db>>

(* Commands whose only read is the one that finds their row.               *)
ArchiveExperiment(e) ==
  /\ follows # "edges"
  /\ db.experiments[e] # Null
  /\ Commit([db EXCEPT !.experiments[e].archived = TRUE], {})

ArchiveRun(r) == db.runs[r] # Null /\ Commit(ArchivedRun(db, r), {})

(* add_job --run, for a job that it updates: both in one transaction.      *)
AddJob(j, r, status) ==
  /\ follows = "edges"
  /\ LET edge == db.edges[<<j, r>>]
     IN  /\ db.runs[r] # Null
         /\ edge # Null => edge.role = Other
         /\ Commit(WithEdge(db, <<j, r>>, Other, status), {})

-----------------------------------------------------------------------------
Command(p) ==
  \/ \E k \in Keys \cup {Null} : CreateRead(p, k)
  \/ \E e \in Experiments : Create(p, e)
  \/ \E r \in Addition : AddLook(p, r)
  \/ AddCheck(p) \/ AddUpdate(p)
  \/ \E r \in Runs : AddInsert(p, r)
  \/ \E e \in Experiments, r \in Runs : LinkRead(p, e, r)
  \/ Link(p)
  \/ \E h \in Hanging : HangRead(p, h)
  \/ HangInsert(p) \/ HangUpdate(p) \/ Abort(p)

OneStep ==
  \/ \E e \in Archivable : ArchiveExperiment(e)
  \/ \E r \in Runs : ArchiveRun(r)
  \/ \E j \in Jobs, r \in Runs, status \in Statuses : AddJob(j, r, status)

Next == OneStep \/ \E p \in Procs : Command(p)

Spec == Init /\ [][Next]_vars

-----------------------------------------------------------------------------
TypeOK ==
  /\ follows \in Topics
  /\ db \in Ledger
  /\ ops \in [Procs -> Op]

(* A run is always linked to the experiment that its row names: lists,     *)
(* owners and the archive gate read the links, idempotency keys the column.*)
HomeIsLinked ==
  \A r \in Runs : db.runs[r] # Null /\ db.runs[r].home # Null => <<db.runs[r].home, r>> \in db.links

Ends(p) == InFlight(p) /\ ~InFlight(p)'

(* What command p would write now, unless it is an edge.                   *)
Pending(p) ==
  IF Ready(p, "create") THEN
    {WithCreated(db, Asked(p), e) : e \in {f \in Experiments : db.experiments[f] = Null}}
  ELSE IF Ready(p, "link") THEN {Linked(db, Asked(p).exp, Asked(p).run)}
  ELSE IF Ready(p, "add") /\ Found(p) # Null THEN {WithUpdated(db, Asked(p), Found(p))}
  ELSE IF Ready(p, "add") THEN
    {WithAdded(db, Asked(p), r) : r \in {s \in Runs : db.runs[s] = Null}}
  ELSE {}

(* The write gives a run that has half of its identity the other half: a   *)
(* key to a run that has a home, or a home to a run that has a key.        *)
Completes(p) ==
  /\ Found(p) # Null
  /\ \/ Asked(p).does = "link" /\ db.runs[Found(p)].home = Null /\ db.runs[Found(p)].key # Null
     \/ /\ Asked(p).does = "add"
        /\ (Asked(p).exp = Null) # (Asked(p).key = Null)

(* A command that has looked is refused by an index only if another one    *)
(* has changed, since it looked, what it looked for; or if it completes an *)
(* identity, which it does not look for, so that it may collide alone.     *)
CollisionNeedsOverlap ==
  \A p \in Procs :
    InFlight(p) /\ ~ops[p].stale /\ ~Completes(p) =>
      /\ \A d \in Pending(p) : Indexed(d)
      /\ Ready(p, "edge") /\ Found(p) = Null => db.edges[<<Asked(p).job, Asked(p).run>>] = Null
=============================================================================
