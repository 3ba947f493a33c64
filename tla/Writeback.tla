------------------------------ MODULE Writeback ------------------------------
(***************************************************************************)
(* `fieldbook writeback wandb --apply`: summary fields of W&B runs written *)
(* from the metrics of a ledger, each write followed by an audit row in    *)
(* sync_events.                                                            *)
(*                                                                         *)
(* One command is one process.  It reads the selected metrics, then the    *)
(* audit rows, then writes row by row: the external effect first, the      *)
(* audit row in a transaction of its own after it.  Metrics change, other  *)
(* writebacks run and the process may die between any two of these steps.  *)
(***************************************************************************)
EXTENDS Integers, Sequences, FiniteSets

CONSTANTS
  Procs,        \* the writeback commands that are ever run
  MetricIds,    \* ids that metrics may have
  Runs,         \* the runs whose metrics are written back
  Fields,       \* metric names; the target field is the prefixed name
  Series,       \* step, split and sources: what else identifies a metric
  Targets,      \* W&B runs that --target-run, the run or its parent resolve to
  Values,       \* metric values
  Writers,      \* values of --writer in use
  MaxOverlap,   \* bound: how many writebacks are under way at once
  MaxArchived,  \* bound: how many metrics and runs are ever archived
  Null          \* no row, no value

VARIABLES
  metrics,      \* the metrics table, by id; Null where no row has that id
  archivedRuns, \* runs with deleted_at set
  events,       \* sync_events with origin 'writeback', as inserted
  drawn,        \* how many (created_at, id) stamps have been drawn
  wandb,        \* per target and field, every value that W&B took, in order
  ops           \* per command: how far it is, and what its reads have fixed

vars == <<metrics, archivedRuns, events, drawn, wandb, ops>>

-----------------------------------------------------------------------------
MetricRow ==
  [run: Runs, field: Fields, series: Series, value: Values, archived: BOOLEAN]

SyncEvent ==
  [metric: MetricIds, target: Targets, value: Values,
   status: {"synced", "failed"}, stamp: Nat]

(* rows: the values still to be written, by metric id; metric and status:  *)
(* the row that is being written and what the writer answered; planned:    *)
(* how many audit rows there were when the plan was made.                  *)
Op ==
  [phase: {"new", "selected", "planned", "written", "stamped", "over", "died"},
   target: Targets \cup {Null}, rewrite: BOOLEAN, ack: BOOLEAN, writer: Writers \cup {Null},
   rows: UNION {[S -> Values] : S \in SUBSET MetricIds},
   metric: MetricIds \cup {Null}, status: {"synced", "failed"}, stamp: Nat,
   planned: Nat]

ASSUME NullAssumption == Null \notin MetricIds \cup MetricRow \cup Targets
ASSUME WritersAssumption == Writers \subseteq {"real", "fake"} /\ Null \notin {"real", "fake"}
ASSUME BoundAssumption == IsFiniteSet(Procs) /\ MaxOverlap \in Nat /\ MaxArchived \in Nat

Restricted(f, S) == [x \in S |-> f[x]]
Exists(m) == metrics[m] # Null
Active(m) == Exists(m) /\ ~metrics[m].archived
FieldOf(m) == metrics[m].field

(* A command that has ended; what it knew is gone, but for the writer it   *)
(* had (which the properties look at, and no step).                        *)
New ==
  [phase |-> "new", target |-> Null, rewrite |-> FALSE, ack |-> FALSE,
   writer |-> Null, rows |-> <<>>, metric |-> Null, status |-> "failed",
   stamp |-> 0, planned |-> 0]

Over(p) == [New EXCEPT !.phase = "over", !.writer = ops[p].writer]

InFlight(p) == ops[p].phase \notin {"new", "over", "died"}

Init ==
  /\ metrics = [m \in MetricIds |-> Null]
  /\ archivedRuns = {}
  /\ events = <<>>
  /\ drawn = 0
  /\ wandb = [t \in Targets |-> [f \in Fields |-> <<>>]]
  /\ ops = [p \in Procs |-> New]

-----------------------------------------------------------------------------
(* The metrics.  _upsert_metric looks for the active row of the same       *)
(* series: none is inserted twice, for idx_metrics_idempotency rejects the *)
(* second INSERT; an UPDATE by id takes place even where the row has been  *)
(* archived since it was found.                                            *)

SameSeries(m, r, f, s) ==
  Active(m) /\ metrics[m].run = r /\ metrics[m].field = f /\ metrics[m].series = s

InsertMetric(m, r, f, s, v) ==
  /\ ~Exists(m)
  /\ \A k \in MetricIds : ~SameSeries(k, r, f, s)
  /\ metrics' = [metrics EXCEPT ![m] =
       [run |-> r, field |-> f, series |-> s, value |-> v, archived |-> FALSE]]
  /\ UNCHANGED <<archivedRuns, events, drawn, wandb, ops>>

UpdateMetric(m, v) ==
  /\ Exists(m)
  /\ metrics' = [metrics EXCEPT ![m].value = v]
  /\ UNCHANGED <<archivedRuns, events, drawn, wandb, ops>>

MayArchive ==
  Cardinality({m \in MetricIds : Exists(m) /\ ~Active(m)} \cup archivedRuns) < MaxArchived

ArchiveMetric(m) ==
  /\ Exists(m) /\ MayArchive
  /\ metrics' = [metrics EXCEPT ![m].archived = TRUE]
  /\ UNCHANGED <<archivedRuns, events, drawn, wandb, ops>>

ArchiveRun(r) ==
  /\ MayArchive
  /\ archivedRuns' = archivedRuns \cup {r}
  /\ UNCHANGED <<metrics, events, drawn, wandb, ops>>

-----------------------------------------------------------------------------
(* plan_wandb_writeback, first half: the run is not archived, the patterns *)
(* match at least one active metric of it, and no two of them have the     *)
(* same target field.                                                      *)
Selectable(r, S) ==
  /\ S # {}
  /\ \A m \in S : Active(m) /\ metrics[m].run = r
  /\ \A k, m \in S : FieldOf(k) = FieldOf(m) => k = m

Select(p, r, t, rewrite, ack, w) ==
  /\ ops[p].phase = "new"
  /\ Cardinality({q \in Procs : InFlight(q)}) < MaxOverlap
  /\ r \notin archivedRuns
  /\ \E S \in SUBSET MetricIds :
       /\ Selectable(r, S)
       /\ ops' = [ops EXCEPT ![p] =
            [@ EXCEPT !.phase = "selected", !.target = t, !.rewrite = rewrite,
                      !.ack = ack, !.writer = w,
                      !.rows = [m \in S |-> metrics[m].value]]]
  /\ UNCHANGED <<metrics, archivedRuns, events, drawn, wandb>>

(* Second half: the audit rows, read one after the other before the first  *)
(* write and taken as one step.  The idempotency key is the metric with    *)
(* the target and its field; its latest event has the greatest stamp.      *)
Attempts(m, t) == {i \in DOMAIN events : events[i].metric = m /\ events[i].target = t}

Latest(m, t) ==
  {i \in Attempts(m, t) : \A k \in Attempts(m, t) : events[k].stamp <= events[i].stamp}

LatestSynced_AnyEvent(m, t) == Attempts(m, t) # {}

LatestSynced(m, t) == \E i \in Latest(m, t) : events[i].status = "synced"

HasPriorWriteback_AnyTarget(t) == events # <<>>

HasPriorWriteback(t) == \E i \in DOMAIN events : events[i].target = t

Planned_Unskipped(p) == DOMAIN ops[p].rows

Planned(p) ==
  {m \in DOMAIN ops[p].rows : ops[p].rewrite \/ ~LatestSynced(m, ops[p].target)}

(* A first write needs --first-write-ok; without it nothing is written.    *)
Plan(p) ==
  /\ ops[p].phase = "selected"
  /\ LET go == Planned(p) # {} /\ (HasPriorWriteback(ops[p].target) \/ ops[p].ack)
     IN  ops' = [ops EXCEPT ![p] =
           IF go THEN [@ EXCEPT !.phase = "planned", !.planned = Len(events),
                                !.rows = Restricted(ops[p].rows, Planned(p))]
           ELSE Over(p)]
  /\ UNCHANGED <<metrics, archivedRuns, events, drawn, wandb>>

-----------------------------------------------------------------------------
(* apply_wandb_writeback, row by row.  The real writer reports a failure   *)
(* for any exception, also for one raised after W&B took the value; the    *)
(* fake one touches nothing and answers what it is told to.                *)
Answered(p, m, status) ==
  ops' = [ops EXCEPT ![p] = [@ EXCEPT !.phase = "written", !.metric = m, !.status = status]]

WriteRow(p, m) == ops[p].phase = "planned" /\ m \in DOMAIN ops[p].rows

WriteSummary(p, m) ==
  /\ WriteRow(p, m)
  /\ ops[p].writer = "real"
  /\ wandb' = [wandb EXCEPT ![ops[p].target][FieldOf(m)] = Append(@, ops[p].rows[m])]
  /\ \E status \in {"synced", "failed"} : Answered(p, m, status)
  /\ UNCHANGED <<metrics, archivedRuns, events, drawn>>

WriteFails(p, m) ==
  /\ WriteRow(p, m)
  /\ ops[p].writer = "real"
  /\ Answered(p, m, "failed")
  /\ UNCHANGED <<metrics, archivedRuns, events, drawn, wandb>>

FakeWrite(p, m) ==
  /\ WriteRow(p, m)
  /\ ops[p].writer = "fake"
  /\ \E status \in {"synced", "failed"} : Answered(p, m, status)
  /\ UNCHANGED <<metrics, archivedRuns, events, drawn, wandb>>

(* event_id = new_id("sync"); now = utc_now(): drawn before the INSERT     *)
(* waits for the write lock.                                               *)
Stamp(p) ==
  /\ ops[p].phase = "written"
  /\ ops' = [ops EXCEPT ![p] = [@ EXCEPT !.phase = "stamped", !.stamp = drawn + 1]]
  /\ drawn' = drawn + 1
  /\ UNCHANGED <<metrics, archivedRuns, events, wandb>>

Payload(p) == ops[p].rows[ops[p].metric]

Remaining(p) == DOMAIN ops[p].rows \ {ops[p].metric}

AuditRow(p) ==
  [metric |-> ops[p].metric, target |-> ops[p].target, value |-> Payload(p),
   status |-> ops[p].status, stamp |-> ops[p].stamp]

Audited_SyncedOnly(p) ==
  IF ops[p].status = "synced" THEN Append(events, AuditRow(p)) ELSE events

Audited(p) == Append(events, AuditRow(p))

Record(p) ==
  /\ ops[p].phase = "stamped"
  /\ events' = Audited(p)
  /\ ops' = [ops EXCEPT ![p] =
       IF Remaining(p) = {} THEN Over(p)
       ELSE [@ EXCEPT !.phase = "planned", !.metric = Null, !.stamp = 0,
                      !.rows = Restricted(ops[p].rows, Remaining(p))]]
  /\ UNCHANGED <<metrics, archivedRuns, drawn, wandb>>

(* The process is killed, or the INSERT finds the database locked.  Of a   *)
(* command that had called the writer it matters what it had sent.         *)
Die(p) ==
  /\ InFlight(p)
  /\ ops' = [ops EXCEPT ![p] =
       IF @.metric = Null THEN Over(p) ELSE [@ EXCEPT !.phase = "died"]]
  /\ UNCHANGED <<metrics, archivedRuns, events, drawn, wandb>>

-----------------------------------------------------------------------------
Metric ==
  \E m \in MetricIds :
    \/ \E r \in Runs, f \in Fields, s \in Series, v \in Values : InsertMetric(m, r, f, s, v)
    \/ \E v \in Values : UpdateMetric(m, v)
    \/ ArchiveMetric(m)

Begin(p) ==
  \E r \in Runs, t \in Targets, rewrite, ack \in BOOLEAN, w \in Writers :
    Select(p, r, t, rewrite, ack, w)

Step(p) ==
  \/ Begin(p) \/ Plan(p)
  \/ \E m \in MetricIds : WriteSummary(p, m) \/ WriteFails(p, m) \/ FakeWrite(p, m)
  \/ Stamp(p) \/ Record(p) \/ Die(p)

Next ==
  \/ Metric
  \/ \E r \in Runs : ArchiveRun(r)
  \/ \E p \in Procs : Step(p)

Spec == Init /\ [][Next]_vars

-----------------------------------------------------------------------------
TypeOK ==
  /\ metrics \in [MetricIds -> MetricRow \cup {Null}]
  /\ archivedRuns \subseteq Runs
  /\ events \in Seq(SyncEvent)
  /\ drawn \in Nat
  /\ wandb \in [Targets -> [Fields -> Seq(Values)]]
  /\ ops \in [Procs -> Op]

EventsOn(t, f) ==
  {i \in DOMAIN events : events[i].target = t /\ FieldOf(events[i].metric) = f}
SyncedOn(t, f) == {i \in EventsOn(t, f) : events[i].status = "synced"}

(* Commands that have written a field, or tried to, with no audit row yet: *)
(* under way, or dead for good.                                            *)
Unrecorded(t, f) ==
  {p \in Procs : ops[p].metric # Null /\ ops[p].target = t /\ FieldOf(ops[p].metric) = f}

(* With real writers the audit brackets the truth, however writebacks      *)
(* overlap and die: W&B took at least one value per row that says          *)
(* "synced", and every value it took has a row of its own, or a command    *)
(* that has not recorded it.                                               *)
AuditBrackets ==
  (\A p \in Procs : ops[p].writer # "fake") =>
  \A t \in Targets, f \in Fields :
    /\ Cardinality(SyncedOn(t, f)) <= Len(wandb[t][f])
    /\ Len(wandb[t][f]) <= Cardinality(EventsOn(t, f)) + Cardinality(Unrecorded(t, f))

(* The writer is called for metric m.                                      *)
Calls(p, m) == WriteRow(p, m) /\ ops'[p].phase = "written" /\ ops'[p].metric = m

(* Whatever is in flight, nothing is sent to a target that has no audit    *)
(* row yet unless the command was given --first-write-ok.                  *)
FirstWriteAcknowledged ==
  [][\A p \in Procs, m \in MetricIds :
       Calls(p, m) /\ (\A i \in DOMAIN events : events[i].target # ops[p].target)
         => ops[p].ack]_vars

(* A metric whose latest audit row says "synced" is sent again without     *)
(* --allow-rewrite only by a command that made its plan before that row.   *)
RewriteNeedsOverlap ==
  [][\A p \in Procs, m \in MetricIds :
       Calls(p, m) /\ ~ops[p].rewrite /\ LatestSynced(m, ops[p].target)
         => \E i \in Latest(m, ops[p].target) : i > ops[p].planned]_vars
=============================================================================
