--------------------------- MODULE WritebackProofs ---------------------------
(***************************************************************************)
(* Proofs about Writeback: its types, the gate for a first write, what a   *)
(* second write of a metric needs, and that audit rows bracket the values  *)
(* that W&B took.                                                          *)
(***************************************************************************)
EXTENDS Writeback, FiniteSetTheorems, TLAPS

(* By the first n of the events evs: metric m was not synced last.         *)
Of(e, m, t) == e.metric = m /\ e.target = t

NoneSynced(evs, m, t, n) ==
  \A i \in 1 .. n :
    Of(evs[i], m, t) /\ (\A k \in 1 .. n : Of(evs[k], m, t) => evs[k].stamp <= evs[i].stamp)
      => evs[i].status # "synced"

Targeted(evs, t) == \E i \in DOMAIN evs : evs[i].target = t

(* What a command knows is so, given metrics ms and events evs: its        *)
(* metrics are there, also the one whose write it has not recorded; it may *)
(* write to its target; and what it writes was not synced when it planned. *)
OpSound(op, ms, evs) ==
  /\ op.phase \in {"new", "over"} <=> op.target = Null
  /\ op.writer = Null <=> op.phase = "new"
  /\ op.metric = Null <=> op.phase \in {"new", "selected", "planned", "over"}
  /\ op.metric # Null => ms[op.metric] # Null
  /\ op.phase \in {"written", "stamped"} => op.metric \in DOMAIN op.rows
  /\ \A m \in DOMAIN op.rows : ms[m] # Null
  /\ op.phase \in {"planned", "written", "stamped"} =>
       /\ op.ack \/ Targeted(evs, op.target)
       /\ op.planned <= Len(evs)
       /\ ~op.rewrite => \A m \in DOMAIN op.rows : NoneSynced(evs, m, op.target, op.planned)

OpInv == \A p \in Procs : OpSound(ops[p], metrics, events)

EventsExist == \A i \in DOMAIN events : Exists(events[i].metric)

RealOnly == \A p \in Procs : ops[p].writer # "fake"

(* Of the commands that have written and not recorded it, those that were  *)
(* told of a success.                                                      *)
UnrecordedSynced(t, f) == {p \in Unrecorded(t, f) : ops[p].status = "synced"}

Bracketed(t, f) ==
  /\ Cardinality(SyncedOn(t, f)) + Cardinality(UnrecordedSynced(t, f)) <= Len(wandb[t][f])
  /\ Len(wandb[t][f]) <= Cardinality(EventsOn(t, f)) + Cardinality(Unrecorded(t, f))

Brackets == RealOnly => \A t \in Targets, f \in Fields : Bracketed(t, f)

IInv == TypeOK /\ OpInv /\ EventsExist /\ Brackets

-----------------------------------------------------------------------------
(* Rows to write: a function from some of the metrics to values.           *)
RowsSet == UNION {[S -> Values] : S \in SUBSET MetricIds}

LEMMA RowsType ==
  /\ <<>> \in RowsSet
  /\ \A S \in SUBSET MetricIds : [S -> Values] \subseteq RowsSet
  /\ \A rows \in RowsSet :
       /\ DOMAIN rows \subseteq MetricIds
       /\ \A m \in DOMAIN rows : rows[m] \in Values
       /\ \A S \in SUBSET (DOMAIN rows) :
            Restricted(rows, S) \in RowsSet /\ DOMAIN Restricted(rows, S) = S
<1>1. <<>> \in [{} -> Values]
  OBVIOUS
<1>2. ASSUME NEW rows \in RowsSet
      PROVE  /\ DOMAIN rows \subseteq MetricIds
             /\ \A m \in DOMAIN rows : rows[m] \in Values
  BY DEF RowsSet
<1>3. ASSUME NEW rows \in RowsSet, NEW S \in SUBSET (DOMAIN rows)
      PROVE  Restricted(rows, S) \in RowsSet /\ DOMAIN Restricted(rows, S) = S
  <2>1. S \in SUBSET MetricIds /\ Restricted(rows, S) \in [S -> Values]
    BY <1>2 DEF Restricted
  <2> QED BY <2>1 DEF RowsSet
<1> QED BY <1>1, <1>2, <1>3 DEF RowsSet

LEMMA OpType ==
  ASSUME NEW op \in Op
  PROVE  /\ op.phase \in {"new", "selected", "planned", "written", "stamped", "over", "died"}
         /\ op.target \in Targets \cup {Null} /\ op.rewrite \in BOOLEAN /\ op.ack \in BOOLEAN
         /\ op.writer \in Writers \cup {Null} /\ op.rows \in RowsSet
         /\ op.metric \in MetricIds \cup {Null} /\ op.status \in {"synced", "failed"}
         /\ op.stamp \in Nat /\ op.planned \in Nat
  BY DEF Op, RowsSet

LEMMA NewType == New \in Op /\ \A ms, evs : OpSound(New, ms, evs)
<1>1. New \in Op
  BY RowsType DEF New, Op, RowsSet
<1>2. \A m \in DOMAIN New.rows : FALSE
  BY DEF New
<1> QED BY <1>1, <1>2 DEF New, OpSound

LEMMA OverType ==
  ASSUME NEW p \in Procs, ops[p] \in Op, ops[p].writer # Null
  PROVE  /\ Over(p) \in Op /\ (\A ms, evs : OpSound(Over(p), ms, evs)) /\ Over(p).metric = Null
         /\ Over(p).writer = ops[p].writer
<1>1. Over(p) \in Op
  BY NewType, OpType DEF Over, New, Op
<1>2. \A m \in DOMAIN Over(p).rows : FALSE
  BY DEF New, Over
<1> QED BY <1>1, <1>2 DEF New, Over, OpSound

LEMMA InitSound == Init => IInv
<1> SUFFICES ASSUME Init PROVE IInv
  OBVIOUS
<1>1. TypeOK
  BY NewType DEF Init, TypeOK
<1>2. OpInv /\ EventsExist
  BY NewType DEF Init, OpInv, EventsExist
<1>3. ASSUME NEW t \in Targets, NEW f \in Fields
      PROVE  Bracketed(t, f)
  <2>1. EventsOn(t, f) = {} /\ SyncedOn(t, f) = {}
    BY DEF Init, EventsOn, SyncedOn
  <2>2. Unrecorded(t, f) = {} /\ UnrecordedSynced(t, f) = {}
    BY DEF Init, Unrecorded, UnrecordedSynced, New
  <2>3. Len(wandb[t][f]) = 0
    BY DEF Init
  <2> QED BY <2>1, <2>2, <2>3, FS_EmptySet DEF Bracketed
<1> QED BY <1>1, <1>2, <1>3 DEF IInv, Brackets

-----------------------------------------------------------------------------
(* Later metrics and events: no row disappears or changes its field, and   *)
(* events are only appended.                                               *)
Later(ms) ==
  \A m \in MetricIds : metrics[m] # Null => ms[m] # Null /\ ms[m].field = metrics[m].field

Appended(evs) == evs = events \/ \E e \in SyncEvent : evs = Append(events, e)

LEMMA AppendedFacts ==
  ASSUME events \in Seq(SyncEvent), NEW evs, Appended(evs)
  PROVE  /\ evs \in Seq(SyncEvent) /\ Len(evs) >= Len(events)
         /\ DOMAIN events = 1 .. Len(events) /\ DOMAIN evs = 1 .. Len(evs)
         /\ \A i \in 1 .. Len(events) : evs[i] = events[i]
<1>1. CASE evs = events
  BY <1>1
<1>2. ASSUME NEW e \in SyncEvent, evs = Append(events, e)
      PROVE  /\ evs \in Seq(SyncEvent) /\ Len(evs) >= Len(events)
             /\ DOMAIN events = 1 .. Len(events) /\ DOMAIN evs = 1 .. Len(evs)
             /\ \A i \in 1 .. Len(events) : evs[i] = events[i]
  BY <1>2
<1> QED BY <1>1, <1>2 DEF Appended

LEMMA SoundLater ==
  ASSUME TypeOK, NEW op \in Op, OpSound(op, metrics, events),
         NEW ms, Later(ms), NEW evs, Appended(evs)
  PROVE  OpSound(op, ms, evs)
<1>1. op.metric # Null => op.metric \in MetricIds
  BY OpType
<1>2. DOMAIN op.rows \subseteq MetricIds
  BY OpType, RowsType
<1>3. /\ Len(events) \in Nat /\ Len(evs) \in Nat /\ Len(evs) >= Len(events) /\ op.planned \in Nat
      /\ DOMAIN events = 1 .. Len(events) /\ DOMAIN evs = 1 .. Len(evs)
      /\ \A i \in 1 .. Len(events) : evs[i] = events[i]
  BY AppendedFacts, OpType DEF TypeOK
<1>4. Targeted(events, op.target) => Targeted(evs, op.target)
  BY <1>3 DEF Targeted
<1>5. ASSUME NEW m, op.planned <= Len(events), NoneSynced(events, m, op.target, op.planned)
      PROVE  NoneSynced(evs, m, op.target, op.planned)
  <2>1. \A i \in 1 .. op.planned : evs[i] = events[i]
    BY <1>3, <1>5
  <2> QED BY <1>5, <2>1 DEF NoneSynced
<1>6. op.metric # Null => ms[op.metric] # Null
  BY <1>1 DEF OpSound, Later
<1>7. \A m \in DOMAIN op.rows : ms[m] # Null
  BY <1>2 DEF OpSound, Later
<1>8. op.phase \in {"planned", "written", "stamped"} =>
       /\ op.ack \/ Targeted(evs, op.target)
       /\ op.planned <= Len(evs)
       /\ ~op.rewrite => \A m \in DOMAIN op.rows : NoneSynced(evs, m, op.target, op.planned)
  BY <1>3, <1>4, <1>5 DEF OpSound
<1> QED BY <1>6, <1>7, <1>8 DEF OpSound

(* A step of command p, if of any, that leaves op: what is to be shown of  *)
(* types and commands.                                                     *)
LEMMA Frame ==
  ASSUME IInv, Later(metrics'), Appended(events'),
         metrics' \in [MetricIds -> MetricRow \cup {Null}], archivedRuns' \subseteq Runs,
         drawn' \in Nat, wandb' \in [Targets -> [Fields -> Seq(Values)]],
         NEW p \in Procs, NEW op \in Op, OpSound(op, metrics', events'), ops' = [ops EXCEPT ![p] = op]
  PROVE  TypeOK' /\ OpInv'
<1>1. TypeOK /\ \A q \in Procs : ops[q] \in Op /\ OpSound(ops[q], metrics, events)
  BY DEF IInv, TypeOK, OpInv
<1>2. events' \in Seq(SyncEvent)
  BY <1>1, AppendedFacts DEF TypeOK
<1>3. TypeOK'
  BY <1>1, <1>2 DEF TypeOK
<1>4. \A q \in Procs : OpSound(ops[q], metrics', events')
  BY <1>1, SoundLater
<1>5. \A q \in Procs : ops'[q] = IF q = p THEN op ELSE ops[q]
  BY <1>1 DEF TypeOK
<1>6. \A q \in Procs : OpSound(ops'[q], metrics', events')
  BY <1>4, <1>5
<1> QED BY <1>3, <1>6 DEF OpInv

(* A step that changes metrics only.                                       *)
LEMMA MetricFrame ==
  ASSUME IInv, Later(metrics'), metrics' \in [MetricIds -> MetricRow \cup {Null}],
         archivedRuns' \subseteq Runs, UNCHANGED <<events, drawn, wandb, ops>>
  PROVE  TypeOK' /\ OpInv'
<1>1. TypeOK /\ \A q \in Procs : ops[q] \in Op /\ OpSound(ops[q], metrics, events)
  BY DEF IInv, TypeOK, OpInv
<1>2. TypeOK'
  BY <1>1 DEF TypeOK
<1>3. \A q \in Procs : OpSound(ops[q], metrics', events)
  BY <1>1, SoundLater DEF Appended
<1>4. OpInv'
  BY <1>3 DEF OpInv
<1> QED BY <1>2, <1>4

-----------------------------------------------------------------------------
LEMMA Finite ==
  ASSUME TypeOK, NEW t \in Targets, NEW f \in Fields
  PROVE  /\ IsFiniteSet(EventsOn(t, f)) /\ IsFiniteSet(SyncedOn(t, f))
         /\ IsFiniteSet(Unrecorded(t, f)) /\ IsFiniteSet(UnrecordedSynced(t, f))
         /\ Cardinality(EventsOn(t, f)) \in Nat /\ Cardinality(SyncedOn(t, f)) \in Nat
         /\ Cardinality(Unrecorded(t, f)) \in Nat /\ Cardinality(UnrecordedSynced(t, f)) \in Nat
         /\ Len(wandb[t][f]) \in Nat
<1>1. IsFiniteSet(DOMAIN events)
  <2>1. Len(events) \in Nat /\ DOMAIN events = 1 .. Len(events)
    BY DEF TypeOK
  <2> QED BY <2>1, FS_Interval
<1>2. IsFiniteSet(EventsOn(t, f)) /\ IsFiniteSet(SyncedOn(t, f))
  <2>1. EventsOn(t, f) \subseteq DOMAIN events /\ SyncedOn(t, f) \subseteq EventsOn(t, f)
    BY DEF EventsOn, SyncedOn
  <2> QED BY <1>1, <2>1, FS_Subset
<1>3. IsFiniteSet(Unrecorded(t, f)) /\ IsFiniteSet(UnrecordedSynced(t, f))
  <2>1. Unrecorded(t, f) \subseteq Procs /\ UnrecordedSynced(t, f) \subseteq Unrecorded(t, f)
    BY DEF Unrecorded, UnrecordedSynced
  <2> QED BY <2>1, BoundAssumption, FS_Subset
<1>4. Len(wandb[t][f]) \in Nat
  BY DEF TypeOK
<1> QED BY <1>2, <1>3, <1>4, FS_CardinalityType

(* The fields of metrics that events and commands name do not change.      *)
LEMMA FieldsKept ==
  ASSUME IInv, Later(metrics')
  PROVE  /\ \A i \in DOMAIN events :
              events[i].metric \in MetricIds /\ metrics'[events[i].metric].field = FieldOf(events[i].metric)
         /\ \A p \in Procs : ops[p].metric # Null =>
              ops[p].metric \in MetricIds /\ metrics'[ops[p].metric].field = FieldOf(ops[p].metric)
<1>1. ASSUME NEW i \in DOMAIN events
      PROVE  events[i].metric \in MetricIds /\ metrics'[events[i].metric].field = FieldOf(events[i].metric)
  <2>1. events[i].metric \in MetricIds /\ metrics[events[i].metric] # Null
    <3>1. events[i] \in SyncEvent
      BY DEF IInv, TypeOK
    <3> QED BY <3>1 DEF IInv, EventsExist, Exists, SyncEvent
  <2> QED BY <2>1 DEF Later, FieldOf
<1>2. ASSUME NEW p \in Procs, ops[p].metric # Null
      PROVE  ops[p].metric \in MetricIds /\ metrics'[ops[p].metric].field = FieldOf(ops[p].metric)
  <2>1. ops[p].metric \in MetricIds /\ metrics[ops[p].metric] # Null
    BY <1>2, OpType DEF IInv, TypeOK, OpInv, OpSound
  <2> QED BY <2>1 DEF Later, FieldOf
<1> QED BY <1>1, <1>2

LEMMA EventsKept ==
  ASSUME IInv, Later(metrics'), events' = events
  PROVE  /\ \A t \in Targets, f \in Fields :
              EventsOn(t, f)' = EventsOn(t, f) /\ SyncedOn(t, f)' = SyncedOn(t, f)
         /\ EventsExist'
<1>1. ASSUME NEW t \in Targets, NEW f \in Fields
      PROVE  EventsOn(t, f)' = EventsOn(t, f) /\ SyncedOn(t, f)' = SyncedOn(t, f)
  BY FieldsKept DEF EventsOn, SyncedOn, FieldOf
<1>2. EventsExist'
  BY FieldsKept DEF IInv, EventsExist, Exists, Later
<1> QED BY <1>1, <1>2

(* What a command has written and not recorded.                            *)
SameDebt(q, op) ==
  /\ op.metric = ops[q].metric
  /\ op.metric # Null => op.target = ops[q].target /\ op.status = ops[q].status

LEMMA DebtsKept ==
  ASSUME IInv, Later(metrics'), \A q \in Procs : SameDebt(q, ops'[q])
  PROVE  \A t \in Targets, f \in Fields :
           Unrecorded(t, f)' = Unrecorded(t, f) /\ UnrecordedSynced(t, f)' = UnrecordedSynced(t, f)
<1> TAKE t \in Targets, f \in Fields
<1>1. Unrecorded(t, f)' = Unrecorded(t, f)
  BY FieldsKept DEF Unrecorded, SameDebt, FieldOf
<1>2. \A q \in Unrecorded(t, f) : ops'[q].status = ops[q].status
  BY DEF Unrecorded, SameDebt
<1> QED BY <1>1, <1>2 DEF UnrecordedSynced

(* Writers do not change.                                                  *)
SameWriter(q, op) == op.writer = ops[q].writer \/ ops[q].writer = Null

LEMMA RealKept ==
  ASSUME IInv, \A q \in Procs : SameWriter(q, ops'[q]), RealOnly'
  PROVE  RealOnly
<1>1. ASSUME NEW q \in Procs, ops[q].writer = "fake" PROVE FALSE
  BY <1>1, WritersAssumption DEF SameWriter, RealOnly
<1> QED BY <1>1 DEF RealOnly

(* A step that neither writes to W&B nor records.                          *)
LEMMA QuietBrackets ==
  ASSUME IInv, Later(metrics'), UNCHANGED <<events, wandb>>,
         \A q \in Procs : SameDebt(q, ops'[q]) /\ SameWriter(q, ops'[q])
  PROVE  Brackets' /\ EventsExist'
<1>1. \A t \in Targets, f \in Fields : Bracketed(t, f) => Bracketed(t, f)'
  BY EventsKept, DebtsKept DEF Bracketed
<1>2. RealOnly' => RealOnly
  BY RealKept
<1> QED BY <1>1, <1>2, EventsKept DEF IInv, Brackets

-----------------------------------------------------------------------------
LEMMA MetricSteps ==
  ASSUME IInv, Metric \/ \E r \in Runs : ArchiveRun(r)
  PROVE  IInv'
<1>0. metrics \in [MetricIds -> MetricRow \cup {Null}] /\ archivedRuns \subseteq Runs
  BY DEF IInv, TypeOK
<1>1. /\ metrics' \in [MetricIds -> MetricRow \cup {Null}] /\ Later(metrics')
      /\ archivedRuns' \subseteq Runs /\ UNCHANGED <<events, drawn, wandb, ops>>
  <2>1. ASSUME NEW m \in MetricIds, NEW row \in MetricRow, metrics' = [metrics EXCEPT ![m] = row],
               metrics[m] # Null => row.field = metrics[m].field,
               UNCHANGED <<archivedRuns, events, drawn, wandb, ops>>
        PROVE  /\ metrics' \in [MetricIds -> MetricRow \cup {Null}] /\ Later(metrics')
               /\ archivedRuns' \subseteq Runs /\ UNCHANGED <<events, drawn, wandb, ops>>
    BY <1>0, <2>1, NullAssumption DEF Later
  <2>2. ASSUME NEW m \in MetricIds, NEW r \in Runs, NEW f \in Fields, NEW s \in Series, NEW v \in Values,
               InsertMetric(m, r, f, s, v)
        PROVE  /\ metrics' \in [MetricIds -> MetricRow \cup {Null}] /\ Later(metrics')
               /\ archivedRuns' \subseteq Runs /\ UNCHANGED <<events, drawn, wandb, ops>>
    <3>1. [run |-> r, field |-> f, series |-> s, value |-> v, archived |-> FALSE] \in MetricRow
      BY DEF MetricRow
    <3> QED BY <2>1, <2>2, <3>1 DEF InsertMetric, Exists
  <2>3. ASSUME NEW m \in MetricIds, metrics[m] # Null
        PROVE  /\ \A v \in Values :
                    [metrics[m] EXCEPT !.value = v] \in MetricRow
                    /\ [metrics[m] EXCEPT !.value = v].field = metrics[m].field
               /\ [metrics[m] EXCEPT !.archived = TRUE] \in MetricRow
               /\ [metrics[m] EXCEPT !.archived = TRUE].field = metrics[m].field
    <3>1. metrics[m] \in MetricRow
      BY <1>0, <2>3
    <3> QED BY <3>1 DEF MetricRow
  <2>4. ASSUME NEW m \in MetricIds, NEW v \in Values, UpdateMetric(m, v)
        PROVE  /\ metrics' \in [MetricIds -> MetricRow \cup {Null}] /\ Later(metrics')
               /\ archivedRuns' \subseteq Runs /\ UNCHANGED <<events, drawn, wandb, ops>>
    <3> DEFINE row == [metrics[m] EXCEPT !.value = v]
    <3>1. row \in MetricRow /\ row.field = metrics[m].field
      BY <2>3, <2>4 DEF UpdateMetric, Exists
    <3>2. metrics' = [metrics EXCEPT ![m] = row]
      BY <2>4 DEF UpdateMetric
    <3> HIDE DEF row
    <3> QED BY <2>1, <2>4, <3>1, <3>2 DEF UpdateMetric
  <2>5. ASSUME NEW m \in MetricIds, ArchiveMetric(m)
        PROVE  /\ metrics' \in [MetricIds -> MetricRow \cup {Null}] /\ Later(metrics')
               /\ archivedRuns' \subseteq Runs /\ UNCHANGED <<events, drawn, wandb, ops>>
    <3> DEFINE row == [metrics[m] EXCEPT !.archived = TRUE]
    <3>1. row \in MetricRow /\ row.field = metrics[m].field
      BY <2>3, <2>5 DEF ArchiveMetric, Exists
    <3>2. metrics' = [metrics EXCEPT ![m] = row]
      BY <2>5 DEF ArchiveMetric
    <3> HIDE DEF row
    <3> QED BY <2>1, <2>5, <3>1, <3>2 DEF ArchiveMetric
  <2>6. ASSUME NEW r \in Runs, ArchiveRun(r)
        PROVE  /\ metrics' \in [MetricIds -> MetricRow \cup {Null}] /\ Later(metrics')
               /\ archivedRuns' \subseteq Runs /\ UNCHANGED <<events, drawn, wandb, ops>>
    BY <1>0, <2>6 DEF ArchiveRun, Later
  <2> QED BY <2>2, <2>4, <2>5, <2>6 DEF Metric
<1>2. TypeOK' /\ OpInv'
  BY <1>1, MetricFrame
<1>3. Brackets' /\ EventsExist'
  BY <1>1, QuietBrackets DEF SameDebt, SameWriter
<1> QED BY <1>2, <1>3 DEF IInv

(* A step of command p that leaves op, with the same debt.                 *)
LEMMA QuietCommand ==
  ASSUME IInv, NEW p \in Procs, NEW op \in Op, OpSound(op, metrics, events),
         ops' = [ops EXCEPT ![p] = op], SameDebt(p, op), SameWriter(p, op),
         UNCHANGED <<metrics, archivedRuns, events, wandb>>, drawn' \in Nat
  PROVE  IInv'
<1>1. TypeOK' /\ OpInv'
  BY Frame DEF IInv, TypeOK, Later, Appended
<1>2. \A q \in Procs : SameDebt(q, ops'[q]) /\ SameWriter(q, ops'[q])
  BY DEF IInv, TypeOK, SameDebt, SameWriter
<1>3. Brackets' /\ EventsExist'
  BY <1>2, QuietBrackets DEF Later
<1> QED BY <1>1, <1>3 DEF IInv

LEMMA OpOf ==
  ASSUME IInv, NEW p \in Procs
  PROVE  TypeOK /\ ops[p] \in Op /\ OpSound(ops[p], metrics, events) /\ ops[p].rows \in RowsSet
  BY OpType DEF IInv, TypeOK, OpInv

LEMMA SelectStep ==
  ASSUME IInv, NEW p \in Procs, Begin(p)
  PROVE  IInv'
<1>1. PICK r \in Runs, t \in Targets, rewrite \in BOOLEAN, ack \in BOOLEAN, w \in Writers :
        Select(p, r, t, rewrite, ack, w)
  BY DEF Begin
<1>2. PICK S \in SUBSET MetricIds :
        /\ Selectable(r, S)
        /\ ops' = [ops EXCEPT ![p] =
             [@ EXCEPT !.phase = "selected", !.target = t, !.rewrite = rewrite,
                       !.ack = ack, !.writer = w,
                       !.rows = [m \in S |-> metrics[m].value]]]
  BY <1>1 DEF Select
<1> DEFINE rows == [m \in S |-> metrics[m].value]
           op == [ops[p] EXCEPT !.phase = "selected", !.target = t, !.rewrite = rewrite,
                                !.ack = ack, !.writer = w, !.rows = rows]
<1>3. TypeOK /\ ops[p] \in Op /\ OpSound(ops[p], metrics, events) /\ ops[p].phase = "new"
  BY <1>1, OpOf DEF Select
<1>4. \A m \in S : metrics[m] \in MetricRow /\ metrics[m] # Null
  BY <1>2, <1>3 DEF Selectable, Active, Exists, TypeOK
<1>5. rows \in RowsSet /\ DOMAIN rows = S
  BY <1>4, RowsType DEF MetricRow
<1> HIDE DEF rows
<1>6. ops[p].writer = Null /\ ops[p].metric = Null /\ t # Null /\ w # Null
  BY <1>3, NullAssumption, WritersAssumption DEF OpSound
<1>7. /\ op \in Op /\ op.phase = "selected" /\ op.target = t /\ op.writer = w /\ op.rows = rows
      /\ op.metric = Null
  BY <1>3, <1>5, <1>6 DEF Op, RowsSet
<1>8. ops' = [ops EXCEPT ![p] = op]
  BY <1>2 DEF rows
<1> HIDE DEF op
<1>9. OpSound(op, metrics, events)
  BY <1>4, <1>5, <1>6, <1>7 DEF OpSound
<1>10. SameDebt(p, op) /\ SameWriter(p, op)
  BY <1>6, <1>7 DEF SameDebt, SameWriter
<1> QED BY <1>1, <1>3, <1>7, <1>8, <1>9, <1>10, QuietCommand DEF Select, TypeOK

LEMMA OverStep ==
  ASSUME IInv, NEW p \in Procs, ops[p].writer # Null, ops[p].metric = Null,
         ops' = [ops EXCEPT ![p] = Over(p)],
         UNCHANGED <<metrics, archivedRuns, events, drawn, wandb>>
  PROVE  IInv'
<1> DEFINE op == Over(p)
<1>1. op \in Op /\ OpSound(op, metrics, events) /\ op.metric = Null /\ op.writer = ops[p].writer
  BY OpOf, OverType
<1>2. ops' = [ops EXCEPT ![p] = op] /\ drawn' \in Nat
  BY DEF IInv, TypeOK
<1> HIDE DEF op
<1> QED BY <1>1, <1>2, QuietCommand DEF SameDebt, SameWriter

LEMMA PlanStep ==
  ASSUME IInv, NEW p \in Procs, Plan(p)
  PROVE  IInv'
<1> DEFINE S == Planned(p)
           rows == Restricted(ops[p].rows, S)
           op == [ops[p] EXCEPT !.phase = "planned", !.planned = Len(events), !.rows = rows]
           t == ops[p].target
<1>0. /\ TypeOK /\ ops[p] \in Op /\ OpSound(ops[p], metrics, events) /\ ops[p].rows \in RowsSet
      /\ ops[p].phase = "selected"
  BY OpOf DEF Plan
<1>1. ops[p].writer # Null /\ ops[p].metric = Null /\ t # Null
  BY <1>0 DEF OpSound
<1>2. CASE ops' = [ops EXCEPT ![p] = Over(p)]
  BY <1>1, <1>2, OverStep DEF Plan
<1>3. CASE ops' = [ops EXCEPT ![p] = op] /\ (HasPriorWriteback(t) \/ ops[p].ack)
  <2>1. S \in SUBSET (DOMAIN ops[p].rows) /\ \A m \in S : ops[p].rewrite \/ ~LatestSynced(m, t)
    BY DEF Planned
  <2>2. rows \in RowsSet /\ DOMAIN rows = S
    BY <1>0, <2>1, RowsType
  <2>3. Len(events) \in Nat /\ DOMAIN events = 1 .. Len(events)
    BY <1>0 DEF TypeOK
  <2> HIDE DEF rows, S
  <2>4. /\ op \in Op /\ op.phase = "planned" /\ op.target = t /\ op.writer = ops[p].writer
        /\ op.rows = rows /\ op.metric = Null /\ op.ack = ops[p].ack /\ op.rewrite = ops[p].rewrite
        /\ op.planned = Len(events)
    BY <1>0, <1>1, <2>2, <2>3 DEF Op, RowsSet
  <2>5. ASSUME NEW m \in S, ~ops[p].rewrite
        PROVE  NoneSynced(events, m, t, Len(events))
    <3>1. ~LatestSynced(m, t)
      BY <2>1, <2>5
    <3> HIDE DEF t
    <3> QED BY <2>3, <3>1 DEF LatestSynced, Latest, Attempts, NoneSynced, Of
  <2>6. HasPriorWriteback(t) => Targeted(events, t)
    BY DEF HasPriorWriteback, Targeted
  <2> HIDE DEF op
  <2>7. OpSound(op, metrics, events)
    BY <1>0, <1>1, <1>3, <2>1, <2>2, <2>3, <2>4, <2>5, <2>6 DEF OpSound
  <2> QED BY <1>0, <1>1, <1>3, <2>4, <2>7, QuietCommand DEF Plan, TypeOK, SameDebt, SameWriter
<1>4. ops' = [ops EXCEPT ![p] =
           IF S # {} /\ (HasPriorWriteback(t) \/ ops[p].ack) THEN op ELSE Over(p)]
  BY DEF Plan
<1> QED BY <1>2, <1>3, <1>4

LEMMA StampStep ==
  ASSUME IInv, NEW p \in Procs, Stamp(p)
  PROVE  IInv'
<1> DEFINE op == [ops[p] EXCEPT !.phase = "stamped", !.stamp = drawn + 1]
<1>0. TypeOK /\ ops[p] \in Op /\ OpSound(ops[p], metrics, events) /\ ops[p].phase = "written"
  BY OpOf DEF Stamp
<1>5. drawn + 1 \in Nat
  BY <1>0 DEF TypeOK
<1>1. /\ op \in Op /\ op.phase = "stamped" /\ op.target = ops[p].target /\ op.writer = ops[p].writer
      /\ op.rows = ops[p].rows /\ op.metric = ops[p].metric /\ op.ack = ops[p].ack
      /\ op.rewrite = ops[p].rewrite /\ op.planned = ops[p].planned /\ op.status = ops[p].status
  BY <1>0, <1>5 DEF Op
<1>2. ops' = [ops EXCEPT ![p] = op] /\ drawn' \in Nat
  BY <1>0, <1>5 DEF Stamp
<1> HIDE DEF op
<1>3. OpSound(op, metrics, events)
  BY <1>0, <1>1 DEF OpSound
<1> QED BY <1>1, <1>2, <1>3, QuietCommand DEF Stamp, SameDebt, SameWriter

LEMMA DieStep ==
  ASSUME IInv, NEW p \in Procs, Die(p)
  PROVE  IInv'
<1> DEFINE op == [ops[p] EXCEPT !.phase = "died"]
<1>0. TypeOK /\ ops[p] \in Op /\ OpSound(ops[p], metrics, events) /\ InFlight(p)
  BY OpOf DEF Die
<1>1. CASE ops[p].metric = Null
  <2>1. ops[p].writer # Null
    BY <1>0 DEF OpSound, InFlight
  <2> QED BY <1>1, <2>1, OverStep DEF Die
<1>2. CASE ops[p].metric # Null
  <2>1. /\ op \in Op /\ op.phase = "died" /\ op.target = ops[p].target /\ op.writer = ops[p].writer
        /\ op.rows = ops[p].rows /\ op.metric = ops[p].metric /\ op.status = ops[p].status
    BY <1>0 DEF Op
  <2>2. ops' = [ops EXCEPT ![p] = op] /\ drawn' \in Nat
    BY <1>0, <1>2 DEF Die, TypeOK
  <2> HIDE DEF op
  <2>3. OpSound(op, metrics, events)
    BY <1>0, <1>2, <2>1 DEF OpSound, InFlight
  <2> QED BY <2>1, <2>2, <2>3, QuietCommand DEF Die, SameDebt, SameWriter
<1> QED BY <1>1, <1>2

(* The command itself, where it is told of a success.                      *)
Told(p, op) == IF op.status = "synced" THEN {p} ELSE {}

(* What follows from a call of the writer.                                 *)
Owes(p, m, op, t, f) ==
  /\ p \notin Unrecorded(t, f) /\ p \notin UnrecordedSynced(t, f)
  /\ t = ops[p].target /\ f = FieldOf(m) =>
       /\ Unrecorded(t, f)' = Unrecorded(t, f) \cup {p}
       /\ UnrecordedSynced(t, f)' = UnrecordedSynced(t, f) \cup Told(p, op)
  /\ ~(t = ops[p].target /\ f = FieldOf(m)) =>
       Unrecorded(t, f)' = Unrecorded(t, f) /\ UnrecordedSynced(t, f)' = UnrecordedSynced(t, f)

LEMMA CallDebts ==
  ASSUME IInv, NEW p \in Procs, NEW m \in MetricIds, NEW op \in Op, WriteRow(p, m),
         op.metric = m, op.target = ops[p].target,
         ops' = [ops EXCEPT ![p] = op], metrics' = metrics
  PROVE  \A t \in Targets, f \in Fields : Owes(p, m, op, t, f)
<1> SUFFICES ASSUME NEW t \in Targets, NEW f \in Fields
             PROVE  Owes(p, m, op, t, f)
  OBVIOUS
<1>1. ops[p].metric = Null /\ m # Null
  BY OpOf, NullAssumption DEF OpSound, WriteRow
<1>2. \A q \in Procs : ops'[q] = IF q = p THEN op ELSE ops[q]
  BY DEF IInv, TypeOK
<1>3. p \notin Unrecorded(t, f) /\ p \notin UnrecordedSynced(t, f)
  BY <1>1 DEF Unrecorded, UnrecordedSynced
<1>4. CASE t = ops[p].target /\ f = FieldOf(m)
  <2>1. Unrecorded(t, f)' = Unrecorded(t, f) \cup {p}
    BY <1>1, <1>2, <1>4 DEF Unrecorded, FieldOf
  <2>2. UnrecordedSynced(t, f)' = UnrecordedSynced(t, f) \cup Told(p, op)
    BY <1>2, <1>3, <2>1 DEF UnrecordedSynced, Told
  <2> QED BY <1>3, <1>4, <2>1, <2>2 DEF Owes
<1>5. CASE ~(t = ops[p].target /\ f = FieldOf(m))
  <2>1. Unrecorded(t, f)' = Unrecorded(t, f)
    BY <1>1, <1>2, <1>5 DEF Unrecorded, FieldOf
  <2>2. UnrecordedSynced(t, f)' = UnrecordedSynced(t, f)
    BY <1>2, <1>3, <2>1 DEF UnrecordedSynced
  <2> QED BY <1>3, <1>5, <2>1, <2>2 DEF Owes
<1> QED BY <1>4, <1>5

(* The writer is called for metric m of command p, and the row that is     *)
(* left; what W&B took is said by the cases below.                         *)
LEMMA AnsweredOp ==
  ASSUME IInv, NEW p \in Procs, NEW m \in MetricIds, WriteRow(p, m),
         NEW status \in {"synced", "failed"}, Answered(p, m, status)
  PROVE  \E op \in Op :
           /\ ops' = [ops EXCEPT ![p] = op]
           /\ op.metric = m /\ op.target = ops[p].target /\ op.status = status
           /\ op.writer = ops[p].writer /\ op.writer # Null
           /\ OpSound(op, metrics, events)
<1> DEFINE op == [ops[p] EXCEPT !.phase = "written", !.metric = m, !.status = status]
<1>0. /\ TypeOK /\ ops[p] \in Op /\ OpSound(ops[p], metrics, events)
      /\ ops[p].phase = "planned" /\ m \in DOMAIN ops[p].rows /\ m # Null
  BY OpOf, NullAssumption DEF WriteRow
<1>1. /\ op \in Op /\ op.phase = "written" /\ op.target = ops[p].target /\ op.writer = ops[p].writer
      /\ op.rows = ops[p].rows /\ op.metric = m /\ op.ack = ops[p].ack /\ op.status = status
      /\ op.rewrite = ops[p].rewrite /\ op.planned = ops[p].planned
  BY <1>0 DEF Op
<1>2. ops' = [ops EXCEPT ![p] = op]
  BY DEF Answered
<1> HIDE DEF op
<1>3. OpSound(op, metrics, events) /\ op.writer # Null
  BY <1>0, <1>1 DEF OpSound
<1> QED BY <1>1, <1>2, <1>3

LEMMA SummaryStep ==
  ASSUME IInv, NEW p \in Procs, NEW m \in MetricIds, WriteSummary(p, m)
  PROVE  IInv'
<1>0. TypeOK /\ ops[p].rows \in RowsSet /\ m \in DOMAIN ops[p].rows /\ WriteRow(p, m)
  BY OpOf DEF WriteSummary, WriteRow
<1>1. PICK status \in {"synced", "failed"} : Answered(p, m, status)
  BY DEF WriteSummary
<1>2. PICK op \in Op :
        /\ ops' = [ops EXCEPT ![p] = op]
        /\ op.metric = m /\ op.target = ops[p].target /\ op.status = status
        /\ op.writer = ops[p].writer /\ op.writer # Null
        /\ OpSound(op, metrics, events)
  BY <1>0, <1>1, AnsweredOp
<1> DEFINE v == ops[p].rows[m]
           T == ops[p].target
           F == FieldOf(m)
<1>3. v \in Values
  BY <1>0, RowsType
<1>4. wandb' = [wandb EXCEPT ![T] = [wandb[T] EXCEPT ![F] = Append(wandb[T][F], v)]]
  BY DEF WriteSummary
<1> HIDE DEF v, T, F
<1>5. wandb' \in [Targets -> [Fields -> Seq(Values)]]
  <2>1. wandb \in [Targets -> [Fields -> Seq(Values)]]
    BY <1>0 DEF TypeOK
  <2>2. CASE T \in Targets /\ F \in Fields
    <3>1. Append(wandb[T][F], v) \in Seq(Values)
      BY <1>3, <2>1, <2>2
    <3>2. [wandb[T] EXCEPT ![F] = Append(wandb[T][F], v)] \in [Fields -> Seq(Values)]
      BY <2>1, <2>2, <3>1
    <3> QED BY <1>4, <2>1, <2>2, <3>2
  <2>3. CASE T \in Targets /\ F \notin Fields
    <3>1. [wandb[T] EXCEPT ![F] = Append(wandb[T][F], v)] = wandb[T]
      BY <2>1, <2>3
    <3> QED BY <1>4, <2>1, <2>3, <3>1
  <2>4. CASE T \notin Targets
    BY <1>4, <2>1, <2>4
  <2> QED BY <2>2, <2>3, <2>4
<1>6. TypeOK' /\ OpInv' /\ UNCHANGED <<metrics, archivedRuns, events, drawn>>
  BY <1>0, <1>2, <1>5, Frame DEF WriteSummary, TypeOK, Later, Appended
<1>7. EventsExist' /\ \A t \in Targets, f \in Fields :
        EventsOn(t, f)' = EventsOn(t, f) /\ SyncedOn(t, f)' = SyncedOn(t, f)
  BY <1>6, EventsKept DEF Later
<1>8. RealOnly' => RealOnly
  <2>1. \A q \in Procs : SameWriter(q, ops'[q])
    BY <1>0, <1>2 DEF SameWriter, TypeOK
  <2> QED BY <2>1, RealKept
<1>9. ASSUME NEW t \in Targets, NEW f \in Fields, Bracketed(t, f)
      PROVE  Bracketed(t, f)'
  <2>0. /\ IsFiniteSet(Unrecorded(t, f)) /\ IsFiniteSet(UnrecordedSynced(t, f))
        /\ Cardinality(EventsOn(t, f)) \in Nat /\ Cardinality(SyncedOn(t, f)) \in Nat
        /\ Cardinality(Unrecorded(t, f)) \in Nat /\ Cardinality(UnrecordedSynced(t, f)) \in Nat
        /\ Len(wandb[t][f]) \in Nat
    BY <1>0, Finite
  <2>1. Owes(p, m, op, t, f)
    <3>1. metrics' = metrics
      BY <1>6
    <3> QED BY <1>0, <1>2, <3>1, CallDebts
  <2>2. CASE t = T /\ f = F
    <3>1. Len(wandb'[t][f]) = Len(wandb[t][f]) + 1
      BY <1>0, <1>3, <1>4, <2>2 DEF TypeOK
    <3>2. Cardinality(Unrecorded(t, f)') = Cardinality(Unrecorded(t, f)) + 1
      BY <2>0, <2>1, <2>2, FS_AddElement DEF Owes, T, F
    <3>3. \/ Cardinality(UnrecordedSynced(t, f)') = Cardinality(UnrecordedSynced(t, f)) + 1
          \/ Cardinality(UnrecordedSynced(t, f)') = Cardinality(UnrecordedSynced(t, f))
      <4>1. /\ p \notin UnrecordedSynced(t, f)
            /\ UnrecordedSynced(t, f)' = UnrecordedSynced(t, f) \cup Told(p, op)
        BY <2>1, <2>2 DEF Owes, T, F
      <4>2. CASE Told(p, op) = {p}
        <5>1. UnrecordedSynced(t, f)' = UnrecordedSynced(t, f) \cup {p}
          BY <4>1, <4>2
        <5>2. Cardinality(UnrecordedSynced(t, f) \cup {p}) = Cardinality(UnrecordedSynced(t, f)) + 1
          BY <2>0, <4>1, FS_AddElement
        <5> QED BY <5>1, <5>2
      <4>3. CASE Told(p, op) = {}
        BY <4>1, <4>3
      <4> QED BY <4>2, <4>3 DEF Told
    <3> QED BY <1>7, <1>9, <2>0, <3>1, <3>2, <3>3 DEF Bracketed
  <2>3. CASE ~(t = T /\ f = F)
    <3>1. wandb'[t][f] = wandb[t][f]
      BY <1>0, <1>4, <2>3 DEF TypeOK
    <3> QED BY <1>7, <1>9, <2>1, <2>3, <3>1 DEF Bracketed, Owes, T, F
  <2> QED BY <2>2, <2>3
<1> QED BY <1>6, <1>7, <1>8, <1>9 DEF IInv, Brackets

(* The writer answers and W&B takes nothing: it failed, or it is fake.     *)
LEMMA NothingTaken ==
  ASSUME IInv, NEW p \in Procs, NEW m \in MetricIds, WriteRow(p, m),
         NEW status \in {"synced", "failed"}, Answered(p, m, status),
         status = "failed" \/ ops[p].writer = "fake",
         UNCHANGED <<metrics, archivedRuns, events, drawn, wandb>>
  PROVE  IInv'
<1>0. TypeOK
  BY OpOf
<1>1. PICK op \in Op :
        /\ ops' = [ops EXCEPT ![p] = op]
        /\ op.metric = m /\ op.target = ops[p].target /\ op.status = status
        /\ op.writer = ops[p].writer /\ op.writer # Null
        /\ OpSound(op, metrics, events)
  BY AnsweredOp
<1>2. TypeOK' /\ OpInv'
  BY <1>0, <1>1, Frame DEF TypeOK, Later, Appended
<1>3. EventsExist' /\ \A t \in Targets, f \in Fields :
        EventsOn(t, f)' = EventsOn(t, f) /\ SyncedOn(t, f)' = SyncedOn(t, f)
  BY EventsKept DEF Later
<1>4. RealOnly' => RealOnly /\ ops[p].writer # "fake"
  <2>1. \A q \in Procs : SameWriter(q, ops'[q])
    BY <1>0, <1>1 DEF SameWriter, TypeOK
  <2>2. ops'[p].writer = ops[p].writer
    BY <1>0, <1>1 DEF TypeOK
  <2> QED BY <2>1, <2>2, RealKept DEF RealOnly
<1>5. ASSUME NEW t \in Targets, NEW f \in Fields, Bracketed(t, f), status = "failed"
      PROVE  Bracketed(t, f)'
  <2>0. /\ IsFiniteSet(Unrecorded(t, f))
        /\ Cardinality(EventsOn(t, f)) \in Nat /\ Cardinality(Unrecorded(t, f)) \in Nat
        /\ Len(wandb[t][f]) \in Nat
    BY <1>0, Finite
  <2>1. /\ p \notin Unrecorded(t, f)
        /\ Unrecorded(t, f)' = Unrecorded(t, f) \cup {p} \/ Unrecorded(t, f)' = Unrecorded(t, f)
        /\ UnrecordedSynced(t, f)' = UnrecordedSynced(t, f)
    <3>1. op.status # "synced"
      BY <1>1, <1>5
    <3>2. Owes(p, m, op, t, f)
      BY <1>1, CallDebts
    <3> QED BY <3>1, <3>2 DEF Told, Owes
  <2>2. Cardinality(Unrecorded(t, f)') \in {Cardinality(Unrecorded(t, f)), Cardinality(Unrecorded(t, f)) + 1}
    BY <2>0, <2>1, FS_AddElement
  <2> QED BY <1>3, <1>5, <2>0, <2>1, <2>2 DEF Bracketed
<1> QED BY <1>2, <1>3, <1>4, <1>5 DEF IInv, Brackets

-----------------------------------------------------------------------------
(* The audit row, and the command that has nothing unrecorded after it.    *)
LEMMA RecordedOp ==
  ASSUME IInv, NEW p \in Procs, Record(p)
  PROVE  /\ AuditRow(p) \in SyncEvent /\ ops[p].metric # Null /\ Exists(ops[p].metric)
         /\ \E op \in Op :
              /\ ops' = [ops EXCEPT ![p] = op]
              /\ op.metric = Null /\ op.writer = ops[p].writer
              /\ OpSound(op, metrics, events')
<1> DEFINE S == Remaining(p)
           rows == Restricted(ops[p].rows, S)
           op == [ops[p] EXCEPT !.phase = "planned", !.metric = Null, !.stamp = 0, !.rows = rows]
<1>0. /\ TypeOK /\ ops[p] \in Op /\ OpSound(ops[p], metrics, events) /\ ops[p].rows \in RowsSet
      /\ ops[p].phase = "stamped"
  BY OpOf DEF Record
<1>1. /\ ops[p].writer # Null /\ ops[p].metric \in DOMAIN ops[p].rows /\ ops[p].target # Null
      /\ ops[p].metric # Null /\ metrics[ops[p].metric] # Null
  BY <1>0 DEF OpSound
<1>2. AuditRow(p) \in SyncEvent
  <2>1. /\ ops[p].metric \in MetricIds /\ ops[p].target \in Targets /\ Payload(p) \in Values
        /\ ops[p].status \in {"synced", "failed"} /\ ops[p].stamp \in Nat
    BY <1>0, <1>1, OpType, RowsType DEF Payload
  <2> QED BY <2>1 DEF AuditRow, SyncEvent
<1>3. Appended(events')
  BY <1>2 DEF Record, Audited, Appended
<1>4. \E o \in Op :
        /\ ops' = [ops EXCEPT ![p] = o]
        /\ o.metric = Null /\ o.writer = ops[p].writer
        /\ OpSound(o, metrics, events')
  <2>1. ops' = [ops EXCEPT ![p] = IF S = {} THEN Over(p) ELSE op]
    BY DEF Record
  <2>2. CASE S = {}
    <3>1. ops' = [ops EXCEPT ![p] = Over(p)]
      BY <2>1, <2>2
    <3>2. /\ Over(p) \in Op /\ OpSound(Over(p), metrics, events') /\ Over(p).metric = Null
          /\ Over(p).writer = ops[p].writer
      BY <1>0, <1>1, OverType
    <3> QED BY <3>1, <3>2
  <2>3. CASE S # {}
    <3>1. S \in SUBSET (DOMAIN ops[p].rows)
      BY DEF Remaining
    <3>2. rows \in RowsSet /\ DOMAIN rows = S
      BY <1>0, <3>1, RowsType
    <3>3. ops' = [ops EXCEPT ![p] = op]
      BY <2>1, <2>3
    <3> HIDE DEF rows, S
    <3>4. /\ op \in Op /\ op.phase = "planned" /\ op.target = ops[p].target
          /\ op.writer = ops[p].writer /\ op.rows = rows /\ op.metric = Null
          /\ op.ack = ops[p].ack /\ op.rewrite = ops[p].rewrite /\ op.planned = ops[p].planned
      BY <1>0, <3>2 DEF Op, RowsSet
    <3> HIDE DEF op
    <3>5. OpSound(op, metrics, events)
      BY <1>0, <1>1, <3>1, <3>2, <3>4 DEF OpSound
    <3>6. OpSound(op, metrics, events')
      BY <1>0, <1>3, <3>4, <3>5, SoundLater DEF Later
    <3> QED BY <3>3, <3>4, <3>6
  <2> QED BY <2>2, <2>3
<1> QED BY <1>1, <1>2, <1>4 DEF Exists

LEMMA RecordStep ==
  ASSUME IInv, NEW p \in Procs, Record(p)
  PROVE  IInv'
<1> DEFINE e == AuditRow(p)
           T == ops[p].target
           F == FieldOf(ops[p].metric)
           n == Len(events) + 1
<1>0. /\ TypeOK /\ events' = Append(events, e) /\ UNCHANGED <<metrics, archivedRuns, drawn, wandb>>
      /\ e \in SyncEvent /\ ops[p].metric # Null /\ Exists(ops[p].metric)
      /\ e.metric = ops[p].metric /\ e.target = T /\ e.status = ops[p].status
  BY OpOf, RecordedOp DEF Record, Audited, AuditRow
<1>1. PICK op \in Op :
        /\ ops' = [ops EXCEPT ![p] = op]
        /\ op.metric = Null /\ op.writer = ops[p].writer
        /\ OpSound(op, metrics, events')
  BY RecordedOp
<1> HIDE DEF e
<1>2. Appended(events')
  BY <1>0 DEF Appended
<1>3. TypeOK' /\ OpInv'
  BY <1>0, <1>1, <1>2, Frame DEF TypeOK, Later
<1>4. /\ DOMAIN events = 1 .. Len(events) /\ DOMAIN events' = DOMAIN events \cup {n}
      /\ n \notin DOMAIN events /\ events'[n] = e
      /\ \A i \in DOMAIN events : events'[i] = events[i]
  BY <1>0 DEF TypeOK
<1> HIDE DEF n
<1>5. EventsExist'
  BY <1>0, <1>4 DEF IInv, EventsExist, Exists
<1>6. RealOnly' => RealOnly
  <2>1. \A q \in Procs : SameWriter(q, ops'[q])
    BY <1>0, <1>1 DEF SameWriter, TypeOK
  <2> QED BY <2>1, RealKept
<1>7. \A q \in Procs : ops'[q] = IF q = p THEN op ELSE ops[q]
  BY <1>0, <1>1 DEF TypeOK
<1>8. ASSUME NEW t \in Targets, NEW f \in Fields, Bracketed(t, f)
      PROVE  Bracketed(t, f)'
  <2>0. /\ IsFiniteSet(EventsOn(t, f)) /\ IsFiniteSet(SyncedOn(t, f))
        /\ IsFiniteSet(Unrecorded(t, f)) /\ IsFiniteSet(UnrecordedSynced(t, f))
        /\ Cardinality(EventsOn(t, f)) \in Nat /\ Cardinality(SyncedOn(t, f)) \in Nat
        /\ Cardinality(Unrecorded(t, f)) \in Nat /\ Cardinality(UnrecordedSynced(t, f)) \in Nat
        /\ Len(wandb[t][f]) \in Nat
    BY <1>0, Finite
  <2>1. n \notin EventsOn(t, f) /\ n \notin SyncedOn(t, f)
    BY <1>4 DEF EventsOn, SyncedOn
  <2>2. Unrecorded(t, f)' = Unrecorded(t, f) \ {p}
    <3>1. /\ ops'[p].metric = Null
          /\ \A q \in Procs \ {p} : ops'[q] = ops[q]
      BY <1>1, <1>7
    <3> QED BY <1>0, <3>1 DEF Unrecorded, FieldOf
  <2>3. UnrecordedSynced(t, f)' = UnrecordedSynced(t, f) \ {p}
    <3>1. \A q \in Unrecorded(t, f) \ {p} : ops'[q] = ops[q]
      BY <1>7 DEF Unrecorded
    <3> QED BY <2>2, <3>1 DEF UnrecordedSynced
  <2>4. CASE t = T /\ f = F
    <3>1. EventsOn(t, f)' = EventsOn(t, f) \cup {n}
      BY <1>0, <1>4, <2>4 DEF EventsOn, FieldOf
    <3>2. p \in Unrecorded(t, f)
      BY <1>0, <2>4 DEF Unrecorded
    <3>3. SyncedOn(t, f)' = IF ops[p].status = "synced" THEN SyncedOn(t, f) \cup {n} ELSE SyncedOn(t, f)
      BY <1>0, <1>4, <2>1, <3>1 DEF SyncedOn, EventsOn
    <3>4. p \in UnrecordedSynced(t, f) <=> ops[p].status = "synced"
      BY <3>2 DEF UnrecordedSynced
    <3>5. /\ Cardinality(EventsOn(t, f)') = Cardinality(EventsOn(t, f)) + 1
          /\ Cardinality(Unrecorded(t, f)') = Cardinality(Unrecorded(t, f)) - 1
      <4>1. Cardinality(EventsOn(t, f)') = Cardinality(EventsOn(t, f)) + 1
        BY <2>0, <2>1, <3>1, FS_AddElement
      <4>2. Cardinality(Unrecorded(t, f)') = Cardinality(Unrecorded(t, f)) - 1
        BY <2>0, <2>2, <3>2, FS_RemoveElement
      <4> QED BY <4>1, <4>2
    <3>6. Cardinality(SyncedOn(t, f)') + Cardinality(UnrecordedSynced(t, f)')
            = Cardinality(SyncedOn(t, f)) + Cardinality(UnrecordedSynced(t, f))
      <4>1. CASE ops[p].status = "synced"
        <5>1. Cardinality(SyncedOn(t, f)') = Cardinality(SyncedOn(t, f)) + 1
          BY <2>0, <2>1, <3>3, <4>1, FS_AddElement
        <5>2. Cardinality(UnrecordedSynced(t, f)') = Cardinality(UnrecordedSynced(t, f)) - 1
          BY <2>0, <2>3, <3>4, <4>1, FS_RemoveElement
        <5> QED BY <2>0, <5>1, <5>2
      <4>2. CASE ops[p].status # "synced"
        <5>1. UnrecordedSynced(t, f)' = UnrecordedSynced(t, f)
          BY <2>3, <3>4, <4>2
        <5> QED BY <3>3, <4>2, <5>1
      <4> QED BY <4>1, <4>2
    <3> QED BY <1>0, <1>8, <2>0, <3>5, <3>6 DEF Bracketed
  <2>5. CASE ~(t = T /\ f = F)
    <3>1. EventsOn(t, f)' = EventsOn(t, f)
      BY <1>0, <1>4, <2>5 DEF EventsOn, FieldOf
    <3>2. SyncedOn(t, f)' = SyncedOn(t, f)
      BY <1>4, <2>1, <3>1 DEF SyncedOn, EventsOn
    <3>3. p \notin Unrecorded(t, f) /\ p \notin UnrecordedSynced(t, f)
      BY <2>5 DEF Unrecorded, UnrecordedSynced
    <3>4. Unrecorded(t, f)' = Unrecorded(t, f) /\ UnrecordedSynced(t, f)' = UnrecordedSynced(t, f)
      BY <2>2, <2>3, <3>3
    <3> QED BY <1>0, <1>8, <3>1, <3>2, <3>4 DEF Bracketed
  <2> QED BY <2>4, <2>5
<1> QED BY <1>3, <1>5, <1>6, <1>8 DEF IInv, Brackets

-----------------------------------------------------------------------------
LEMMA StepSound == IInv /\ [Next]_vars => IInv'
<1> SUFFICES ASSUME IInv, [Next]_vars PROVE IInv'
  OBVIOUS
<1>1. CASE Metric \/ \E r \in Runs : ArchiveRun(r)
  BY <1>1, MetricSteps
<1>2. ASSUME NEW p \in Procs, Step(p) PROVE IInv'
  <2>1. CASE Begin(p)
    BY <2>1, SelectStep
  <2>2. CASE Plan(p)
    BY <2>2, PlanStep
  <2>3. ASSUME NEW m \in MetricIds, WriteSummary(p, m) PROVE IInv'
    BY <2>3, SummaryStep
  <2>4. ASSUME NEW m \in MetricIds, WriteFails(p, m) PROVE IInv'
    BY <2>4, NothingTaken DEF WriteFails
  <2>5. ASSUME NEW m \in MetricIds, FakeWrite(p, m) PROVE IInv'
    BY <2>5, NothingTaken DEF FakeWrite
  <2>6. CASE Stamp(p)
    BY <2>6, StampStep
  <2>7. CASE Record(p)
    BY <2>7, RecordStep
  <2>8. CASE Die(p)
    BY <2>8, DieStep
  <2> QED BY <1>2, <2>1, <2>2, <2>3, <2>4, <2>5, <2>6, <2>7, <2>8 DEF Step
<1>3. CASE UNCHANGED vars
  <2>1. UNCHANGED <<metrics, archivedRuns, events, drawn, wandb, ops>>
    BY <1>3 DEF vars
  <2>2. TypeOK' /\ OpInv'
    BY <2>1, MetricFrame DEF IInv, TypeOK, Later
  <2>3. Brackets' /\ EventsExist'
    BY <2>1, QuietBrackets DEF Later, SameDebt, SameWriter
  <2> QED BY <2>2, <2>3 DEF IInv
<1> QED BY <1>1, <1>2, <1>3 DEF Next

(* The types, what every command knows, and the brackets with the rows     *)
(* that commands told of a success still owe.                              *)
THEOREM Invariance == Spec => []IInv
<1>1. Init => IInv
  BY InitSound
<1>2. IInv /\ [Next]_vars => IInv'
  BY StepSound
<1> QED BY <1>1, <1>2, PTL DEF Spec

(* Every variable keeps its type.                                          *)
THEOREM TypeCorrect == Spec => []TypeOK
<1>1. IInv => TypeOK
  BY DEF IInv
<1> QED BY <1>1, Invariance, PTL

(* The audit rows of a field bracket the values that W&B took, for any     *)
(* number of commands that overlap, fail and die.                          *)
THEOREM AuditTrue == Spec => []AuditBrackets
<1>1. IInv => AuditBrackets
  <2> SUFFICES ASSUME IInv, RealOnly, NEW t \in Targets, NEW f \in Fields
               PROVE  /\ Cardinality(SyncedOn(t, f)) <= Len(wandb[t][f])
                      /\ Len(wandb[t][f]) <= Cardinality(EventsOn(t, f)) + Cardinality(Unrecorded(t, f))
    BY DEF AuditBrackets, RealOnly
  <2>1. Bracketed(t, f)
    BY DEF IInv, Brackets
  <2>2. /\ Cardinality(SyncedOn(t, f)) \in Nat /\ Cardinality(UnrecordedSynced(t, f)) \in Nat
        /\ Len(wandb[t][f]) \in Nat
    BY Finite DEF IInv
  <2> QED BY <2>1, <2>2 DEF Bracketed
<1> QED BY <1>1, Invariance, PTL

(* Nothing is sent to a target without an audit row unless the command was *)
(* given --first-write-ok.                                                 *)
THEOREM FirstWrites == Spec => FirstWriteAcknowledged
<1>1. ASSUME IInv, NEW p \in Procs, NEW m \in MetricIds, Calls(p, m),
             \A i \in DOMAIN events : events[i].target # ops[p].target
      PROVE  ops[p].ack
  <2>1. OpSound(ops[p], metrics, events) /\ ops[p].phase = "planned"
    BY <1>1, OpOf DEF Calls, WriteRow
  <2> QED BY <1>1, <2>1 DEF OpSound, Targeted
<1>2. IInv => (\A p \in Procs, m \in MetricIds :
                 Calls(p, m) /\ (\A i \in DOMAIN events : events[i].target # ops[p].target) => ops[p].ack)
  BY <1>1
<1>3. IInv => [\A p \in Procs, m \in MetricIds :
                 Calls(p, m) /\ (\A i \in DOMAIN events : events[i].target # ops[p].target) => ops[p].ack]_vars
  BY <1>2
<1> QED BY <1>3, Invariance, PTL DEF FirstWriteAcknowledged

(* A metric that was synced last is sent again without --allow-rewrite     *)
(* only by a command that had planned before that row was written.         *)
THEOREM Rewrites == Spec => RewriteNeedsOverlap
<1>1. ASSUME IInv, NEW p \in Procs, NEW m \in MetricIds, Calls(p, m), ~ops[p].rewrite,
             LatestSynced(m, ops[p].target)
      PROVE  \E i \in Latest(m, ops[p].target) : i > ops[p].planned
  <2> DEFINE t == ops[p].target
             n == ops[p].planned
  <2>1. /\ TypeOK /\ OpSound(ops[p], metrics, events) /\ ops[p].phase = "planned"
        /\ m \in DOMAIN ops[p].rows /\ n \in Nat
    BY <1>1, OpOf, OpType DEF Calls, WriteRow
  <2>2. NoneSynced(events, m, t, n) /\ n <= Len(events)
    BY <1>1, <2>1 DEF OpSound
  <2> HIDE DEF t, n
  <2>3. PICK i \in Latest(m, t) : events[i].status = "synced"
    BY <1>1 DEF LatestSynced, t
  <2>4. DOMAIN events = 1 .. Len(events) /\ Len(events) \in Nat
    BY <2>1 DEF TypeOK
  <2>5. /\ i \in DOMAIN events /\ Of(events[i], m, t)
        /\ \A k \in DOMAIN events : Of(events[k], m, t) => events[k].stamp <= events[i].stamp
    BY <2>3 DEF Latest, Attempts, Of
  <2>6. ~(i <= n)
    BY <2>1, <2>2, <2>3, <2>4, <2>5 DEF NoneSynced
  <2>7. i > n
    BY <2>1, <2>4, <2>5, <2>6
  <2> QED BY <2>3, <2>7 DEF t, n
<1>2. IInv => (\A p \in Procs, m \in MetricIds :
                 Calls(p, m) /\ ~ops[p].rewrite /\ LatestSynced(m, ops[p].target)
                   => \E i \in Latest(m, ops[p].target) : i > ops[p].planned)
  BY <1>1
<1>3. IInv => [\A p \in Procs, m \in MetricIds :
                 Calls(p, m) /\ ~ops[p].rewrite /\ LatestSynced(m, ops[p].target)
                   => \E i \in Latest(m, ops[p].target) : i > ops[p].planned]_vars
  BY <1>2
<1> QED BY <1>3, Invariance, PTL DEF RewriteNeedsOverlap
=============================================================================
