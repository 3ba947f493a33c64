--------------------------- MODULE JobRetryProofs ---------------------------
(***************************************************************************)
(* Proofs about JobRetry and JobRecovery, for any number of commands, jobs *)
(* and rows.                                                               *)
(*                                                                         *)
(* A retry graph is a partial function from jobs to jobs.  It is cyclic    *)
(* when some nonempty set of jobs only retries jobs of that set, so every  *)
(* argument below takes such a set of the new graph and finds one of the   *)
(* old graph inside it.                                                    *)
(*                                                                         *)
(* What is derived from the graph follows from its types alone.  The walk  *)
(* of doctor is a recursive function; what it does is proved from the      *)
(* least position at which it would do otherwise.                          *)
(***************************************************************************)
EXTENDS JobRecovery, FiniteSetTheorems, WellFoundedInduction, TLAPS

(* What a pending write knows of the rows it names; rows are not deleted.  *)
OpsExist ==
  \A p \in Procs :
    /\ ops[p].target # Null => Exists(ops[p].target)
    /\ ops[p].write \in {"update", "link"} => ops[p].job # Null /\ Exists(ops[p].job)
    /\ ops[p].write = "link" => ops[p].target # Null
    /\ ops[p].write \in {"insert", "update"} => ops[p].status \in JobStatuses

(* No job retries an id that is not in the table.                          *)
LinksResolve ==
  \A j \in JobIds : Exists(j) /\ jobs[j].retryOf # Null => Exists(jobs[j].retryOf)

IInv == TypeOK /\ OpsExist /\ LinksResolve

-----------------------------------------------------------------------------
(* Null is no id and no row.                                               *)
LEMMA NullIsNoRow ==
  Null \notin JobIds /\ Null \notin JobRow
BY NullAssumption

(* The initial ledger is empty.                                            *)
LEMMA InitInv == Init => IInv
<1> SUFFICES ASSUME Init PROVE IInv
  OBVIOUS
<1> USE DEF Init
<1>1. jobs \in [JobIds -> OrNull(JobRow)]
  BY DEF OrNull
<1>2. ops \in [Procs -> Op]
  BY DEF Idle, Op, OrNull
<1>3. OpsExist
  BY DEF OpsExist, Idle
<1>4. LinksResolve
  BY DEF LinksResolve, Exists
<1> QED
  BY <1>1, <1>2, <1>3, <1>4 DEF IInv, TypeOK

(* The invariant when one row is replaced by a row with a resolved link.   *)
LEMMA RowWrite ==
  ASSUME TypeOK, OpsExist, LinksResolve,
         NEW j \in JobIds, NEW row \in JobRow,
         jobs' = [jobs EXCEPT ![j] = row],
         row.retryOf # Null => Exists(row.retryOf)
  PROVE  /\ jobs' \in [JobIds -> OrNull(JobRow)]
         /\ \A k \in JobIds : Exists(k) => Exists(k)'
         /\ LinksResolve'
<1>1. jobs' \in [JobIds -> OrNull(JobRow)]
  BY DEF TypeOK, OrNull
<1>2. \A k \in JobIds : Exists(k)' <=> (k = j \/ Exists(k))
  BY NullIsNoRow DEF Exists, TypeOK
<1>3. ASSUME NEW k \in JobIds, jobs'[k] # Null, jobs'[k].retryOf # Null
      PROVE  jobs'[jobs'[k].retryOf] # Null
  <2>1. CASE k = j
    <3>1. jobs'[k] = row
      BY <2>1 DEF TypeOK
    <3>2. row.retryOf \in JobIds /\ Exists(row.retryOf)
      BY <1>3, <3>1 DEF JobRow, OrNull
    <3> QED
      BY <1>2, <3>1, <3>2 DEF Exists
  <2>2. CASE k # j
    <3>1. jobs'[k] = jobs[k] /\ Exists(k)
      BY <2>2, <1>3 DEF TypeOK, Exists
    <3>2. jobs[k].retryOf \in JobIds
      BY <1>3, <3>1 DEF TypeOK, Exists, JobRow, OrNull
    <3>3. Exists(jobs[k].retryOf)
      BY <1>3, <3>1 DEF LinksResolve
    <3> QED
      BY <1>2, <3>1, <3>2, <3>3 DEF Exists
  <2> QED
    BY <2>1, <2>2
<1>4. LinksResolve'
  BY <1>3 DEF LinksResolve, Exists
<1> QED
  BY <1>1, <1>2, <1>4

(* Deciding on a write, or finishing one, touches one slot.                *)
LEMMA OpsKept ==
  ASSUME IInv, \A k \in JobIds : Exists(k) => Exists(k)',
         UNCHANGED ops
  PROVE  ops' \in [Procs -> Op] /\ OpsExist'
<1>1. \A p \in Procs : ops[p] \in Op
  BY DEF IInv, TypeOK
<1>2. \A p \in Procs : (ops[p].target # Null => ops[p].target \in JobIds)
                    /\ (ops[p].job # Null => ops[p].job \in JobIds)
  BY <1>1 DEF Op, OrNull
<1>3. \A p \in Procs : ops'[p] = ops[p]
  OBVIOUS
<1> QED
  BY <1>1, <1>2, <1>3 DEF IInv, TypeOK, OpsExist, Exists

(* A command that ends leaves its slot idle.                               *)
LEMMA OpsDone ==
  ASSUME IInv, \A k \in JobIds : Exists(k) => Exists(k)',
         NEW p \in Procs, Done(p)
  PROVE  ops' \in [Procs -> Op] /\ OpsExist'
<1>1. ops' = [ops EXCEPT ![p] = Idle] /\ ops \in [Procs -> Op]
  BY DEF Done, IInv, TypeOK
<1>2. Idle \in Op /\ Idle.target = Null /\ Idle.write = "none"
  BY DEF Idle, Op, OrNull
<1>3. ops' \in [Procs -> Op]
  BY <1>1, <1>2
<1>4. \A q \in Procs : (ops[q].target # Null => ops[q].target \in JobIds)
                    /\ (ops[q].job # Null => ops[q].job \in JobIds)
  BY <1>1 DEF Op, OrNull
<1>5. ASSUME NEW q \in Procs
      PROVE  /\ ops'[q].target # Null => jobs'[ops'[q].target] # Null
             /\ ops'[q].write \in {"update", "link"} =>
                  ops'[q].job # Null /\ jobs'[ops'[q].job] # Null
             /\ ops'[q].write = "link" => ops'[q].target # Null
             /\ ops'[q].write \in {"insert", "update"} => ops'[q].status \in JobStatuses
  <2>1. CASE q = p
    BY <1>1, <1>2, <2>1
  <2>2. CASE q # p
    BY <1>1, <1>4, <2>2 DEF IInv, OpsExist, Exists
  <2> QED
    BY <2>1, <2>2
<1> QED
  BY <1>3, <1>5 DEF OpsExist, Exists

(* A command that has read leaves its decision in its slot.                *)
LEMMA OpsDecide ==
  ASSUME IInv, NEW p \in Procs, NEW op \in Op, Decide(p, op),
         op.target # Null => Exists(op.target),
         op.write \in {"update", "link"} => op.job # Null /\ Exists(op.job),
         op.write = "link" => op.target # Null,
         op.write \in {"insert", "update"} => op.status \in JobStatuses
  PROVE  IInv'
<1>1. ops' = [ops EXCEPT ![p] = op] /\ jobs' = jobs /\ ops \in [Procs -> Op]
  BY DEF Decide, IInv, TypeOK
<1>2. TypeOK'
  BY <1>1 DEF IInv, TypeOK
<1>3. ASSUME NEW q \in Procs
      PROVE  /\ ops'[q].target # Null => jobs'[ops'[q].target] # Null
             /\ ops'[q].write \in {"update", "link"} =>
                  ops'[q].job # Null /\ jobs'[ops'[q].job] # Null
             /\ ops'[q].write = "link" => ops'[q].target # Null
             /\ ops'[q].write \in {"insert", "update"} => ops'[q].status \in JobStatuses
  <2>1. CASE q = p
    BY <1>1, <2>1 DEF Exists
  <2>2. CASE q # p
    BY <1>1, <2>2 DEF IInv, OpsExist, Exists
  <2> QED
    BY <2>1, <2>2
<1>4. OpsExist'
  BY <1>3 DEF OpsExist, Exists
<1>5. LinksResolve'
  BY <1>1 DEF IInv, LinksResolve, Exists
<1> QED
  BY <1>2, <1>4, <1>5 DEF IInv

(* A set of numbers that is not empty has a least one.                     *)
LEMMA LeastNatural ==
  ASSUME NEW S, S \subseteq Nat, S # {}
  PROVE  \E n \in S : \A k \in S : n <= k
<1>1. IsWellFoundedOn(OpToRel(<, Nat), Nat)
  BY NatLessThanWellFounded
<1>2. PICK n \in S : \A k \in S : ~ (<<k, n>> \in OpToRel(<, Nat))
  <2> HIDE DEF OpToRel
  <2> QED BY <1>1, WFMin
<1>3. \A k \in S : ~(k < n)
  BY <1>2 DEF OpToRel
<1>4. \A k \in S : n <= k
  BY <1>3
<1> QED
  BY <1>4

(* Some rows of a manifest have a last one.                                *)
LEMMA LastOfRows ==
  ASSUME NEW n \in Nat, NEW rows \in SUBSET (1 .. n), rows # {}
  PROVE  LastIn(rows) \in rows
<1> DEFINE Before == {n - i : i \in rows}
<1>1. PICK b \in Before : \A c \in Before : b <= c
  <2>1. Before \subseteq Nat /\ Before # {}
    OBVIOUS
  <2> HIDE DEF Before
  <2> QED
    BY <2>1, LeastNatural
<1>2. PICK i \in rows : b = n - i
  OBVIOUS
<1>3. ASSUME NEW k \in rows PROVE k <= i
  <2>1. n - i <= n - k
    BY <1>1, <1>2
  <2> QED
    BY <2>1
<1> QED
  BY <1>3 DEF LastIn

(* The rows of a manifest.                                                 *)
LEMMA ManifestRows ==
  ASSUME NEW m \in Manifests
  PROVE  /\ \E n \in Nat : DOMAIN m = 1 .. n
         /\ \A i \in DOMAIN m : m[i] \in UpsertRow \cup ArchiveRow
<1>1. PICK n \in 1 .. MaxRows : m \in [1 .. n -> UpsertRow \cup ArchiveRow]
  BY DEF Manifests
<1>2. n \in Nat /\ DOMAIN m = 1 .. n
  BY <1>1
<1> QED
  BY <1>1, <1>2

(* The row the plan goes by is one of the rows that name the job.          *)
LEMMA DecidingRowOf ==
  ASSUME NEW m \in Manifests, NEW j, Overlaid(m, j) # {}
  PROVE  DecidingRow(m, j) \in Overlaid(m, j)
<1>1. PICK n \in Nat : DOMAIN m = 1 .. n
  BY ManifestRows
<1>2. \A rows \in SUBSET Overlaid(m, j) : rows # {} => LastIn(rows) \in rows
  <2> SUFFICES ASSUME NEW rows \in SUBSET Overlaid(m, j), rows # {}
               PROVE  LastIn(rows) \in rows
    OBVIOUS
  <2>1. rows \in SUBSET (1 .. n)
    BY <1>1 DEF Overlaid
  <2> QED
    BY <2>1, LastOfRows
<1> QED
  BY <1>2 DEF DecidingRow

(* What the updates leave in a field: what was there, when none gives it a *)
(* value, or what one of them gives.                                       *)
LEMMA LastGivenIs ==
  ASSUME NEW m \in Manifests, NEW j, NEW field
  PROVE  \/ /\ LastGiven(m, j, field) = jobs[j][field]
            /\ \A i \in Updated(m) : m[i].id = j => m[i][field] = Null
         \/ \E i \in Updated(m) :
              m[i].id = j /\ m[i][field] # Null /\ LastGiven(m, j, field) = m[i][field]
<1> DEFINE rows == {i \in Updated(m) : m[i].id = j /\ m[i][field] # Null}
<1>1. CASE rows = {}
  BY <1>1 DEF LastGiven
<1>2. CASE rows # {}
  <2>1. PICK n \in Nat : DOMAIN m = 1 .. n
    BY ManifestRows
  <2>2. rows \in SUBSET (1 .. n)
    BY <2>1 DEF Updated, Upserts
  <2>3. LastIn(rows) \in rows
    <3> HIDE DEF rows
    <3> QED
      BY <1>2, <2>2, LastOfRows
  <2>4. LastGiven(m, j, field) = m[LastIn(rows)][field]
    BY <1>2 DEF LastGiven
  <2> QED
    BY <2>3, <2>4
<1> QED
  BY <1>1, <1>2

(* What a reconcile makes of a job that is there.                          *)
LEMMA MergedRowIs ==
  ASSUME TypeOK, NEW m \in Manifests, NEW j \in JobIds, Exists(j)
  PROVE  /\ MergedRow(m, j) \in JobRow
         /\ MergedRow(m, j).archived <=> jobs[j].archived \/ \E i \in Archived(m) : m[i].id = j
         /\ \/ /\ MergedRow(m, j).retryOf = jobs[j].retryOf
               /\ \A i \in Updated(m) : m[i].id = j => m[i].retryOf = Null
            \/ \E i \in Updated(m) :
                 m[i].id = j /\ m[i].retryOf # Null /\ MergedRow(m, j).retryOf = m[i].retryOf
<1>1. jobs[j] \in JobRow
  BY DEF TypeOK, OrNull, Exists
<1>2. \A i \in Updated(m) : m[i] \in UpsertRow
  BY ManifestRows DEF Updated, Upserts, UpsertRow, ArchiveRow
<1>3. LastGiven(m, j, "experiment") \in OrNull(Experiments)
  BY <1>1, <1>2, LastGivenIs DEF JobRow, UpsertRow
<1>4. LastGiven(m, j, "status") \in JobStatuses
  BY <1>1, <1>2, LastGivenIs, GivenAssumption DEF JobRow, UpsertRow, OrNull
<1>5. LastGiven(m, j, "retryOf") \in OrNull(JobIds)
  BY <1>1, <1>2, LastGivenIs DEF JobRow, UpsertRow
<1>6. MergedRow(m, j) \in JobRow
  BY <1>1, <1>3, <1>4, <1>5 DEF MergedRow, JobRow
<1>7. MergedRow(m, j).archived <=> jobs[j].archived \/ \E i \in Archived(m) : m[i].id = j
  BY <1>1 DEF MergedRow, JobRow
<1>8. MergedRow(m, j).retryOf = LastGiven(m, j, "retryOf")
  BY DEF MergedRow
<1> QED
  BY <1>6, <1>7, <1>8, LastGivenIs

(* What a reconcile makes of a job that is not there.                      *)
LEMMA FreshRowIs ==
  ASSUME NEW m \in Manifests, Committable(m), NEW j \in JobIds, ~Exists(j),
         Overlaid(m, j) # {}
  PROVE  LET i == DecidingRow(m, j)
         IN  /\ i \in Inserted(m) /\ m[i].id = j
             /\ FreshRow(m[i]) \in JobRow
<1> DEFINE i == DecidingRow(m, j)
<1>1. i \in DOMAIN m /\ m[i].id = j
  BY DecidingRowOf DEF Overlaid
<1>2. m[i].op = "upsert" /\ m[i] \in UpsertRow
  BY <1>1, ManifestRows DEF Committable, UpsertRow, ArchiveRow
<1>3. Coalesce(m[i].status, "planned") \in JobStatuses
  BY <1>2, GivenAssumption DEF Coalesce, UpsertRow, OrNull, JobStatuses
<1>4. FreshRow(m[i]) \in JobRow
  BY <1>2, <1>3 DEF FreshRow, JobRow, UpsertRow
<1> QED
  BY <1>1, <1>2, <1>4 DEF Inserted, Upserts

(* A reconcile keeps the rows typed, the rows there, the links resolved.   *)
LEMMA ReconcileInv ==
  ASSUME IInv, NEW m \in Manifests, Reconcile(m)
  PROVE  IInv'
<1>1. jobs' = AfterReconcile(m) /\ Committable(m) /\ UNCHANGED ops
  BY DEF Reconcile
<1>2. TypeOK /\ LinksResolve
  BY DEF IInv
<1>3. \A k \in JobIds : Exists(k) => jobs'[k] = MergedRow(m, k) /\ jobs'[k] \in JobRow
  BY <1>1, <1>2, MergedRowIs DEF AfterReconcile
<1>4. \A k \in JobIds : ~Exists(k) /\ Overlaid(m, k) # {} =>
        jobs'[k] = FreshRow(m[DecidingRow(m, k)]) /\ jobs'[k] \in JobRow
  BY <1>1, FreshRowIs DEF AfterReconcile
<1>5. \A k \in JobIds : ~Exists(k) /\ Overlaid(m, k) = {} => jobs'[k] = Null
  BY <1>1 DEF AfterReconcile
<1>6. jobs' \in [JobIds -> OrNull(JobRow)]
  <2>1. \A k \in JobIds : jobs'[k] \in OrNull(JobRow)
    BY <1>3, <1>4, <1>5 DEF OrNull
  <2> QED
    BY <1>1, <2>1 DEF AfterReconcile
<1>7. \A k \in JobIds : Exists(k) => jobs'[k] # Null
  BY <1>3, NullIsNoRow
<1>8. ASSUME NEW k \in JobIds, jobs'[k] # Null, jobs'[k].retryOf # Null
      PROVE  jobs'[jobs'[k].retryOf] # Null
  <2>1. PICK t : t = jobs'[k].retryOf
    OBVIOUS
  <2>2. t \in JobIds
    BY <1>6, <1>8, <2>1 DEF OrNull, JobRow
  <2>3. \/ Exists(k) /\ t = jobs[k].retryOf
        \/ \E i \in Inserted(m) \cup Updated(m) : m[i].retryOf = t
    <3>1. CASE Exists(k)
      BY <1>2, <1>3, <2>1, <3>1, MergedRowIs
    <3>2. CASE ~Exists(k)
      <4>1. jobs'[k] = FreshRow(m[DecidingRow(m, k)]) /\ DecidingRow(m, k) \in Inserted(m)
        BY <1>1, <1>4, <1>5, <1>8, <3>2, FreshRowIs
      <4> QED
        BY <2>1, <4>1 DEF FreshRow
    <3> QED
      BY <3>1, <3>2
  <2>4. Exists(t) \/ \E h \in Inserted(m) : m[h].id = t
    <3>1. CASE Exists(k) /\ t = jobs[k].retryOf
      BY <1>2, <1>8, <2>1, <3>1 DEF LinksResolve
    <3>2. CASE \E i \in Inserted(m) \cup Updated(m) : m[i].retryOf = t
      BY <1>1, <1>8, <2>1, <3>2 DEF Committable, StatementsPass
    <3> QED
      BY <2>3, <3>1, <3>2
  <2>5. ASSUME NEW h \in Inserted(m), m[h].id = t, ~Exists(t) PROVE jobs'[t] # Null
    <3>1. h \in Overlaid(m, t)
      BY <2>5 DEF Overlaid, Inserted, Upserts, Archived
    <3> QED
      BY <1>4, <2>2, <2>5, <3>1, NullIsNoRow
  <2> QED
    BY <1>7, <2>1, <2>2, <2>4, <2>5
<1>9. ops' \in [Procs -> Op] /\ OpsExist'
  BY <1>1, <1>7, OpsKept DEF Exists
<1> QED
  BY <1>6, <1>8, <1>9 DEF IInv, TypeOK, LinksResolve, Exists

(* A command that reads keeps the invariant.                               *)
LEMMA BeginInv ==
  ASSUME IInv, NEW p \in Procs, Begin(p)
  PROVE  IInv'
<1>1. ASSUME NEW t \in OrNull(JobIds), NEW e \in OrNull(Experiments),
             NEW s \in GivenStatuses, AddRead(p, t, e, s)
      PROVE  IInv'
  <2> DEFINE op == [Idle EXCEPT !.write = "insert", !.target = t,
                                !.experiment = e, !.status = s]
  <2>1. op \in Op
    BY GivenAssumption DEF Idle, Op, OrNull
  <2>2. op.target = t /\ op.write = "insert" /\ op.status = s /\ s \in JobStatuses
    BY GivenAssumption DEF Idle
  <2>3. Decide(p, op) /\ (t # Null => Exists(t))
    BY <1>1 DEF AddRead, Active
  <2> QED
    BY <2>1, <2>2, <2>3, OpsDecide
<1>2. ASSUME NEW t \in OrNull(JobIds), NEW e \in OrNull(Experiments),
             NEW s \in GivenStatuses, NEW j \in JobIds, UpsertRead(p, j, t, e, s)
      PROVE  IInv'
  <2> DEFINE op == [write |-> "update", job |-> j, target |-> t,
                    experiment |-> e, status |-> s]
  <2>1. op \in Op
    BY GivenAssumption DEF Op, OrNull
  <2>2. s \in JobStatuses /\ j # Null
    BY GivenAssumption, NullIsNoRow
  <2>3. Decide(p, op) /\ (t # Null => Exists(t)) /\ Exists(j)
    BY <1>2 DEF UpsertRead, RetryAllowed, Active
  <2> QED
    BY <2>1, <2>2, <2>3, OpsDecide
<1>3. ASSUME NEW j \in JobIds, NEW t \in JobIds, LinkRead(p, j, t)
      PROVE  IInv'
  <2> DEFINE op == [Idle EXCEPT !.write = "link", !.job = j, !.target = t]
  <2>1. op \in Op
    BY DEF Idle, Op, OrNull
  <2>2. op.target = t /\ op.write = "link" /\ op.job = j /\ j # Null /\ t # Null
    BY NullIsNoRow DEF Idle
  <2>3. Decide(p, op) /\ Exists(t) /\ Exists(j)
    BY <1>3 DEF LinkRead, RetryAllowed, Active
  <2> QED
    BY <2>1, <2>2, <2>3, OpsDecide
<1> QED
  BY <1>1, <1>2, <1>3 DEF Begin

(* Every step keeps the invariant.                                         *)
LEMMA StepInv == IInv /\ [Next]_vars => IInv'
<1> SUFFICES ASSUME IInv, [Next]_vars PROVE IInv'
  OBVIOUS
<1>0. TypeOK /\ OpsExist /\ LinksResolve
  BY DEF IInv
<1>1. ASSUME NEW p \in Procs, Begin(p) PROVE IInv'
  BY <1>1, BeginInv
<1>2. ASSUME NEW p \in Procs, Insert(p) PROVE IInv'
  <2>1. PICK j \in JobIds :
          /\ ~Exists(j)
          /\ jobs' = [jobs EXCEPT ![j] =
                [experiment |-> ops[p].experiment, status |-> ops[p].status,
                 retryOf |-> ops[p].target, archived |-> FALSE]]
    BY <1>2 DEF Insert
  <2> DEFINE row == [experiment |-> ops[p].experiment, status |-> ops[p].status,
                     retryOf |-> ops[p].target, archived |-> FALSE]
  <2>2. row \in JobRow
    BY <1>0, <1>2 DEF TypeOK, OpsExist, Op, JobRow, Insert
  <2>3. row.retryOf # Null => Exists(row.retryOf)
    BY <1>0 DEF OpsExist
  <2>4. jobs' = [jobs EXCEPT ![j] = row]
    BY <2>1
  <2>5. /\ jobs' \in [JobIds -> OrNull(JobRow)]
        /\ \A k \in JobIds : Exists(k) => Exists(k)'
        /\ LinksResolve'
    BY <1>0, <2>2, <2>3, <2>4, RowWrite
  <2>6. ops' \in [Procs -> Op] /\ OpsExist'
    BY <1>2, <2>5, OpsDone DEF Insert
  <2> QED
    BY <2>5, <2>6 DEF IInv, TypeOK
<1>3. ASSUME NEW p \in Procs, Update(p) PROVE IInv'
  <2> DEFINE j == ops[p].job
             row == [jobs[j] EXCEPT !.experiment = ops[p].experiment,
                                    !.status = ops[p].status,
                                    !.retryOf = Coalesce(ops[p].target, jobs[j].retryOf)]
  <2>1. ops[p] \in Op /\ ops[p].write = "update"
    BY <1>0, <1>3 DEF TypeOK, Update
  <2>2. j \in JobIds /\ jobs[j] \in JobRow /\ ops[p].status \in JobStatuses
    BY <1>0, <2>1 DEF TypeOK, OpsExist, Op, OrNull, Exists
  <2>3. row \in JobRow /\ row.retryOf = Coalesce(ops[p].target, jobs[j].retryOf)
    BY <2>1, <2>2 DEF Op, JobRow, Coalesce
  <2>4. row.retryOf # Null => Exists(row.retryOf)
    BY <1>0, <2>2, <2>3, NullIsNoRow DEF Coalesce, OpsExist, LinksResolve, Exists
  <2>5. jobs' = [jobs EXCEPT ![j] = row]
    BY <1>3 DEF Update
  <2>6. /\ jobs' \in [JobIds -> OrNull(JobRow)]
        /\ \A k \in JobIds : Exists(k) => Exists(k)'
        /\ LinksResolve'
    BY <1>0, <2>2, <2>3, <2>4, <2>5, RowWrite
  <2>7. ops' \in [Procs -> Op] /\ OpsExist'
    BY <1>3, <2>6, OpsDone DEF Update
  <2> QED
    BY <2>6, <2>7 DEF IInv, TypeOK
<1>4. ASSUME NEW p \in Procs, Link(p) PROVE IInv'
  <2> DEFINE j == ops[p].job
             row == [jobs[j] EXCEPT !.retryOf = ops[p].target]
  <2>1. ops[p] \in Op /\ ops[p].write = "link"
    BY <1>0, <1>4 DEF TypeOK, Link
  <2>2. j \in JobIds /\ jobs[j] \in JobRow
    BY <1>0, <2>1 DEF TypeOK, OpsExist, Op, OrNull, Exists
  <2>3. row \in JobRow /\ row.retryOf = ops[p].target
    BY <2>1, <2>2 DEF Op, JobRow
  <2>4. row.retryOf # Null => Exists(row.retryOf)
    BY <1>0, <2>3 DEF OpsExist
  <2>5. jobs' = [jobs EXCEPT ![j] = row]
    BY <1>4 DEF Link
  <2>6. /\ jobs' \in [JobIds -> OrNull(JobRow)]
        /\ \A k \in JobIds : Exists(k) => Exists(k)'
        /\ LinksResolve'
    BY <1>0, <2>2, <2>3, <2>4, <2>5, RowWrite
  <2>7. ops' \in [Procs -> Op] /\ OpsExist'
    BY <1>4, <2>6, OpsDone DEF Link
  <2> QED
    BY <2>6, <2>7 DEF IInv, TypeOK
<1>5. ASSUME NEW p \in Procs, Abort(p) PROVE IInv'
  <2>1. jobs' = jobs
    BY <1>5 DEF Abort
  <2>2. ops' \in [Procs -> Op] /\ OpsExist'
    BY <1>5, <2>1, OpsDone DEF Abort, Exists
  <2> QED
    BY <1>0, <2>1, <2>2 DEF IInv, TypeOK, LinksResolve, Exists
<1>6. ASSUME NEW j \in JobIds, NEW row \in JobRow, Exists(j), UNCHANGED ops,
             jobs' = [jobs EXCEPT ![j] = row], row.retryOf = jobs[j].retryOf
      PROVE  IInv'
  <2>1. row.retryOf # Null => Exists(row.retryOf)
    BY <1>0, <1>6 DEF LinksResolve
  <2>2. /\ jobs' \in [JobIds -> OrNull(JobRow)]
        /\ \A k \in JobIds : Exists(k) => Exists(k)'
        /\ LinksResolve'
    BY <1>0, <1>6, <2>1, RowWrite
  <2>3. ops' \in [Procs -> Op] /\ OpsExist'
    BY <1>6, <2>2, OpsKept
  <2> QED
    BY <2>2, <2>3 DEF IInv, TypeOK
<1>7. ASSUME NEW j \in JobIds, NEW s \in GivenStatuses, UpdateStatus(j, s) PROVE IInv'
  <2> DEFINE row == [jobs[j] EXCEPT !.status = s]
  <2>1. jobs[j] \in JobRow /\ s \in JobStatuses
    BY <1>0, <1>7, GivenAssumption DEF UpdateStatus, TypeOK, OrNull, Exists
  <2>2. row \in JobRow /\ row.retryOf = jobs[j].retryOf
    BY <2>1 DEF JobRow
  <2>3. Exists(j) /\ UNCHANGED ops /\ jobs' = [jobs EXCEPT ![j] = row]
    BY <1>7 DEF UpdateStatus
  <2> QED
    BY <1>6, <2>2, <2>3
<1>8. ASSUME NEW j \in JobIds, Archive(j) PROVE IInv'
  <2> DEFINE row == [jobs[j] EXCEPT !.archived = TRUE]
  <2>1. jobs[j] \in JobRow
    BY <1>0, <1>8 DEF Archive, TypeOK, OrNull, Exists
  <2>2. row \in JobRow /\ row.retryOf = jobs[j].retryOf
    BY <2>1 DEF JobRow
  <2>3. Exists(j) /\ UNCHANGED ops /\ jobs' = [jobs EXCEPT ![j] = row]
    BY <1>8 DEF Archive
  <2> QED
    BY <1>6, <2>2, <2>3
<1>9. ASSUME NEW m \in Manifests, Reconcile(m) PROVE IInv'
  BY <1>9, ReconcileInv
<1>10. CASE UNCHANGED vars
  BY <1>0, <1>10 DEF vars, IInv, TypeOK, OpsExist, LinksResolve, Exists
<1> QED
  BY <1>1, <1>2, <1>3, <1>4, <1>5, <1>7, <1>8, <1>9, <1>10 DEF Next, Step

(* The inductive invariant holds in every reachable state.                 *)
THEOREM Invariance == Spec => []IInv
BY InitInv, StepInv, PTL DEF Spec

(* The table and the pending writes keep their types (TypeOK).             *)
THEOREM TypeCorrect == Spec => []TypeOK
<1>1. IInv => TypeOK
  BY DEF IInv
<1> QED
  BY <1>1, Invariance, PTL

-----------------------------------------------------------------------------
(* Acyclic(links), unfolded.                                               *)
LEMMA CyclicSet ==
  ASSUME NEW links, NEW C \in SUBSET DOMAIN links, C # {},
         \A j \in C : links[j] \in C
  PROVE  ~Acyclic(links)
BY DEF Acyclic

(* Taking jobs, or links out of the graph, away closes no cycle.           *)
LEMMA SubgraphAcyclic ==
  ASSUME NEW f, NEW g, Acyclic(f), DOMAIN g \subseteq DOMAIN f,
         \A j \in DOMAIN g : g[j] \in DOMAIN g => f[j] = g[j]
  PROVE  Acyclic(g)
<1> SUFFICES ASSUME NEW C \in SUBSET DOMAIN g, C # {}, \A j \in C : g[j] \in C
             PROVE  FALSE
  BY DEF Acyclic
<1>1. C \in SUBSET DOMAIN f /\ \A j \in C : f[j] \in C
  OBVIOUS
<1> QED
  BY <1>1, CyclicSet

(* A link that _retry_of_id allows, written at once, closes no cycle: a    *)
(* cycle through j -> t would lie in the chain of t, which avoids j.       *)
LEMMA AllowedLinkAcyclic ==
  ASSUME TypeOK, Acyclic(RetryLinks), NEW j \in JobIds, NEW t \in JobIds,
         RetryAllowed(j, t), NEW g, DOMAIN g \subseteq ActiveJobs,
         \A k \in DOMAIN g : g[k] = IF k = j THEN t ELSE jobs[k].retryOf
  PROVE  Acyclic(g)
<1> SUFFICES ASSUME NEW C \in SUBSET DOMAIN g, C # {}, \A k \in C : g[k] \in C
             PROVE  FALSE
  BY DEF Acyclic
<1>1. C \subseteq JobIds /\ \A k \in C : Active(k) /\ k \in DOMAIN RetryLinks
  BY DEF ActiveJobs, RetryLinks
<1>2. \A k \in C : k # j => RetryLinks[k] = g[k]
  BY <1>1 DEF RetryLinks
<1>3. CASE j \notin C
  <2>1. \A k \in C : RetryLinks[k] \in C
    BY <1>2, <1>3
  <2> QED
    BY <1>1, <2>1, CyclicSet
<1>4. CASE j \in C
  <2>1. t \in C
    BY <1>4
  <2>2. PICK S \in SUBSET JobIds : t \in S /\ Closed(S) /\ j \notin S
    BY DEF RetryAllowed, RetryChainContains
  <2> DEFINE D == C \cap S
  <2>3. ASSUME NEW k \in D PROVE RetryLinks[k] \in D
    <3>1. k # j /\ g[k] = jobs[k].retryOf /\ g[k] \in C /\ Active(k)
      BY <1>1, <2>2
    <3>2. jobs[k].retryOf # Null
      BY <1>1, <3>1, NullIsNoRow
    <3>3. jobs[k].retryOf \in S
      BY <2>2, <3>1, <3>2 DEF Closed
    <3> QED
      BY <1>2, <3>1, <3>3
  <2>4. D # {} /\ D \in SUBSET DOMAIN RetryLinks
    BY <1>1, <2>1, <2>2
  <2> QED
    BY <2>3, <2>4, CyclicSet
<1> QED
  BY <1>3, <1>4

(* A job that nothing retries yet closes no cycle, whatever it retries.    *)
LEMMA FreshJobAcyclic ==
  ASSUME TypeOK, LinksResolve, Acyclic(RetryLinks), NEW j \in JobIds, ~Exists(j),
         NEW g, DOMAIN g \subseteq ActiveJobs \cup {j},
         \A k \in DOMAIN g : k # j => g[k] = jobs[k].retryOf,
         j \in DOMAIN g => g[j] # j
  PROVE  Acyclic(g)
<1> SUFFICES ASSUME NEW C \in SUBSET DOMAIN g, C # {}, \A k \in C : g[k] \in C
             PROVE  FALSE
  BY DEF Acyclic
<1> DEFINE D == C \ {j}
<1>1. ASSUME NEW k \in D PROVE k \in DOMAIN RetryLinks /\ RetryLinks[k] \in D
  <2>1. k \in ActiveJobs /\ g[k] = jobs[k].retryOf /\ g[k] \in C
    OBVIOUS
  <2>2. g[k] # Null
    BY <2>1, NullIsNoRow DEF ActiveJobs
  <2>3. Exists(g[k])
    BY <2>1, <2>2 DEF LinksResolve, ActiveJobs, Active
  <2> QED
    BY <2>1, <2>3 DEF RetryLinks
<1>2. D # {}
  BY DEF RetryLinks
<1> QED
  BY <1>1, <1>2, CyclicSet

(* A job that is active after a reconcile which named it: the plan went by *)
(* an upsert row of it, with the link of that row.                         *)
LEMMA PlannedRow ==
  ASSUME IInv, NEW m \in Manifests, Reconcile(m), NEW k \in JobIds, Overlaid(m, k) # {},
         jobs'[k] # Null, ~jobs'[k].archived
  PROVE  LET d == DecidingRow(m, k)
         IN  /\ d \in Overlaid(m, k) /\ d \in Upserts(m) /\ m[d].id = k
             /\ k \in DOMAIN PlannedLinks(m) /\ PlannedLinks(m)[k] = m[d].retryOf
<1> DEFINE d == DecidingRow(m, k)
<1>1. jobs' = AfterReconcile(m) /\ Committable(m) /\ TypeOK
  BY DEF Reconcile, IInv
<1>2. d \in Overlaid(m, k) /\ d \in DOMAIN m /\ m[d].id = k /\ d \notin Archived(m)
  BY DecidingRowOf DEF Overlaid
<1>3. k \in PlannedJobs(m)
  BY DEF PlannedJobs
<1>4. d \in Upserts(m)
  <2> SUFFICES ASSUME d \notin Upserts(m) PROVE FALSE
    OBVIOUS
  <2>1. m[d].op = "archive"
    BY <1>2, ManifestRows DEF Upserts, UpsertRow, ArchiveRow
  <2>2. Exists(k) /\ jobs[k].archived
    BY <1>1, <1>2, <2>1 DEF Committable, Archived, Active
  <2>3. MergedRow(m, k).archived
    BY <1>1, <2>2, MergedRowIs
  <2> QED
    BY <1>1, <2>2, <2>3 DEF AfterReconcile
<1> QED
  BY <1>2, <1>3, <1>4 DEF PlannedLinks

(* What a valid plan commits closes no cycle when each linked job that a   *)
(* row names keeps or changes its link in that row, and the rows of a job  *)
(* agree.                                                                  *)
LEMMA ReconcileAcyclic ==
  ASSUME IInv, NEW m \in Manifests, Reconcile(m), ~OmitsLink(m),
         \A j \in JobIds : ~Conflicting(m, j)
  PROVE  Acyclic(RetryLinks')
<1>1. jobs' = AfterReconcile(m) /\ Committable(m) /\ TypeOK
  BY DEF Reconcile, IInv
<1> DEFINE f == PlannedLinks(m)
<1>2. PICK g : g = RetryLinks'
  OBVIOUS
<1>3. DOMAIN g = {k \in JobIds : jobs'[k] # Null /\ ~jobs'[k].archived}
  BY <1>2 DEF RetryLinks, ActiveJobs, Active, Exists
<1>4. ASSUME NEW k \in DOMAIN g PROVE k \in DOMAIN f /\ f[k] = g[k]
  <2>1. k \in JobIds /\ g[k] = jobs'[k].retryOf /\ jobs'[k] # Null /\ ~jobs'[k].archived
    BY <1>2, <1>3 DEF RetryLinks, ActiveJobs, Active, Exists
  <2>2. CASE Overlaid(m, k) = {}
    <3>1. Exists(k) /\ jobs'[k] = MergedRow(m, k)
      BY <1>1, <2>1, <2>2 DEF AfterReconcile
    <3>2. /\ ~jobs[k].archived
          /\ \A i \in Archived(m) : m[i].id # k
      BY <1>1, <2>1, <3>1, MergedRowIs
    <3>3. \A i \in DOMAIN m : m[i].id # k
      BY <2>2, <3>2 DEF Overlaid
    <3>4. jobs'[k].retryOf = jobs[k].retryOf
      BY <1>1, <2>1, <3>1, <3>3, MergedRowIs DEF Updated, Upserts
    <3>5. k \in PlannedJobs(m)
      BY <2>1, <3>1, <3>2 DEF PlannedJobs, ActiveJobs, Active
    <3> QED
      BY <2>1, <2>2, <3>4, <3>5 DEF PlannedLinks
  <2>3. CASE Overlaid(m, k) # {}
    <3> DEFINE d == DecidingRow(m, k)
    <3>1. d \in Upserts(m) /\ m[d].id = k /\ k \in DOMAIN f /\ f[k] = m[d].retryOf
      BY <2>1, <2>3, PlannedRow
    <3>2. CASE ~Exists(k)
      <4>1. jobs'[k] = FreshRow(m[d])
        BY <1>1, <2>1, <2>3, <3>2 DEF AfterReconcile
      <4> QED
        BY <2>1, <3>1, <4>1 DEF FreshRow
    <3>3. CASE Exists(k)
      <4>1. jobs'[k] = MergedRow(m, k)
        BY <1>1, <2>1, <3>3 DEF AfterReconcile
      <4>2. ASSUME NEW i \in Updated(m), m[i].id = k PROVE m[i].retryOf = m[d].retryOf
        BY <2>1, <3>1, <4>2 DEF Conflicting, Updated
      <4>3. CASE \E i \in Updated(m) : m[i].id = k /\ g[k] = m[i].retryOf
        BY <3>1, <4>2, <4>3
      <4>4. CASE /\ g[k] = jobs[k].retryOf
                 /\ \A i \in Updated(m) : m[i].id = k => m[i].retryOf = Null
        <5>1. CASE m[d].retryOf = Null
          BY <3>1, <3>3, <4>4, <5>1 DEF OmitsLink
        <5>2. CASE m[d].retryOf # Null
          <6>1. d \notin Updated(m)
            BY <3>1, <4>4, <5>2
          <6>2. ~Differs(m[d], jobs[k])
            BY <3>1, <3>3, <6>1 DEF Updated
          <6> QED
            BY <3>1, <4>4, <5>2, <6>2 DEF Differs
        <5> QED
          BY <5>1, <5>2
      <4> QED
        BY <1>1, <2>1, <3>3, <4>1, <4>3, <4>4, MergedRowIs
    <3> QED
      BY <3>2, <3>3
  <2> QED
    BY <2>2, <2>3
<1>5. Acyclic(f)
  BY <1>1 DEF Committable, LinksValid
<1>6. Acyclic(g)
  <2> HIDE DEF f
  <2> QED
    BY <1>4, <1>5, SubgraphAcyclic
<1> QED
  BY <1>2, <1>6

(* One row is rewritten with the link it had: no cycle.                    *)
LEMMA SameLinkAcyclic ==
  ASSUME TypeOK, Acyclic(RetryLinks), NEW j \in JobIds, Exists(j), NEW row \in JobRow,
         jobs' = [jobs EXCEPT ![j] = row], row.retryOf = jobs[j].retryOf,
         jobs[j].archived => row.archived
  PROVE  Acyclic(RetryLinks')
<1>1. PICK g : g = RetryLinks'
  OBVIOUS
<1>2. DOMAIN g = {k \in JobIds : jobs'[k] # Null /\ ~jobs'[k].archived}
  BY <1>1 DEF RetryLinks, ActiveJobs, Active, Exists
<1>3. ASSUME NEW k \in DOMAIN g PROVE k \in DOMAIN RetryLinks /\ RetryLinks[k] = g[k]
  <2>1. k \in JobIds /\ g[k] = jobs'[k].retryOf /\ jobs'[k] # Null /\ ~jobs'[k].archived
    BY <1>1, <1>2 DEF RetryLinks, ActiveJobs, Active, Exists
  <2>2. jobs'[k] = IF k = j THEN row ELSE jobs[k]
    BY <2>1 DEF TypeOK
  <2> QED
    BY <2>1, <2>2 DEF RetryLinks, ActiveJobs, Active, Exists
<1>4. Acyclic(g)
  BY <1>3, SubgraphAcyclic
<1> QED
  BY <1>1, <1>4

(* One row is rewritten with a link that is allowed now: no cycle.         *)
LEMMA NewLinkAcyclic ==
  ASSUME TypeOK, Acyclic(RetryLinks), NEW j \in JobIds, Exists(j), NEW row \in JobRow,
         jobs' = [jobs EXCEPT ![j] = row], row.retryOf \in JobIds,
         RetryAllowed(j, row.retryOf), jobs[j].archived => row.archived
  PROVE  Acyclic(RetryLinks')
<1>1. PICK g : g = RetryLinks'
  OBVIOUS
<1>2. DOMAIN g = {k \in JobIds : jobs'[k] # Null /\ ~jobs'[k].archived}
  BY <1>1 DEF RetryLinks, ActiveJobs, Active, Exists
<1>3. ASSUME NEW k \in DOMAIN g
      PROVE  k \in ActiveJobs /\ g[k] = IF k = j THEN row.retryOf ELSE jobs[k].retryOf
  <2>1. k \in JobIds /\ g[k] = jobs'[k].retryOf /\ jobs'[k] # Null /\ ~jobs'[k].archived
    BY <1>1, <1>2 DEF RetryLinks, ActiveJobs, Active, Exists
  <2>2. jobs'[k] = IF k = j THEN row ELSE jobs[k]
    BY <2>1 DEF TypeOK
  <2> QED
    BY <2>1, <2>2 DEF ActiveJobs, Active, Exists
<1>4. Acyclic(g)
  BY <1>3, AllowedLinkAcyclic
<1> QED
  BY <1>1, <1>4

(* A pending insert keeps the graph acyclic.                               *)
LEMMA InsertAcyclic ==
  ASSUME IInv, Acyclic(RetryLinks), NEW p \in Procs, Insert(p)
  PROVE  Acyclic(RetryLinks')
<1> DEFINE row == [experiment |-> ops[p].experiment, status |-> ops[p].status,
                   retryOf |-> ops[p].target, archived |-> FALSE]
<1>1. PICK j \in JobIds : ~Exists(j) /\ jobs' = [jobs EXCEPT ![j] = row]
  BY DEF Insert
<1>2. TypeOK /\ LinksResolve
  BY DEF IInv
<1>3. PICK g : g = RetryLinks'
  OBVIOUS
<1>4. DOMAIN g = {k \in JobIds : jobs'[k] # Null /\ ~jobs'[k].archived}
  BY <1>3 DEF RetryLinks, ActiveJobs, Active, Exists
<1>5. ASSUME NEW k \in DOMAIN g
      PROVE  /\ k # j => k \in ActiveJobs /\ g[k] = jobs[k].retryOf
             /\ k = j => g[k] = ops[p].target
  <2>1. k \in JobIds /\ g[k] = jobs'[k].retryOf /\ jobs'[k] # Null /\ ~jobs'[k].archived
    BY <1>3, <1>4 DEF RetryLinks, ActiveJobs, Active, Exists
  <2>2. jobs'[k] = IF k = j THEN row ELSE jobs[k]
    BY <1>1, <1>2, <2>1 DEF TypeOK
  <2> QED
    BY <2>1, <2>2 DEF ActiveJobs, Active, Exists
<1>6. ops[p].target # j
  BY <1>1, NullIsNoRow DEF IInv, OpsExist
<1>7. Acyclic(g)
  BY <1>1, <1>2, <1>5, <1>6, FreshJobAcyclic
<1> QED
  BY <1>3, <1>7

(* A pending update or link whose check still holds keeps it acyclic.      *)
LEMMA FreshWriteAcyclic ==
  ASSUME IInv, Acyclic(RetryLinks), NEW p \in Procs, Update(p) \/ Link(p), ~Stale(p)
  PROVE  Acyclic(RetryLinks')
<1> DEFINE j == ops[p].job
<1>1. ops[p] \in Op /\ ops[p].write \in {"update", "link"} /\ TypeOK
  BY DEF IInv, TypeOK, Update, Link
<1>2. j \in JobIds /\ jobs[j] \in JobRow /\ Exists(j)
  BY <1>1 DEF IInv, TypeOK, OpsExist, Op, OrNull, Exists
<1>3. PICK row : row = jobs'[j]
  OBVIOUS
<1>4. /\ jobs' = [jobs EXCEPT ![j] = row]
      /\ row \in JobRow
      /\ row.archived = jobs[j].archived
      /\ row.retryOf = IF ops[p].write = "link" THEN ops[p].target
                       ELSE Coalesce(ops[p].target, jobs[j].retryOf)
  <2>1. CASE Update(p)
    <3> DEFINE new == [jobs[j] EXCEPT !.experiment = ops[p].experiment,
                                      !.status = ops[p].status,
                                      !.retryOf = Coalesce(ops[p].target, jobs[j].retryOf)]
    <3>1. jobs' = [jobs EXCEPT ![j] = new] /\ ops[p].write = "update"
      BY <2>1 DEF Update
    <3>2. row = new
      BY <1>1, <1>2, <1>3, <3>1 DEF TypeOK
    <3>3. ops[p].status \in JobStatuses
      BY <3>1 DEF IInv, OpsExist
    <3>4. /\ new \in JobRow /\ new.archived = jobs[j].archived
          /\ new.retryOf = Coalesce(ops[p].target, jobs[j].retryOf)
      BY <1>1, <1>2, <3>3 DEF JobRow, Op, Coalesce
    <3> QED
      BY <3>1, <3>2, <3>4
  <2>2. CASE Link(p)
    <3> DEFINE new == [jobs[j] EXCEPT !.retryOf = ops[p].target]
    <3>1. jobs' = [jobs EXCEPT ![j] = new] /\ ops[p].write = "link"
      BY <2>2 DEF Link
    <3>2. row = new
      BY <1>1, <1>2, <1>3, <3>1 DEF TypeOK
    <3>3. /\ new \in JobRow /\ new.archived = jobs[j].archived
          /\ new.retryOf = ops[p].target
      BY <1>1, <1>2 DEF JobRow, Op
    <3> QED
      BY <3>1, <3>2, <3>3
  <2> QED
    BY <2>1, <2>2
<1>5. CASE ops[p].target = Null
  <2>1. row.retryOf = jobs[j].retryOf
    BY <1>1, <1>4, <1>5 DEF Coalesce, IInv, OpsExist
  <2> QED
    BY <1>1, <1>2, <1>4, <2>1, SameLinkAcyclic
<1>6. CASE ops[p].target # Null
  <2>1. row.retryOf = ops[p].target /\ row.retryOf \in JobIds
    BY <1>1, <1>4, <1>6 DEF Coalesce, Op, OrNull
  <2>2. RetryAllowed(j, row.retryOf)
    BY <1>1, <1>6, <2>1 DEF Stale
  <2> QED
    BY <1>1, <1>2, <1>4, <2>1, <2>2, NewLinkAcyclic
<1> QED
  BY <1>5, <1>6

(* CyclesNeedNamedCause: the retry graph of the active jobs only becomes   *)
(* cyclic through a write whose check _retry_of_id made too early, or      *)
(* through a manifest that leaves out the link of a linked job or names a  *)
(* job twice with different links.                                         *)
THEOREM CycleCauses == Spec => CyclesNeedNamedCause
<1> DEFINE Cause == \/ \E p \in Procs : Writes(p) /\ Stale(p)
                    \/ \E m \in Manifests :
                         (OmitsLink(m) \/ \E j \in JobIds : Conflicting(m, j)) /\ Reconciles(m)
           A == Acyclic(RetryLinks) /\ ~Acyclic(RetryLinks') => Cause
<1>1. IInv /\ [Next]_vars => [A]_vars
  <2> SUFFICES ASSUME IInv, [Next]_vars, Acyclic(RetryLinks), ~Acyclic(RetryLinks')
               PROVE  Cause
    OBVIOUS
  <2>1. TypeOK
    BY DEF IInv
  <2>2. jobs' # jobs
    BY DEF RetryLinks, ActiveJobs, Active, Exists
  <2>3. ASSUME NEW p \in Procs, Step(p) PROVE Cause
    <3>1. ~Begin(p) /\ ~Abort(p)
      BY <2>2 DEF Begin, AddRead, UpsertRead, LinkRead, Decide, Abort
    <3>2. ~Insert(p)
      BY InsertAcyclic
    <3>3. Update(p) \/ Link(p)
      BY <2>3, <3>1, <3>2 DEF Step
    <3>4. Stale(p)
      BY <3>3, FreshWriteAcyclic
    <3>5. Writes(p)
      BY <2>1, <2>2, <3>3 DEF Writes, Update, Link, Done, TypeOK
    <3> QED
      BY <3>4, <3>5
  <2>4. ASSUME NEW j \in JobIds, NEW s \in GivenStatuses, UpdateStatus(j, s) PROVE FALSE
    <3> DEFINE row == [jobs[j] EXCEPT !.status = s]
    <3>1. jobs[j] \in JobRow /\ s \in JobStatuses
      BY <2>1, <2>4, GivenAssumption DEF UpdateStatus, TypeOK, OrNull, Exists
    <3>2. /\ row \in JobRow /\ row.retryOf = jobs[j].retryOf
          /\ row.archived = jobs[j].archived
      BY <3>1 DEF JobRow
    <3>3. Exists(j) /\ jobs' = [jobs EXCEPT ![j] = row]
      BY <2>4 DEF UpdateStatus
    <3> QED
      BY <2>1, <3>2, <3>3, SameLinkAcyclic
  <2>5. ASSUME NEW j \in JobIds, Archive(j) PROVE FALSE
    <3> DEFINE row == [jobs[j] EXCEPT !.archived = TRUE]
    <3>1. jobs[j] \in JobRow
      BY <2>1, <2>5 DEF Archive, TypeOK, OrNull, Exists
    <3>2. row \in JobRow /\ row.retryOf = jobs[j].retryOf /\ row.archived
      BY <3>1 DEF JobRow
    <3>3. Exists(j) /\ jobs' = [jobs EXCEPT ![j] = row]
      BY <2>5 DEF Archive
    <3> QED
      BY <2>1, <3>2, <3>3, SameLinkAcyclic
  <2>6. ASSUME NEW m \in Manifests, Reconcile(m) PROVE Cause
    <3>1. OmitsLink(m) \/ \E j \in JobIds : Conflicting(m, j)
      BY <2>6, ReconcileAcyclic
    <3> QED
      BY <2>2, <2>6, <3>1 DEF Reconciles
  <2>7. Next
    BY <2>2 DEF vars
  <2> QED
    BY <2>3, <2>4, <2>5, <2>6, <2>7 DEF Next
<1>2. [][A]_vars <=> CyclesNeedNamedCause
  BY DEF CyclesNeedNamedCause
<1> QED
  BY <1>1, <1>2, Invariance, PTL DEF Spec

-----------------------------------------------------------------------------
(* A job comes to retry one that is not active, and was not before.        *)
NewlyDangling(j) == Dangling(j)' /\ ~Dangling(j) /\ ~Active(jobs'[j].retryOf)

(* One row is rewritten: a job that comes to dangle, and whose target was  *)
(* not active before either, is that of the row, with a new link.          *)
LEMMA RowDangling ==
  ASSUME TypeOK, NEW j \in JobIds, NEW row, jobs' = [jobs EXCEPT ![j] = row],
         NEW k \in JobIds, NewlyDangling(k)
  PROVE  /\ k = j /\ row = jobs'[k] /\ ~row.archived /\ row.retryOf # Null
         /\ Exists(j) => jobs[j].archived \/ jobs[j].retryOf # row.retryOf
BY DEF NewlyDangling, TypeOK, Dangling, Active, Exists

(* A write of a command leaves a job dangling that did not dangle before:  *)
(* its check of the target would fail now.                                 *)
LEMMA WriteDangling ==
  ASSUME IInv, NEW p \in Procs, Insert(p) \/ Update(p) \/ Link(p),
         NEW k \in JobIds, NewlyDangling(k)
  PROVE  Writes(p) /\ Stale(p) /\ ops[p].target = jobs'[k].retryOf
<1>0. TypeOK /\ ops[p] \in Op
  BY DEF IInv, TypeOK
<1>00. ~Active(jobs'[k].retryOf)
  BY DEF NewlyDangling
<1>1. jobs' # jobs
  BY DEF NewlyDangling, Dangling, Active, Exists
<1>2. Writes(p)
  BY <1>0, <1>1 DEF Writes, Insert, Update, Link, Done, TypeOK
<1>3. CASE Insert(p)
  <2> DEFINE row == [experiment |-> ops[p].experiment, status |-> ops[p].status,
                     retryOf |-> ops[p].target, archived |-> FALSE]
  <2>1. PICK j \in JobIds : jobs' = [jobs EXCEPT ![j] = row]
    BY <1>3 DEF Insert
  <2> HIDE DEF row
  <2>2. row = jobs'[k] /\ row.retryOf # Null
    BY <1>0, <2>1, RowDangling
  <2>3. ops[p].target = jobs'[k].retryOf /\ ops[p].target # Null /\ ops[p].write = "insert"
    BY <1>3, <2>2 DEF Insert, row
  <2> QED
    BY <1>00, <1>2, <2>3 DEF Stale
<1>4. CASE Update(p) \/ Link(p)
  <2> DEFINE j == ops[p].job
  <2>1. j \in JobIds /\ Exists(j) /\ jobs[j] \in JobRow
    BY <1>0, <1>4 DEF IInv, TypeOK, OpsExist, Op, OrNull, Exists, Update, Link
  <2>2. PICK row : row = jobs'[j]
    OBVIOUS
  <2>3. /\ jobs' = [jobs EXCEPT ![j] = row]
        /\ row.archived = jobs[j].archived
        /\ row.retryOf = Coalesce(ops[p].target, jobs[j].retryOf)
    <3>1. CASE Update(p)
      BY <1>0, <2>1, <2>2, <3>1 DEF Update, TypeOK, JobRow
    <3>2. CASE Link(p)
      <4>1. ops[p].target # Null
        BY <3>2 DEF Link, IInv, OpsExist
      <4> QED
        BY <1>0, <2>1, <2>2, <3>2, <4>1 DEF Link, TypeOK, JobRow, Coalesce
    <3> QED
      BY <1>4, <3>1, <3>2
  <2> HIDE DEF j
  <2>4. row = jobs'[k] /\ ~row.archived /\ jobs[j].retryOf # row.retryOf
    <3>1. jobs' = [jobs EXCEPT ![j] = row]
      BY <2>3
    <3>2. /\ row = jobs'[k] /\ ~row.archived
          /\ Exists(j) => jobs[j].archived \/ jobs[j].retryOf # row.retryOf
      BY <1>0, <2>1, <3>1, RowDangling
    <3> QED
      BY <2>1, <2>3, <3>2
  <2>5. ops[p].target = jobs'[k].retryOf /\ ops[p].target # Null
    BY <2>3, <2>4 DEF Coalesce
  <2>6. ops[p].write # "insert"
    BY <1>4 DEF Update, Link
  <2> QED
    BY <1>00, <1>2, <2>5, <2>6 DEF Stale, j, RetryAllowed
<1> QED
  BY <1>3, <1>4

(* A reconcile leaves a job dangling whose target was not active before    *)
(* either: its manifest names that target, or the job with two links.      *)
LEMMA ReconcileDangling ==
  ASSUME IInv, NEW m \in Manifests, Reconcile(m),
         NEW k \in JobIds, NewlyDangling(k)
  PROVE  Conflicting(m, k) \/ \E i \in DOMAIN m : m[i].id = jobs'[k].retryOf
<1> SUFFICES ASSUME \A i \in DOMAIN m : m[i].id # jobs'[k].retryOf, ~Conflicting(m, k)
             PROVE  FALSE
  OBVIOUS
<1> DEFINE t == jobs'[k].retryOf
           d == DecidingRow(m, k)
<1>1. jobs' = AfterReconcile(m) /\ Committable(m) /\ TypeOK
  BY DEF Reconcile, IInv
<1>2. jobs'[k] # Null /\ ~jobs'[k].archived /\ t # Null
  BY DEF NewlyDangling, Dangling, Active, Exists
<1>3. ~(Exists(k) /\ ~jobs[k].archived /\ jobs[k].retryOf = t)
  BY <1>2 DEF NewlyDangling, Dangling, Active
<1>4. Overlaid(m, k) # {} /\ m[d].retryOf = t
  <2>1. CASE ~Exists(k)
    <3>1. Overlaid(m, k) # {} /\ jobs'[k] = FreshRow(m[d])
      BY <1>1, <1>2, <2>1 DEF AfterReconcile
    <3> QED
      BY <3>1 DEF FreshRow
  <2>2. CASE Exists(k)
    <3>1. jobs'[k] = MergedRow(m, k)
      BY <1>1, <2>2 DEF AfterReconcile
    <3>2. PICK i \in Updated(m) : m[i].id = k /\ t = m[i].retryOf
      BY <1>1, <1>2, <1>3, <2>2, <3>1, MergedRowIs
    <3>3. i \in Overlaid(m, k) /\ i \in Upserts(m)
      BY <3>2 DEF Overlaid, Updated, Upserts, Archived
    <3>4. d \in Upserts(m) /\ m[d].id = k
      BY <1>2, <3>3, PlannedRow
    <3> QED
      BY <3>2, <3>3, <3>4 DEF Conflicting
  <2> QED
    BY <2>1, <2>2
<1>5. k \in DOMAIN PlannedLinks(m) /\ PlannedLinks(m)[k] = t
  BY <1>2, <1>4, PlannedRow
<1>6. t \in PlannedJobs(m)
  <2>1. t \in DOMAIN PlannedLinks(m)
    BY <1>1, <1>2, <1>5 DEF Committable, LinksValid
  <2> QED
    BY <2>1 DEF PlannedLinks
<1>7. t \in ActiveJobs
  BY <1>6 DEF PlannedJobs, Overlaid
<1> QED
  BY <1>7 DEF ActiveJobs, NewlyDangling

(* DanglingNeedsNamedCause: an active job comes to retry an archived one   *)
(* when the target is archived under it, through a write whose check       *)
(* _retry_of_id made too early, or through a manifest that names the       *)
(* target, or the job twice with different links.                          *)
THEOREM DanglingCauses == Spec => DanglingNeedsNamedCause
<1> DEFINE Cause(j) ==
             \/ Active(jobs'[j].retryOf)
             \/ \E p \in Procs : Writes(p) /\ Stale(p) /\ ops[p].target = jobs'[j].retryOf
             \/ \E m \in Manifests :
                  /\ Conflicting(m, j) \/ \E i \in DOMAIN m : m[i].id = jobs'[j].retryOf
                  /\ Reconciles(m)
           A == \A j \in JobIds : Dangling(j)' /\ ~Dangling(j) => Cause(j)
<1>1. IInv /\ [Next]_vars => A
  <2> SUFFICES ASSUME IInv, [Next]_vars, NEW j \in JobIds, NewlyDangling(j)
               PROVE  Cause(j)
    BY DEF NewlyDangling
  <2>1. TypeOK /\ jobs' # jobs
    BY DEF IInv, NewlyDangling, Dangling, Active, Exists
  <2>2. ASSUME NEW p \in Procs, Step(p) PROVE Cause(j)
    <3>1. ~Begin(p) /\ ~Abort(p)
      BY <2>1 DEF Begin, AddRead, UpsertRead, LinkRead, Decide, Abort
    <3>2. Insert(p) \/ Update(p) \/ Link(p)
      BY <2>2, <3>1 DEF Step
    <3> QED
      BY <3>2, WriteDangling
  <2>3. ASSUME NEW k \in JobIds, NEW s \in GivenStatuses, UpdateStatus(k, s) PROVE FALSE
    <3> DEFINE row == [jobs[k] EXCEPT !.status = s]
    <3>1. Exists(k) /\ jobs[k] \in JobRow /\ jobs' = [jobs EXCEPT ![k] = row]
      BY <2>1, <2>3 DEF UpdateStatus, TypeOK, OrNull, Exists
    <3>2. row.retryOf = jobs[k].retryOf /\ row.archived = jobs[k].archived
      BY <3>1 DEF JobRow
    <3> QED
      BY <2>1, <3>1, <3>2, RowDangling
  <2>4. ASSUME NEW k \in JobIds, Archive(k) PROVE FALSE
    <3> DEFINE row == [jobs[k] EXCEPT !.archived = TRUE]
    <3>1. Exists(k) /\ jobs[k] \in JobRow /\ jobs' = [jobs EXCEPT ![k] = row]
      BY <2>1, <2>4 DEF Archive, TypeOK, OrNull, Exists
    <3>2. row.archived
      BY <3>1 DEF JobRow
    <3> QED
      BY <2>1, <3>1, <3>2, RowDangling
  <2>5. ASSUME NEW m \in Manifests, Reconcile(m) PROVE Cause(j)
    <3>1. Reconciles(m)
      BY <2>1, <2>5 DEF Reconciles
    <3> QED
      BY <2>5, <3>1, ReconcileDangling
  <2>6. Next
    BY <2>1 DEF vars
  <2> QED
    BY <2>2, <2>3, <2>4, <2>5, <2>6 DEF Next
<1>2. IInv /\ [Next]_vars => [A]_vars
  BY <1>1
<1>3. [][A]_vars <=> DanglingNeedsNamedCause
  BY DEF DanglingNeedsNamedCause
<1> QED
  BY <1>2, <1>3, Invariance, PTL DEF Spec

-----------------------------------------------------------------------------
(* The walk of doctor's _retry_cycles, for any length.                     *)
IsWalk(at, start, last) ==
  at = [n \in 0 .. last |-> IF n = 0 THEN start
          ELSE IF at[n - 1] = Null THEN Null ELSE NextJob(at[n - 1])]

(* There is a walk of every length: the least length without one would     *)
(* extend the walk that is shorter by one.                                 *)
LEMMA WalkExists ==
  ASSUME NEW start, NEW last \in Nat
  PROVE  \E at : IsWalk(at, start, last)
<1> DEFINE Short == {m \in Nat : ~ \E at : IsWalk(at, start, m)}
<1> SUFFICES ASSUME Short # {} PROVE FALSE
  OBVIOUS
<1>1. PICK m \in Short : \A k \in Short : m <= k
  <2>1. Short \subseteq Nat
    OBVIOUS
  <2> HIDE DEF Short
  <2> QED
    BY <2>1, LeastNatural
<1>2. m \in Nat /\ ~ \E at : IsWalk(at, start, m)
  OBVIOUS
<1>3. m # 0
  <2>1. IsWalk([n \in 0 .. 0 |-> start], start, 0)
    BY DEF IsWalk
  <2> QED
    BY <1>2, <2>1
<1>4. PICK f : IsWalk(f, start, m - 1)
  <2>1. m - 1 \in Nat /\ ~(m <= m - 1)
    BY <1>2, <1>3
  <2>2. m - 1 \notin Short
    <3> HIDE DEF Short
    <3> QED BY <1>1, <2>1
  <2> QED
    BY <2>1, <2>2
<1> DEFINE g == [n \in 0 .. m |-> IF n < m THEN f[n]
                   ELSE IF f[m - 1] = Null THEN Null ELSE NextJob(f[m - 1])]
<1>5. ASSUME NEW n \in 0 .. m
      PROVE  g[n] = IF n = 0 THEN start
                    ELSE IF g[n - 1] = Null THEN Null ELSE NextJob(g[n - 1])
  <2>1. CASE n = m
    BY <1>2, <1>3, <2>1
  <2>2. CASE n < m
    <3>1. n \in 0 .. m - 1 /\ g[n] = f[n] /\ (n # 0 => g[n - 1] = f[n - 1])
      BY <1>2, <2>2
    <3>2. f[n] = IF n = 0 THEN start
                 ELSE IF f[n - 1] = Null THEN Null ELSE NextJob(f[n - 1])
      BY <3>1, <1>4 DEF IsWalk
    <3> QED
      BY <3>1, <3>2
  <2> QED
    BY <1>2, <2>1, <2>2
<1>6. IsWalk(g, start, m)
  BY <1>5 DEF IsWalk
<1> QED
  BY <1>2, <1>6

(* WalkFrom, the function that the model defines, is such a walk.          *)
LEMMA WalkIsWalk ==
  ASSUME NEW start, NEW last \in Nat
  PROVE  IsWalk(WalkFrom(start, last), start, last)
<1>1. WalkFrom(start, last) = CHOOSE at : IsWalk(at, start, last)
  BY DEF WalkFrom, IsWalk
<1> QED
  BY <1>1, WalkExists

(* The link of a job leads to a job or nowhere.                            *)
LEMMA NextJobType ==
  ASSUME TypeOK, NEW j \in JobIds
  PROVE  NextJob(j) \in OrNull(JobIds)
BY DEF TypeOK, NextJob, Active, Exists, OrNull, JobRow

(* What the proofs below use of a walk.                                    *)
Walks(at, start, last) ==
  /\ last \in Nat
  /\ at \in [0 .. last -> OrNull(JobIds)]
  /\ at[0] = start
  /\ \A n \in 0 .. last : n # 0 /\ at[n] # Null => at[n - 1] # Null
  /\ \A n \in 0 .. last : n # 0 /\ at[n - 1] # Null => at[n] = NextJob(at[n - 1])

(* These facts hold of every walk from a job.                              *)
LEMMA WalkFacts ==
  ASSUME TypeOK, NEW start \in JobIds, NEW last \in Nat
  PROVE  Walks(WalkFrom(start, last), start, last)
<1> DEFINE at == WalkFrom(start, last)
<1>1. last \in Nat
  OBVIOUS
<1>2. IsWalk(at, start, last)
  BY WalkIsWalk
<1> HIDE DEF at
<1>3. /\ DOMAIN at = 0 .. last
      /\ \A n \in 0 .. last :
           at[n] = IF n = 0 THEN start
                   ELSE IF at[n - 1] = Null THEN Null ELSE NextJob(at[n - 1])
  BY <1>2 DEF IsWalk
<1>4. \A n \in 0 .. last : at[n] \in OrNull(JobIds)
  <2> DEFINE Out == {n \in 0 .. last : at[n] \notin OrNull(JobIds)}
  <2> SUFFICES ASSUME Out # {} PROVE FALSE
    OBVIOUS
  <2>1. PICK n \in Out : \A k \in Out : n <= k
    <3>1. Out \subseteq Nat
      BY <1>1
    <3> HIDE DEF Out
    <3> QED
      BY <3>1, LeastNatural
  <2>2. n \in 0 .. last /\ n # 0
    BY <1>1, <1>3 DEF OrNull
  <2>3. n - 1 \in 0 .. last /\ at[n - 1] \in OrNull(JobIds)
    BY <1>1, <2>1, <2>2
  <2>4. at[n] \in OrNull(JobIds)
    BY <1>3, <2>2, <2>3, NextJobType DEF OrNull
  <2> QED
    BY <2>4
<1>5. IsWalk(at, start, last) => at = [n \in 0 .. last |-> at[n]]
  BY DEF IsWalk
<1>6. Walks(at, start, last)
  BY <1>1, <1>2, <1>3, <1>4, <1>5 DEF Walks
<1> QED
  BY <1>6 DEF at

(* The walk of doctor is one of them.                                      *)
LEMMA DoctorWalks ==
  ASSUME TypeOK, NEW start \in JobIds
  PROVE  Walks(Walk(start), start, Cardinality(JobIds))
<1>1. Cardinality(JobIds) \in Nat
  BY JobIdsAssumption, FS_CardinalityType
<1> QED
  BY <1>1, WalkFacts DEF Walk

(* A walk that has not ended had not ended before.                         *)
LEMMA WalkNotNull ==
  ASSUME NEW at, NEW start, NEW last, Walks(at, start, last),
         NEW n \in 0 .. last, NEW k \in 0 .. n, at[n] # Null
  PROVE  at[k] # Null
<1> DEFINE Set == {i \in k .. n : at[i] # Null}
<1>1. last \in Nat /\ n \in Nat /\ k \in Nat /\ n \in Set
  BY DEF Walks
<1>2. PICK i \in Set : \A l \in Set : i <= l
  <2>1. Set \subseteq Nat /\ Set # {}
    BY <1>1
  <2> HIDE DEF Set
  <2> QED
    BY <2>1, LeastNatural
<1>3. i = k
  <2> SUFFICES ASSUME i # k PROVE FALSE
    OBVIOUS
  <2>1. i \in 0 .. last /\ i # 0 /\ at[i] # Null /\ i - 1 \in k .. n
    BY <1>1
  <2>2. at[i - 1] # Null
    BY <2>1 DEF Walks
  <2>3. i - 1 \in Set
    BY <2>1, <2>2
  <2>4. i <= i - 1
    <3> HIDE DEF Set
    <3> QED BY <1>2, <2>3
  <2> QED
    BY <1>1, <2>1, <2>4
<1> QED
  BY <1>2, <1>3

(* A walk does not leave a set of jobs that is closed under their links.   *)
LEMMA WalkStaysIn ==
  ASSUME NEW at, NEW start, NEW last, Walks(at, start, last),
         NEW S \in SUBSET JobIds, Closed(S),
         NEW n \in 0 .. last, NEW k \in 0 .. n, at[n] # Null, at[k] \in S
  PROVE  at[n] \in S
<1> DEFINE Out == {i \in k .. n : at[i] \notin S}
<1>1. last \in Nat /\ n \in Nat /\ k \in Nat
  BY DEF Walks
<1> SUFFICES ASSUME at[n] \notin S PROVE FALSE
  OBVIOUS
<1>2. PICK i \in Out : \A l \in Out : i <= l
  <2>1. Out \subseteq Nat /\ Out # {}
    BY <1>1
  <2> HIDE DEF Out
  <2> QED
    BY <2>1, LeastNatural
<1>3. i \in k .. n /\ i # k /\ at[i] \notin S
  OBVIOUS
<1>4. i - 1 \in k .. n /\ i - 1 \in 0 .. n /\ i \in 0 .. n /\ i \in 0 .. last /\ i # 0
  BY <1>1, <1>3
<1>5. at[i - 1] \in S
  <2>1. i - 1 \notin Out
    <3> HIDE DEF Out
    <3> QED BY <1>1, <1>2, <1>3, <1>4
  <2> QED
    BY <2>1, <1>4
<1>6. at[i] # Null /\ at[i - 1] # Null
  BY <1>4, WalkNotNull
<1>7. at[i] = NextJob(at[i - 1])
  BY <1>4, <1>6 DEF Walks
<1>8. at[i] \in S
  BY <1>5, <1>6, <1>7 DEF NextJob, Closed
<1> QED
  BY <1>3, <1>8

(* What doctor reports is a cycle: from the job that is met twice on, all  *)
(* jobs of the walk lie in each closed set that holds one of them.         *)
LEMMA ReportedOnCycle ==
  ASSUME TypeOK, NEW start \in ActiveJobs, NEW j \in CycleFrom(start)
  PROVE  OnCycle(j)
<1> DEFINE at == Walk(start)
           last == Cardinality(JobIds)
<1>1. Walks(at, start, last)
  BY DoctorWalks DEF ActiveJobs
<1>2. PICK k, i, n \in DOMAIN at : k <= i /\ i < n /\ at[i] = j /\ at[n] = at[k]
  BY DEF CycleFrom
<1>3. j \in JobIds
  BY DEF CycleFrom
<1> HIDE DEF at, last
<1>4. k \in 0 .. i /\ i \in 0 .. last /\ n \in 0 .. last /\ i + 1 \in 0 .. n
  BY <1>1, <1>2 DEF Walks
<1>5. at[i] # Null /\ at[k] # Null /\ at[n] # Null
  <2>1. j # Null
    BY <1>3, NullIsNoRow
  <2> QED
    BY <1>1, <1>2, <1>4, <2>1, WalkNotNull
<1>6. at[i + 1] # Null /\ at[i + 1] = NextJob(j)
  <2>1. i + 1 \in 0 .. last /\ i + 1 # 0 /\ (i + 1) - 1 = i
    BY <1>1, <1>4 DEF Walks
  <2>2. at[i + 1] # Null
    BY <1>1, <1>4, <1>5, WalkNotNull
  <2> QED
    BY <1>1, <1>2, <1>5, <2>1, <2>2 DEF Walks
<1>7. Active(j) /\ jobs[j].retryOf # Null /\ jobs[j].retryOf = at[i + 1]
  BY <1>6 DEF NextJob
<1>8. ASSUME NEW S \in SUBSET JobIds, at[i + 1] \in S, Closed(S) PROVE j \in S
  <2>1. at[n] \in S
    BY <1>1, <1>4, <1>5, <1>8, WalkStaysIn
  <2>2. at[k] \in S
    BY <1>2, <2>1
  <2>3. at[i] \in S
    BY <1>1, <1>4, <1>5, <1>8, <2>2, WalkStaysIn
  <2> QED
    BY <1>2, <2>3
<1> QED
  BY <1>7, <1>8 DEF OnCycle, RetryChainContains

(* A walk that has come back to a job repeats itself from there on.        *)
LEMMA WalkRepeats ==
  ASSUME NEW at, NEW start, NEW last, Walks(at, start, last),
         NEW top \in 0 .. last, at[top] # Null,
         NEW a \in 0 .. top, NEW b \in 0 .. top, at[a] = at[b],
         NEW d \in Nat, a + d <= top, b + d <= top
  PROVE  at[a + d] = at[b + d]
<1> DEFINE Differ == {e \in 0 .. d : at[a + e] # at[b + e]}
<1> SUFFICES ASSUME at[a + d] # at[b + d] PROVE FALSE
  OBVIOUS
<1>1. last \in Nat /\ top \in Nat /\ a \in Nat /\ b \in Nat
  BY DEF Walks
<1>2. PICK e \in Differ : \A l \in Differ : e <= l
  <2>1. Differ \subseteq Nat /\ d \in Differ
    OBVIOUS
  <2> HIDE DEF Differ
  <2> QED
    BY <2>1, LeastNatural
<1>3. e \in 0 .. d /\ at[a + e] # at[b + e]
  OBVIOUS
<1>4. e # 0
  BY <1>1, <1>3
<1>5. e - 1 \in 0 .. d /\ ~(e <= e - 1)
  BY <1>3, <1>4
<1>6. at[a + (e - 1)] = at[b + (e - 1)]
  <2>1. e - 1 \notin Differ
    <3> HIDE DEF Differ
    <3> QED BY <1>2, <1>5
  <2> QED
    BY <2>1, <1>5
<1>7. /\ a + e \in 0 .. last /\ a + e # 0 /\ (a + e) - 1 = a + (e - 1)
      /\ b + e \in 0 .. last /\ b + e # 0 /\ (b + e) - 1 = b + (e - 1)
      /\ a + (e - 1) \in 0 .. top /\ b + (e - 1) \in 0 .. top
  BY <1>1, <1>3, <1>4
<1>8. at[a + (e - 1)] # Null /\ at[b + (e - 1)] # Null
  BY <1>7, WalkNotNull
<1>9. at[a + e] = NextJob(at[a + (e - 1)]) /\ at[b + e] = NextJob(at[b + (e - 1)])
  BY <1>7, <1>8 DEF Walks
<1> QED
  BY <1>3, <1>6, <1>9

(* A walk as long as there are jobs, which has not ended, has met some job *)
(* twice: what comes after its end lies within it.                         *)
LEMMA WalkWraps ==
  ASSUME NEW at, NEW start, NEW last, Walks(at, start, last),
         last = Cardinality(JobIds), at[last] # Null
  PROVE  \E n \in 0 .. last : n # 0 /\ at[n] = NextJob(at[last])
<1>1. last \in Nat /\ IsFiniteSet(0 .. last) /\ Cardinality(0 .. last) = last + 1
  <2>1. last \in Nat
    BY DEF Walks
  <2>2. 0 \in Int /\ last \in Int /\ (0 <= last)
    BY <2>1
  <2> QED
    BY <2>1, <2>2, FS_Interval
<1>2. at \in [0 .. last -> JobIds]
  <2>1. \A n \in 0 .. last : at[n] # Null
    <3>1. last \in 0 .. last
      BY <1>1
    <3> QED
      BY <3>1, WalkNotNull
  <2> QED
    BY <2>1 DEF Walks, OrNull
<1>3. \E x, y \in 0 .. last : x # y /\ at[x] = at[y]
  <2>1. Cardinality(JobIds) < Cardinality(0 .. last)
    BY <1>1
  <2> QED
    BY <1>1, <1>2, <2>1, JobIdsAssumption, FS_PigeonHole
<1>4. PICK a, b \in 0 .. last : a < b /\ at[a] = at[b]
  BY <1>1, <1>3
<1> DEFINE d == last - b
           n == a + d
<1>5. /\ d \in Nat /\ b + d = last /\ n \in 0 .. last /\ n + 1 \in 0 .. last
      /\ n <= last /\ n + 1 # 0 /\ (n + 1) - 1 = n
  BY <1>1, <1>4
<1> HIDE DEF d
<1>6. at[n] = at[last]
  <2>1. a + d <= last /\ b + d <= last
    BY <1>1, <1>5
  <2>2. at[a + d] = at[b + d]
    BY <1>4, <1>5, <2>1, WalkRepeats
  <2> QED
    BY <1>5, <2>2
<1> HIDE DEF n
<1>7. at[n + 1] = NextJob(at[n])
  BY <1>5, <1>6 DEF Walks
<1> QED
  BY <1>5, <1>6, <1>7

(* Doctor reports each cycle: the jobs that the walk from j visits after j *)
(* are closed under their links, since the walk is long enough to wrap, so *)
(* that j, which its own chain leads back to, is one of them.              *)
LEMMA OnCycleReported ==
  ASSUME TypeOK, NEW j \in JobIds, OnCycle(j)
  PROVE  j \in ActiveJobs /\ MeetsItself(j) /\ j \in CycleFrom(j)
<1> DEFINE at == Walk(j)
           last == Cardinality(JobIds)
           S == {x \in JobIds : \E n \in 0 .. last : n # 0 /\ at[n] = x}
<1>1. Walks(at, j, last)
  BY DoctorWalks
<1>2. last \in Nat /\ last # 0 /\ DOMAIN at = 0 .. last
  <2>1. last \in Nat /\ DOMAIN at = 0 .. last
    BY <1>1 DEF Walks
  <2>2. last # 0
    BY JobIdsAssumption, FS_EmptySet
  <2> QED
    BY <2>1, <2>2
<1>3. j # Null
  BY NullIsNoRow
<1> HIDE DEF at, last
<1>4. jobs[j].retryOf \in S
  <2>1. 0 \in 0 .. last /\ 1 \in 0 .. last /\ 1 - 1 = 0
    BY <1>2
  <2>2. at[1] = NextJob(j)
    BY <1>1, <1>3, <2>1 DEF Walks
  <2>3. NextJob(j) = jobs[j].retryOf /\ NextJob(j) # Null
    BY DEF NextJob, OnCycle
  <2>4. NextJob(j) \in JobIds
    BY <2>3, NextJobType DEF OrNull
  <2> QED
    BY <2>1, <2>2, <2>3, <2>4
<1>5. Closed(S)
  <2> SUFFICES ASSUME NEW x \in S, Active(x), jobs[x].retryOf # Null
               PROVE  jobs[x].retryOf \in S
    BY DEF Closed
  <2>1. PICK n \in 0 .. last : n # 0 /\ at[n] = x
    OBVIOUS
  <2>2. NextJob(x) = jobs[x].retryOf /\ NextJob(x) \in JobIds /\ x # Null
    BY NextJobType, NullIsNoRow DEF NextJob, OrNull
  <2>3. CASE n = last
    <3>1. \E k \in 0 .. last : k # 0 /\ at[k] = NextJob(at[last])
      BY <1>1, <2>1, <2>2, <2>3, WalkWraps DEF last
    <3> QED
      BY <2>1, <2>2, <2>3, <3>1
  <2>4. CASE n # last
    <3>1. n + 1 \in 0 .. last /\ n + 1 # 0 /\ (n + 1) - 1 = n
      BY <1>2, <2>4
    <3>2. at[n + 1] = NextJob(x)
      BY <1>1, <2>1, <2>2, <3>1 DEF Walks
    <3> QED
      BY <2>2, <3>1, <3>2
  <2> QED
    BY <2>3, <2>4
<1>6. j \in S
  <2>1. S \in SUBSET JobIds
    OBVIOUS
  <2> HIDE DEF S
  <2> QED
    BY <1>4, <1>5, <2>1 DEF OnCycle, RetryChainContains
<1>7. PICK n \in 0 .. last : n # 0 /\ at[n] = j
  BY <1>6
<1>8. 0 \in DOMAIN at /\ n \in DOMAIN at /\ 0 < n /\ at[0] = j
  BY <1>1, <1>2, <1>7 DEF Walks
<1>9. \E m \in DOMAIN at : at[m] # Null /\ \E k \in DOMAIN at : k < m /\ at[k] = at[m]
  BY <1>3, <1>7, <1>8
<1>10. \E k, i, m \in DOMAIN at : k <= i /\ i < m /\ at[i] = j /\ at[m] = at[k]
  BY <1>7, <1>8
<1>11. j \in ActiveJobs
  BY DEF ActiveJobs, OnCycle
<1> QED
  BY <1>9, <1>10, <1>11 DEF at, MeetsItself, CycleFrom

(* doctor's cycles are the cycles, in every state with a typed jobs table. *)
LEMMA CyclesReported == TypeOK => DoctorReportsEveryCycle
<1> SUFFICES ASSUME TypeOK PROVE DoctorReportsEveryCycle
  OBVIOUS
<1>1. ASSUME NEW j \in UNION RetryCycles PROVE j \in JobIds /\ OnCycle(j)
  <2>1. PICK start \in ActiveJobs : j \in CycleFrom(start)
    BY DEF RetryCycles
  <2>2. j \in JobIds
    BY <2>1 DEF CycleFrom
  <2> QED
    BY <2>1, <2>2, ReportedOnCycle
<1>2. ASSUME NEW j \in JobIds, OnCycle(j) PROVE j \in UNION RetryCycles
  BY <1>2, OnCycleReported DEF RetryCycles
<1> QED
  BY <1>1, <1>2 DEF DoctorReportsEveryCycle

-----------------------------------------------------------------------------
(* The recursion of the recovery view, for any depth.                      *)
IsEdges(at, root, last) ==
  at = [n \in 1 .. last |->
          IF n = 1 THEN {[job |-> d, path |-> {root, d}] : d \in Retries(root)}
          ELSE UNION {{[job |-> d, path |-> e.path \cup {d}] : d \in Retries(e.job) \ e.path} :
                      e \in at[n - 1]}]

(* It is defined at every depth.                                           *)
LEMMA EdgesExist ==
  ASSUME NEW root, NEW last \in Nat
  PROVE  \E at : IsEdges(at, root, last)
<1> DEFINE Short == {m \in Nat : ~ \E at : IsEdges(at, root, m)}
           First == {[job |-> d, path |-> {root, d}] : d \in Retries(root)}
           Further(E) ==
             UNION {{[job |-> d, path |-> e.path \cup {d}] : d \in Retries(e.job) \ e.path} :
                    e \in E}
<1> SUFFICES ASSUME Short # {} PROVE FALSE
  OBVIOUS
<1>1. PICK m \in Short : \A k \in Short : m <= k
  <2>1. Short \subseteq Nat
    OBVIOUS
  <2> HIDE DEF Short
  <2> QED
    BY <2>1, LeastNatural
<1>2. m \in Nat /\ ~ \E at : IsEdges(at, root, m)
  OBVIOUS
<1>3. m # 0
  <2>1. IsEdges([n \in 1 .. 0 |-> {}], root, 0)
    BY DEF IsEdges
  <2> QED
    BY <1>2, <2>1
<1>4. PICK f : IsEdges(f, root, m - 1)
  <2>1. m - 1 \in Nat /\ ~(m <= m - 1)
    BY <1>2, <1>3
  <2>2. m - 1 \notin Short
    <3> HIDE DEF Short
    <3> QED BY <1>1, <2>1
  <2> QED
    BY <2>1, <2>2
<1> DEFINE g == [n \in 1 .. m |-> IF n < m THEN f[n]
                   ELSE IF m = 1 THEN First ELSE Further(f[m - 1])]
<1> HIDE DEF First, Further
<1>5. ASSUME NEW n \in 1 .. m
      PROVE  g[n] = IF n = 1 THEN First ELSE Further(g[n - 1])
  <2>1. CASE n = m
    BY <1>2, <1>3, <2>1
  <2>2. CASE n < m
    <3>1. n \in 1 .. m - 1 /\ g[n] = f[n] /\ (n # 1 => g[n - 1] = f[n - 1])
      BY <1>2, <2>2
    <3>2. f[n] = IF n = 1 THEN First ELSE Further(f[n - 1])
      BY <3>1, <1>4 DEF IsEdges, First, Further
    <3> QED
      BY <3>1, <3>2
  <2> QED
    BY <1>2, <2>1, <2>2
<1>6. g = [n \in 1 .. m |-> IF n = 1 THEN First ELSE Further(g[n - 1])]
  <2> HIDE DEF g
  <2>1. g = [n \in 1 .. m |-> g[n]]
    BY DEF g
  <2> QED
    BY <1>5, <2>1
<1>7. IsEdges(g, root, m)
  <2> HIDE DEF g
  <2> QED
    BY <1>6 DEF IsEdges, First, Further
<1> QED
  BY <1>2, <1>7

(* What is at each depth: a retry of what is at the depth before, off its  *)
(* path.                                                                   *)
Edges(at, root) ==
  /\ DOMAIN at = 1 .. MaxDepth
  /\ at[1] = {[job |-> d, path |-> {root, d}] : d \in Retries(root)}
  /\ \A n \in 2 .. MaxDepth :
       at[n] = UNION {{[job |-> d, path |-> e.path \cup {d}] : d \in Retries(e.job) \ e.path} :
                      e \in at[n - 1]}

LEMMA EdgesFacts ==
  ASSUME NEW root
  PROVE  Edges(RetryEdges(root), root)
<1>1. MaxDepth \in Nat /\ MaxDepth >= 1
  BY DepthAssumption
<1>2. RetryEdges(root) = CHOOSE at : IsEdges(at, root, MaxDepth)
  BY DEF RetryEdges, IsEdges
<1>3. IsEdges(RetryEdges(root), root, MaxDepth)
  BY <1>1, <1>2, EdgesExist
<1>4. PICK at : at = RetryEdges(root)
  OBVIOUS
<1> DEFINE Level(n) ==
             IF n = 1 THEN {[job |-> d, path |-> {root, d}] : d \in Retries(root)}
             ELSE UNION {{[job |-> d, path |-> e.path \cup {d}] : d \in Retries(e.job) \ e.path} :
                         e \in at[n - 1]}
<1>5. at = [n \in 1 .. MaxDepth |-> Level(n)]
  BY <1>3, <1>4 DEF IsEdges
<1>6. DOMAIN at = 1 .. MaxDepth /\ \A n \in 1 .. MaxDepth : at[n] = Level(n)
  <2> HIDE DEF Level
  <2> QED
    BY <1>5
<1>7. Edges(at, root)
  BY <1>1, <1>6 DEF Edges
<1> QED
  BY <1>4, <1>7

(* The walk from a job runs along that from its retry, one link later.     *)
LEMMA WalkShifts ==
  ASSUME NEW at, NEW bt, NEW c, NEW d, NEW last,
         Walks(at, c, last), Walks(bt, d, last), c # Null, NextJob(c) = d,
         NEW n \in 0 .. last - 1, bt[n] # Null
  PROVE  at[n + 1] = bt[n]
<1> DEFINE Differ == {i \in 0 .. n : at[i + 1] # bt[i]}
<1> SUFFICES ASSUME at[n + 1] # bt[n] PROVE FALSE
  OBVIOUS
<1>1. last \in Nat /\ n \in Nat
  BY DEF Walks
<1>2. PICK i \in Differ : \A l \in Differ : i <= l
  <2>1. Differ \subseteq Nat /\ n \in Differ
    BY <1>1
  <2> HIDE DEF Differ
  <2> QED
    BY <2>1, LeastNatural
<1>3. i \in 0 .. n /\ at[i + 1] # bt[i]
  OBVIOUS
<1>4. i # 0
  <2>1. at[1] = NextJob(at[0]) /\ at[0] = c /\ bt[0] = d
    BY <1>1 DEF Walks
  <2> QED
    BY <1>3, <2>1
<1>5. i - 1 \in 0 .. n /\ ~(i <= i - 1) /\ i \in 0 .. last /\ i + 1 \in 0 .. last
  BY <1>1, <1>3, <1>4
<1>6. at[i] = bt[i - 1]
  <2>1. i - 1 \notin Differ
    <3> HIDE DEF Differ
    <3> QED BY <1>2, <1>5
  <2>2. (i - 1) + 1 = i
    BY <1>5
  <2> QED
    BY <1>5, <2>1, <2>2
<1>7. bt[i] # Null /\ bt[i - 1] # Null
  <2>1. n \in 0 .. last /\ i - 1 \in 0 .. n
    BY <1>1, <1>5
  <2> QED
    BY <1>3, <2>1, WalkNotNull
<1>8. bt[i] = NextJob(bt[i - 1]) /\ at[i + 1] = NextJob(at[(i + 1) - 1]) /\ (i + 1) - 1 = i
  BY <1>1, <1>4, <1>5, <1>6, <1>7 DEF Walks
<1> QED
  BY <1>3, <1>6, <1>8

(* The retry of a job is one link from it.                                 *)
LEMMA RetryIs ==
  ASSUME NEW j \in JobIds, NEW d \in Retries(j)
  PROVE  d \in ActiveJobs /\ d \in JobIds /\ Active(d) /\ jobs[d].retryOf = j /\ NextJob(d) = j
BY DEF Retries, ActiveJobs, NextJob

(* What the view finds at a depth: active jobs, that many links from the   *)
(* root, and none of them the root but for the first link.                 *)
LEMMA EdgeReaches ==
  ASSUME TypeOK, NEW root \in JobIds, NEW n \in 1 .. MaxDepth,
         NEW e \in RetryEdges(root)[n]
  PROVE  /\ e.job \in ActiveJobs
         /\ e.job # root \/ n = 1
         /\ WalkFrom(e.job, MaxDepth)[n] = root
<1> DEFINE at == RetryEdges(root)
           Right(k, f) == /\ f.job \in ActiveJobs /\ root \in f.path
                          /\ f.job # root \/ k = 1
                          /\ WalkFrom(f.job, MaxDepth)[k] = root
           Wrong == {k \in 1 .. MaxDepth : \E f \in at[k] : ~Right(k, f)}
<1>1. Edges(at, root) /\ MaxDepth \in Nat
  BY EdgesFacts, DepthAssumption
<1>2. root # Null
  BY NullIsNoRow
<1> HIDE DEF at
<1>3. Wrong = {}
  <2> SUFFICES ASSUME Wrong # {} PROVE FALSE
    OBVIOUS
  <2>1. PICK k \in Wrong : \A l \in Wrong : k <= l
    <3>1. Wrong \subseteq Nat
      OBVIOUS
    <3> HIDE DEF Wrong
    <3> QED
      BY <3>1, LeastNatural
  <2>2. PICK f \in at[k] : ~Right(k, f)
    OBVIOUS
  <2>3. k \in 1 .. MaxDepth
    OBVIOUS
  <2>4. k # 1
    <3> SUFFICES ASSUME k = 1 PROVE FALSE
      OBVIOUS
    <3>1. PICK d \in Retries(root) : f = [job |-> d, path |-> {root, d}]
      BY <1>1, <2>2 DEF Edges
    <3>2. d \in ActiveJobs /\ d \in JobIds /\ NextJob(d) = root /\ f.job = d /\ root \in f.path
      BY <3>1, RetryIs
    <3>3. WalkFrom(d, MaxDepth)[1] = root
      <4>1. Walks(WalkFrom(d, MaxDepth), d, MaxDepth)
        BY <1>1, <3>2, WalkFacts
      <4>2. d # Null /\ 1 \in 0 .. MaxDepth /\ 1 - 1 = 0
        BY <1>1, <2>3, <3>2, NullIsNoRow
      <4> QED
        BY <3>2, <4>1, <4>2 DEF Walks
    <3> QED
      BY <2>2, <3>2, <3>3
  <2>5. k \in 2 .. MaxDepth /\ k - 1 \in 1 .. MaxDepth /\ ~(k <= k - 1)
    BY <1>1, <2>3, <2>4
  <2>6. PICK h \in at[k - 1] : \E d \in Retries(h.job) \ h.path :
                                 f = [job |-> d, path |-> h.path \cup {d}]
    BY <1>1, <2>2, <2>5 DEF Edges
  <2>7. Right(k - 1, h)
    <3>1. k - 1 \notin Wrong
      <4> HIDE DEF Wrong
      <4> QED BY <2>1, <2>5
    <3> QED
      BY <2>5, <2>6, <3>1
  <2>8. PICK d \in Retries(h.job) \ h.path : f = [job |-> d, path |-> h.path \cup {d}]
    BY <2>6
  <2>9. h.job \in JobIds /\ d \in ActiveJobs /\ d \in JobIds /\ NextJob(d) = h.job
    BY <2>7, <2>8, RetryIs DEF ActiveJobs
  <2>10. f.job = d /\ root \in f.path /\ d # root
    BY <2>7, <2>8
  <2>11. WalkFrom(d, MaxDepth)[k] = root
    <3>1. /\ Walks(WalkFrom(d, MaxDepth), d, MaxDepth)
          /\ Walks(WalkFrom(h.job, MaxDepth), h.job, MaxDepth)
      BY <1>1, <2>9, WalkFacts
    <3>2. k - 1 \in 0 .. MaxDepth - 1 /\ (k - 1) + 1 = k /\ d # Null
      BY <1>1, <2>5, <2>9, NullIsNoRow
    <3>3. WalkFrom(h.job, MaxDepth)[k - 1] = root
      BY <2>7
    <3>4. WalkFrom(d, MaxDepth)[(k - 1) + 1] = WalkFrom(h.job, MaxDepth)[k - 1]
      BY <1>2, <2>9, <3>1, <3>2, <3>3, WalkShifts
    <3> QED
      BY <3>2, <3>3, <3>4
  <2> QED
    BY <2>2, <2>9, <2>10, <2>11
<1>4. e \in at[n] /\ n \notin Wrong
  BY <1>3 DEF at
<1>5. Right(n, e)
  BY <1>4
<1> QED
  BY <1>5

(* The view finds every job whose chain first comes to the root at a depth *)
(* it follows: seen from the root, the walk adds a job off the path.       *)
LEMMA ChainIsFound ==
  ASSUME TypeOK, NEW root \in JobIds, NEW d \in ActiveJobs,
         d # root \/ jobs[root].retryOf = root, NEW n \in 1 .. MaxDepth,
         WalkFrom(d, MaxDepth)[n] = root,
         \A k \in 1 .. n - 1 : WalkFrom(d, MaxDepth)[k] # root
  PROVE  \E e \in RetryEdges(root)[n] : e.job = d
<1> DEFINE at == RetryEdges(root)
           w == WalkFrom(d, MaxDepth)
           Found(k) == [job |-> w[n - k], path |-> {w[i] : i \in n - k .. n}] \in at[k]
           Lost == {k \in 1 .. n : ~Found(k)}
<1>1. Edges(at, root) /\ MaxDepth \in Nat /\ n \in Nat /\ n \in 0 .. MaxDepth
  BY EdgesFacts, DepthAssumption
<1>2. Walks(w, d, MaxDepth) /\ d \in JobIds /\ Active(d)
  BY <1>1, WalkFacts DEF ActiveJobs
<1>3. w[n] = root /\ root # Null /\ \A k \in 1 .. n - 1 : w[k] # root
  BY NullIsNoRow
<1> HIDE DEF at, w
<1>4. ASSUME NEW i \in 0 .. n - 1 PROVE w[i] \in Retries(w[i + 1])
  <2>1. i + 1 \in 0 .. n /\ i + 1 \in 0 .. MaxDepth /\ i \in 0 .. MaxDepth
        /\ i + 1 # 0 /\ (i + 1) - 1 = i
    BY <1>1
  <2>2. w[i + 1] # Null /\ w[i] # Null
    <3>1. w[n] # Null /\ i \in 0 .. n /\ i + 1 \in 0 .. n
      BY <1>1, <1>3, <2>1
    <3>2. ASSUME NEW k \in 0 .. n PROVE w[k] # Null
      BY <1>1, <1>2, <3>1, WalkNotNull
    <3> QED
      BY <3>1, <3>2
  <2>3. w[i + 1] = NextJob(w[i]) /\ w[i] \in JobIds
    BY <1>2, <2>1, <2>2 DEF Walks, OrNull
  <2> QED
    BY <2>2, <2>3 DEF NextJob, Retries, ActiveJobs
<1>5. Lost = {}
  <2> SUFFICES ASSUME Lost # {} PROVE FALSE
    OBVIOUS
  <2>1. PICK k \in Lost : \A l \in Lost : k <= l
    <3>1. Lost \subseteq Nat
      OBVIOUS
    <3> HIDE DEF Lost
    <3> QED
      BY <3>1, LeastNatural
  <2>2. k \in 1 .. n /\ ~Found(k)
    OBVIOUS
  <2>3. k # 1
    <3> SUFFICES ASSUME k = 1 PROVE FALSE
      OBVIOUS
    <3>1. w[n - 1] \in Retries(root)
      BY <1>1, <1>3, <1>4, <2>2
    <3>2. {w[i] : i \in n - 1 .. n} = {root, w[n - 1]}
      <4>1. n - 1 .. n = {n - 1, n}
        BY <1>1
      <4> QED
        BY <1>3, <4>1
    <3>3. Found(1)
      BY <1>1, <3>1, <3>2 DEF Edges
    <3> QED
      BY <2>2, <3>3
  <2>4. k \in 2 .. MaxDepth /\ k - 1 \in 1 .. n /\ ~(k <= k - 1) /\ k \in 2 .. n
    BY <1>1, <2>2, <2>3
  <2>5. Found(k - 1)
    <3>1. k - 1 \notin Lost
      <4> HIDE DEF Lost
      <4> QED BY <2>1, <2>4
    <3> QED
      BY <2>4, <3>1
  <2> DEFINE c == w[n - k]
             e == [job |-> w[n - (k - 1)], path |-> {w[i] : i \in n - (k - 1) .. n}]
  <2>6. c \in Retries(e.job)
    <3>1. n - k \in 0 .. n - 1 /\ (n - k) + 1 = n - (k - 1)
      BY <1>1, <2>4
    <3> QED
      BY <1>4, <3>1
  <2>7. c \notin e.path
    <3> SUFFICES ASSUME NEW i \in n - (k - 1) .. n, w[n - k] = w[i] PROVE FALSE
      OBVIOUS
    <3>1. /\ n - k \in 0 .. MaxDepth /\ i \in 0 .. MaxDepth /\ n - i \in Nat
          /\ i + (n - i) = n
          /\ (n - k) + (n - i) \in 1 .. n - 1 \/ i = n
          /\ (n - k) + (n - i) <= n
      BY <1>1, <2>4
    <3>2. CASE i = n
      <4>1. w[n - k] = root
        BY <1>3, <3>2
      <4>2. n - k = 0
        BY <1>1, <1>3, <2>4, <4>1
      <4>3. d = root
        BY <1>2, <4>1, <4>2 DEF Walks
      <4>4. w[1] = NextJob(d)
        <5>1. 1 \in 0 .. MaxDepth /\ 1 - 1 = 0 /\ w[0] # Null
          BY <1>1, <1>2, <2>4, NullIsNoRow DEF Walks
        <5> QED
          BY <1>2, <5>1 DEF Walks
      <4>5. w[1] = root
        BY <1>2, <4>3, <4>4 DEF NextJob
      <4>6. 1 \in 1 .. n - 1
        BY <1>1, <2>4
      <4> QED
        BY <1>3, <4>5, <4>6
    <3>3. CASE i # n
      <4>1. PICK b : b = n - i
        OBVIOUS
      <4>2. /\ b \in Nat /\ n - k \in 0 .. n /\ i \in 0 .. n
            /\ (n - k) + b <= n /\ i + b <= n
        BY <1>1, <2>4, <3>1, <4>1
      <4>3. w[(n - k) + b] = w[i + b]
        BY <1>1, <1>2, <1>3, <4>2, WalkRepeats
      <4> QED
        BY <1>3, <3>1, <3>3, <4>1, <4>3
    <3> QED
      BY <3>2, <3>3
  <2>8. [job |-> c, path |-> e.path \cup {c}] \in at[k]
    <3>1. e \in at[k - 1]
      BY <2>5
    <3>2. c \in Retries(e.job) \ e.path
      BY <2>6, <2>7
    <3> HIDE DEF c, e
    <3> QED
      BY <1>1, <2>4, <3>1, <3>2 DEF Edges
  <2>9. e.path \cup {c} = {w[i] : i \in n - k .. n}
    <3>1. n - k .. n = (n - (k - 1) .. n) \cup {n - k}
      BY <1>1, <2>4
    <3> QED
      BY <3>1
  <2> QED
    BY <2>2, <2>8, <2>9
<1>6. Found(n)
  BY <1>1, <1>5
<1>7. n - n = 0 /\ w[0] = d
  BY <1>1, <1>2 DEF Walks
<1> QED
  BY <1>6, <1>7 DEF at

(* The view sees the chains, whole, in every state with a typed table.     *)
LEMMA ChainsSeen == TypeOK => RecoverySeesChains
<1> SUFFICES ASSUME TypeOK, NEW j \in ActiveJobs, NEW d \in ActiveJobs
             PROVE  d \in Descendants(j) <=>
                      /\ d # j \/ jobs[j].retryOf = j
                      /\ \E n \in 1 .. MaxDepth : WalkFrom(d, MaxDepth)[n] = j
  BY DEF RecoverySeesChains, Descendants
<1>1. j \in JobIds /\ MaxDepth \in Nat /\ Active(d)
  BY DepthAssumption DEF ActiveJobs
<1>2. DOMAIN RetryEdges(j) = 1 .. MaxDepth
  BY EdgesFacts DEF Edges
<1>3. ASSUME d \in Descendants(j)
      PROVE  /\ d # j \/ jobs[j].retryOf = j
             /\ \E n \in 1 .. MaxDepth : WalkFrom(d, MaxDepth)[n] = j
  <2>1. PICK n \in 1 .. MaxDepth : \E e \in RetryEdges(j)[n] : e.job = d
    BY <1>2, <1>3 DEF Descendants
  <2>2. (d # j \/ n = 1) /\ WalkFrom(d, MaxDepth)[n] = j
    BY <1>1, <2>1, EdgeReaches
  <2>3. CASE d = j
    <3>1. Walks(WalkFrom(d, MaxDepth), d, MaxDepth)
      BY <1>1, <2>3, WalkFacts
    <3>2. n = 1 /\ 1 \in 0 .. MaxDepth /\ 1 - 1 = 0 /\ d # Null
      BY <1>1, <2>2, <2>3, NullIsNoRow
    <3>3. WalkFrom(d, MaxDepth)[1] = NextJob(d)
      BY <3>1, <3>2 DEF Walks
    <3> QED
      BY <1>1, <2>2, <2>3, <3>2, <3>3 DEF NextJob
  <2> QED
    BY <2>2, <2>3
<1>4. ASSUME d # j \/ jobs[j].retryOf = j,
             \E n \in 1 .. MaxDepth : WalkFrom(d, MaxDepth)[n] = j
      PROVE  d \in Descendants(j)
  <2> DEFINE Hits == {n \in 1 .. MaxDepth : WalkFrom(d, MaxDepth)[n] = j}
  <2>1. PICK n \in Hits : \A k \in Hits : n <= k
    <3>1. Hits \subseteq Nat /\ Hits # {}
      BY <1>1, <1>4
    <3> HIDE DEF Hits
    <3> QED
      BY <3>1, LeastNatural
  <2>2. n \in 1 .. MaxDepth /\ WalkFrom(d, MaxDepth)[n] = j
    OBVIOUS
  <2>3. \A k \in 1 .. n - 1 : WalkFrom(d, MaxDepth)[k] # j
    <3> SUFFICES ASSUME NEW k \in 1 .. n - 1, k \in Hits PROVE FALSE
      BY <1>1, <2>2
    <3>1. n <= k
      <4> HIDE DEF Hits
      <4> QED BY <2>1
    <3> QED
      BY <1>1, <2>2, <3>1
  <2>4. \E e \in RetryEdges(j)[n] : e.job = d
    BY <1>1, <1>4, <2>2, <2>3, ChainIsFound
  <2> QED
    BY <1>2, <2>2, <2>4 DEF Descendants
<1> QED
  BY <1>3, <1>4

(* What the view finds lies up the chain of the job it is found for.       *)
LEMMA DescendantIsRetry ==
  ASSUME TypeOK, NEW j \in ActiveJobs, NEW d \in Descendants(j)
  PROVE  d \in ActiveJobs /\ RetryChainContains(d, j)
<1>1. d \in ActiveJobs /\ j \in JobIds /\ d \in JobIds /\ MaxDepth \in Nat
  BY DepthAssumption DEF Descendants, ActiveJobs
<1>2. PICK n \in 1 .. MaxDepth : WalkFrom(d, MaxDepth)[n] = j
  BY <1>1, ChainsSeen DEF RecoverySeesChains
<1>3. ASSUME NEW S \in SUBSET JobIds, d \in S, Closed(S) PROVE j \in S
  <2>1. Walks(WalkFrom(d, MaxDepth), d, MaxDepth)
    BY <1>1, WalkFacts
  <2>2. n \in 0 .. MaxDepth /\ 0 \in 0 .. n /\ j # Null
    BY <1>1, NullIsNoRow
  <2>3. WalkFrom(d, MaxDepth)[0] \in S
    BY <1>3, <2>1 DEF Walks
  <2>4. WalkFrom(d, MaxDepth)[n] \in S
    BY <1>2, <1>3, <2>1, <2>2, <2>3, WalkStaysIn
  <2> QED
    BY <1>2, <2>4
<1> QED
  BY <1>1, <1>3 DEF RetryChainContains

(* A failed job that does not block readiness has a retry that succeeded,  *)
(* or one that is active; an active one of its own experiment would be     *)
(* counted.                                                                *)
LEMMA ReadyRecovered == TypeOK => ReadyMeansRecovered
<1> SUFFICES ASSUME TypeOK, NEW e \in Experiments, NEW j \in JobsOf(e) \cap FailedJobs,
                    IsReady(e)
             PROVE  \E d \in ActiveJobs \ {j} :
                      /\ RetryChainContains(d, j)
                      /\ \/ jobs[d].status = "succeeded"
                         \/ jobs[d].status \in RecoveringStatuses /\ jobs[d].experiment # e
  BY DEF ReadyMeansRecovered
<1>1. j \in ActiveJobs /\ jobs[j].status = "failed"
  BY DEF FailedJobs
<1>2. RetryState(j) # "blocking_failed"
  BY DEF IsReady, BlockingFailed
<1>3. PICK d \in Descendants(j) : jobs[d].status \in {"succeeded"} \cup RecoveringStatuses
  BY <1>2 DEF RetryState, HasSuccess, HasActive
<1>4. d \in ActiveJobs /\ RetryChainContains(d, j)
  BY <1>1, DescendantIsRetry
<1>5. d # j
  BY <1>1, <1>3 DEF RecoveringStatuses
<1>6. ASSUME jobs[d].status \in RecoveringStatuses, jobs[d].experiment = e PROVE FALSE
  <2> DEFINE Busy == {i \in JobsOf(e) : jobs[i].status \in ActiveJobStatuses}
  <2>1. d \in Busy /\ Busy \subseteq JobIds
    BY <1>4, <1>6 DEF JobsOf, ActiveJobs, RecoveringStatuses, ActiveJobStatuses
  <2>2. IsFiniteSet(Busy)
    BY <2>1, JobIdsAssumption, FS_Subset
  <2>3. Cardinality(Busy) # 0
    BY <2>1, <2>2, FS_EmptySet
  <2> QED
    BY <2>3 DEF IsReady, ActiveJobCount
<1> QED
  BY <1>3, <1>4, <1>5, <1>6

(* DoctorReportsEveryCycle: doctor's walk of bounded length, from every    *)
(* active job, reports the jobs on a cycle of retry links and no others.   *)
THEOREM CyclesAreReported == Spec => []DoctorReportsEveryCycle
BY TypeCorrect, CyclesReported, PTL

(* RecoverySeesChains: the recursive recovery view finds the jobs whose    *)
(* chain comes to a job within MaxDepth links, on cyclic graphs too.       *)
THEOREM RecoveryIsWhole == Spec => []RecoverySeesChains
BY TypeCorrect, ChainsSeen, PTL

(* ReadyMeansRecovered: each failed job of an experiment that              *)
(* experiment_status calls ready has a retry up its chain that succeeded,  *)
(* or one that is active in another experiment.                            *)
THEOREM ReadyIsRecovered == Spec => []ReadyMeansRecovered
BY TypeCorrect, ReadyRecovered, PTL
=============================================================================
