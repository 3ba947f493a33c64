---------------------------- MODULE LeasesProofs ----------------------------
(***************************************************************************)
(* Proofs about Leases, for any number of commands, agents, entities and   *)
(* leases and any clock bound.                                             *)
(***************************************************************************)
EXTENDS Leases, TLAPS

USE NullAssumption, LifetimeAssumption, BoundAssumption

-----------------------------------------------------------------------------
(* What a command that still has a write to make knows of the lease it     *)
(* read.  These facts stay true until the write because rows are never     *)
(* deleted, a lease never changes entity, owner or expiry, and the clock   *)
(* does not run backwards.                                                 *)
Justified(p) == ops[p].force \/ ExpiredAt(ops[p].seen, clock)

Granted(p) ==
  /\ ops[p].force \in ForceChoices
  /\ \E life \in OrNull(Lifetimes), now \in 0 .. clock : ops[p].expires = Expiry(life, now)

InsertInv(p) ==
  ops[p].write = "insert" =>
    /\ ops[p].entity \in Entities
    /\ ops[p].owner \in Agents
    /\ Granted(p)
    /\ ops[p].seen # Null =>
         /\ Exists(ops[p].seen)
         /\ leases[ops[p].seen].entity = ops[p].entity
         /\ leases[ops[p].seen].owner # ops[p].owner
         /\ Justified(p)

SeenInv(p) ==
  ops[p].write \in {"reclaim", "heartbeat", "release"} =>
    ops[p].seen \in LeaseIds /\ Exists(ops[p].seen)

OpInv == \A p \in Procs : InsertInv(p) /\ SeenInv(p)

IInv == TypeOK /\ OneUnreleasedLease /\ LineageSound /\ OpInv

(* The rows of the table only ever gain an end.                            *)
RowsPersist ==
  \A l \in LeaseIds :
    Exists(l) =>
      /\ Exists(l)'
      /\ leases'[l].entity = leases[l].entity
      /\ leases'[l].owner = leases[l].owner
      /\ leases'[l].expires = leases[l].expires
      /\ leases'[l].prev = leases[l].prev
      /\ leases[l].released => leases'[l].released

-----------------------------------------------------------------------------
(* A row of the table is a record of the row type.                         *)
LEMMA RowType ==
  ASSUME TypeOK, NEW l \in LeaseIds, Exists(l)
  PROVE  leases[l] \in LeaseRow
BY DEF TypeOK, Exists, OrNull

(* Releasing the lease that a claim has seen keeps every row in place.     *)
LEMMA TakeoverRows ==
  ASSUME TypeOK, NEW p \in Procs, ops[p].write = "insert", InsertInv(p)
  PROVE  /\ AfterTakeover(p) \in [LeaseIds -> OrNull(LeaseRow)]
         /\ \A l \in LeaseIds :
              /\ l # ops[p].seen => AfterTakeover(p)[l] = leases[l]
              /\ l = ops[p].seen =>
                   /\ Exists(l)
                   /\ AfterTakeover(p)[l] \in LeaseRow
                   /\ AfterTakeover(p)[l].released
                   /\ AfterTakeover(p)[l].entity = leases[l].entity
                   /\ AfterTakeover(p)[l].owner = leases[l].owner
                   /\ AfterTakeover(p)[l].expires = leases[l].expires
                   /\ AfterTakeover(p)[l].prev = leases[l].prev
<1>1. ops[p] \in Op /\ leases \in [LeaseIds -> OrNull(LeaseRow)]
  BY DEF TypeOK
<1>2. CASE ops[p].seen = Null
  BY <1>1, <1>2 DEF AfterTakeover
<1>3. CASE ops[p].seen # Null
  <2>1. ops[p].seen \in LeaseIds /\ Exists(ops[p].seen)
    BY <1>1, <1>3 DEF InsertInv, Op, OrNull
  <2>2. leases[ops[p].seen] \in LeaseRow
    BY <2>1, RowType
  <2>3. ops[p].owner \in OrNull(Agents) /\ ops[p].reason \in OrNull(ReleaseReasons)
    BY <1>1 DEF Op
  <2>4. Ended(leases[ops[p].seen], ops[p].owner, ops[p].reason) \in LeaseRow
    BY <2>2, <2>3 DEF LeaseRow, Ended
  <2>5. AfterTakeover(p) =
          [leases EXCEPT ![ops[p].seen] =
             Ended(leases[ops[p].seen], ops[p].owner, ops[p].reason)]
    BY <1>3 DEF AfterTakeover
  <2>6. QED
    BY <1>1, <2>1, <2>2, <2>4, <2>5 DEF Ended, LeaseRow, OrNull
<1>4. QED
  BY <1>2, <1>3

(* The row a claim inserts is a row of the table.                          *)
LEMMA NewLeaseType ==
  ASSUME TypeOK, NEW p \in Procs, ops[p].write = "insert", InsertInv(p)
  PROVE  NewLease(p) \in LeaseRow
BY DEF TypeOK, InsertInv, Op, NewLease, LeaseRow, OrNull

-----------------------------------------------------------------------------
(* Only the insert of a claim and a release write rows.                    *)
LEMMA Writers ==
  [Next]_vars =>
    \/ UNCHANGED leases
    \/ \E p \in Procs : ClaimInsert(p) \/ Release(p)
BY DEF Next, Step, vars, Claim, ClaimFresh, ClaimOwn, ClaimTakeover, ClaimRejected,
       AfterRollback, Reclaim, HeartbeatRead, Heartbeat, ReleaseRead, Abort, Tick

(* The insert: the index guard, the new row, and the table around it.      *)
LEMMA InsertRows ==
  ASSUME TypeOK, NEW p \in Procs, InsertInv(p), ClaimInsert(p)
  PROVE  \E l \in LeaseIds :
           /\ ~Exists(l) /\ l # ops[p].seen
           /\ leases'[l] = NewLease(p)
           /\ \A k \in LeaseIds : k # l => leases'[k] = AfterTakeover(p)[k]
           /\ ops' = [ops EXCEPT ![p] = [Idle EXCEPT !.seen = l]]
           /\ leases' \in [LeaseIds -> OrNull(LeaseRow)]
<1>1. ops[p].write = "insert"
  BY DEF ClaimInsert
<1>2. PICK l \in LeaseIds : /\ ~Exists(l)
                            /\ leases' = [AfterTakeover(p) EXCEPT ![l] = NewLease(p)]
                            /\ Return(p, l)
  BY DEF ClaimInsert
<1>3. AfterTakeover(p) \in [LeaseIds -> OrNull(LeaseRow)] /\ l # ops[p].seen
  BY <1>1, <1>2, TakeoverRows
<1>4. NewLease(p) \in LeaseRow
  BY <1>1, NewLeaseType
<1>5. QED
  BY <1>2, <1>3, <1>4 DEF Return, OrNull

(* What release_lease writes: one row, which exists, is ended.             *)
LEMMA ReleaseRow ==
  ASSUME TypeOK, NEW p \in Procs, SeenInv(p), Release(p)
  PROVE  /\ ops[p].seen \in LeaseIds /\ Exists(ops[p].seen)
         /\ leases' = [leases EXCEPT ![ops[p].seen] =
                         Ended(leases[ops[p].seen], ops[p].owner, ops[p].reason)]
         /\ leases' \in [LeaseIds -> OrNull(LeaseRow)]
<1>1. ops[p].seen \in LeaseIds /\ Exists(ops[p].seen)
  BY DEF Release, SeenInv
<1>2. leases[ops[p].seen] \in LeaseRow /\ ops[p] \in Op
  BY <1>1, RowType DEF TypeOK
<1>3. Ended(leases[ops[p].seen], ops[p].owner, ops[p].reason) \in LeaseRow
  BY <1>2 DEF LeaseRow, Ended, Op
<1>4. QED
  BY <1>1, <1>3 DEF Release, TypeOK, OrNull

(* Rows are never deleted, reopened or reassigned.                         *)
LEMMA RowsPersistStep ==
  ASSUME TypeOK, OpInv, [Next]_vars
  PROVE  RowsPersist
<1>1. CASE UNCHANGED leases
  BY <1>1 DEF RowsPersist, Exists
<1>2. ASSUME NEW p \in Procs, ClaimInsert(p)
      PROVE  RowsPersist
  <2>1. InsertInv(p) /\ ops[p].write = "insert"
    BY <1>2 DEF OpInv, ClaimInsert
  <2>2. PICK l \in LeaseIds :
           /\ ~Exists(l) /\ l # ops[p].seen
           /\ leases'[l] = NewLease(p)
           /\ \A k \in LeaseIds : k # l => leases'[k] = AfterTakeover(p)[k]
    BY <1>2, <2>1, InsertRows
  <2>3. SUFFICES ASSUME NEW k \in LeaseIds, Exists(k)
                 PROVE  /\ Exists(k)'
                        /\ leases'[k].entity = leases[k].entity
                        /\ leases'[k].owner = leases[k].owner
                        /\ leases'[k].expires = leases[k].expires
                        /\ leases'[k].prev = leases[k].prev
                        /\ leases[k].released => leases'[k].released
    BY DEF RowsPersist
  <2>4. leases'[k] = AfterTakeover(p)[k]
    BY <2>2, <2>3
  <2>5. CASE k = ops[p].seen
    BY <2>1, <2>4, <2>5, TakeoverRows DEF Exists
  <2>6. CASE k # ops[p].seen
    BY <2>1, <2>3, <2>4, <2>6, TakeoverRows DEF Exists
  <2>7. QED
    BY <2>5, <2>6
<1>3. ASSUME NEW p \in Procs, Release(p)
      PROVE  RowsPersist
  <2>1. SeenInv(p)
    BY DEF OpInv
  <2>2. /\ ops[p].seen \in LeaseIds /\ Exists(ops[p].seen)
        /\ leases' = [leases EXCEPT ![ops[p].seen] =
                         Ended(leases[ops[p].seen], ops[p].owner, ops[p].reason)]
        /\ leases' \in [LeaseIds -> OrNull(LeaseRow)]
    BY <1>3, <2>1, ReleaseRow
  <2>3. leases[ops[p].seen] \in LeaseRow
    BY <2>2, RowType
  <2>4. leases'[ops[p].seen] = Ended(leases[ops[p].seen], ops[p].owner, ops[p].reason)
    BY <2>2 DEF TypeOK
  <2>5. /\ leases'[ops[p].seen] # Null
        /\ leases'[ops[p].seen].entity = leases[ops[p].seen].entity
        /\ leases'[ops[p].seen].owner = leases[ops[p].seen].owner
        /\ leases'[ops[p].seen].expires = leases[ops[p].seen].expires
        /\ leases'[ops[p].seen].prev = leases[ops[p].seen].prev
        /\ leases'[ops[p].seen].released
    <3>1. ops[p] \in Op
      BY DEF TypeOK
    <3>2. Ended(leases[ops[p].seen], ops[p].owner, ops[p].reason) \in LeaseRow
      BY <2>3, <3>1 DEF LeaseRow, Op, Ended
    <3>3. QED
      BY <2>3, <2>4, <3>2 DEF Ended, LeaseRow
  <2>6. \A k \in LeaseIds : k # ops[p].seen => leases'[k] = leases[k]
    BY <2>2 DEF TypeOK
  <2>7. QED
    BY <2>5, <2>6 DEF RowsPersist, Exists
<1>4. QED
  BY <1>1, <1>2, <1>3, Writers

-----------------------------------------------------------------------------
(* The empty ledger is well typed.                                         *)
LEMMA TypeInit == Init => TypeOK
BY DEF Init, TypeOK, OrNull, Op, Idle

(* The expiry computed from --expires-at is a time or NULL.                *)
LEMMA ExpiryType ==
  ASSUME NEW life \in OrNull(Lifetimes), NEW now \in Nat
  PROVE  Expiry(life, now) \in OrNull(Int)
BY DEF Expiry, OrNull

(* Each step leaves rows, clock and commands of their types.               *)
LEMMA TypeStep ==
  ASSUME TypeOK, OpInv, [Next]_vars
  PROVE  TypeOK'
<1>1. leases' \in [LeaseIds -> OrNull(LeaseRow)]
  <2>1. CASE UNCHANGED leases
    BY <2>1 DEF TypeOK
  <2>2. ASSUME NEW p \in Procs, ClaimInsert(p)
        PROVE  leases' \in [LeaseIds -> OrNull(LeaseRow)]
    BY <2>2, InsertRows DEF OpInv
  <2>3. ASSUME NEW p \in Procs, Release(p)
        PROVE  leases' \in [LeaseIds -> OrNull(LeaseRow)]
    BY <2>3, ReleaseRow DEF OpInv
  <2>4. QED
    BY <2>1, <2>2, <2>3, Writers
<1>2. clock' \in Nat
  <2>1. clock' = clock \/ clock' = clock + 1
    BY DEF Next, Step, vars, Claim, ClaimFresh, ClaimOwn, ClaimTakeover, ClaimInsert,
           ClaimRejected, Reclaim, HeartbeatRead, Heartbeat, ReleaseRead, Release, Abort, Tick
  <2>2. QED
    BY <2>1 DEF TypeOK
<1>3. ops' \in [Procs -> Op]
  <2>1. CASE ops' = ops
    BY <2>1 DEF TypeOK
  <2>2. SUFFICES ASSUME NEW p \in Procs, Step(p)
                 PROVE  ops' \in [Procs -> Op]
    BY <2>1 DEF Next, Tick, vars
  <2>3. ASSUME NEW o \in Op, ops' = [ops EXCEPT ![p] = o]
        PROVE  ops' \in [Procs -> Op]
    BY <2>3 DEF TypeOK
  <2>4. ASSUME NEW e \in Entities, NEW a \in Agents, NEW life \in OrNull(Lifetimes),
               NEW f \in ForceChoices, NEW now \in 0 .. clock,
               \/ ClaimFresh(p, e, a, Expiry(life, now), f)
               \/ ClaimTakeover(p, e, a, Expiry(life, now), f, now)
        PROVE  ops' \in [Procs -> Op]
    <3>1. now \in Nat /\ f \in BOOLEAN
      BY DEF TypeOK
    <3>2. Expiry(life, now) \in OrNull(Int)
      BY <3>1, ExpiryType
    <3>3. ASSUME NEW l \in OrNull(LeaseIds), NEW why \in OrNull(ReleaseReasons)
          PROVE  ClaimOp(e, a, Expiry(life, now), f, l, why) \in Op
      BY <3>1, <3>2 DEF ClaimOp, Op, Idle, OrNull
    <3>4. \A l : TakeoverReason(l, now) \in ReleaseReasons
      BY DEF TakeoverReason, ReleaseReasons
    <3>5. \A l \in LeaseIds : TakeoverReason(l, now) \in OrNull(ReleaseReasons)
      BY <3>4 DEF OrNull
    <3>6. CASE ClaimFresh(p, e, a, Expiry(life, now), f)
      BY <2>3, <3>3, <3>6 DEF ClaimFresh, Decide, OrNull
    <3>7. CASE ClaimTakeover(p, e, a, Expiry(life, now), f, now)
      <4>1. PICK l \in LeaseIds :
               ops' = [ops EXCEPT ![p] =
                         ClaimOp(e, a, Expiry(life, now), f, l, TakeoverReason(l, now))]
        BY <3>7 DEF ClaimTakeover, Decide, UnreleasedLeases
      <4>2. l \in OrNull(LeaseIds)
        BY DEF OrNull
      <4>3. ClaimOp(e, a, Expiry(life, now), f, l, TakeoverReason(l, now)) \in Op
        BY <3>3, <3>5, <4>2
      <4>4. QED
        BY <2>3, <4>1, <4>3
    <3>8. QED
      BY <2>4, <3>6, <3>7
  <2>5. ASSUME NEW e \in Entities, NEW a \in Agents, ClaimOwn(p, e, a)
        PROVE  ops' \in [Procs -> Op]
    <3>1. PICK l \in LeaseIds :
             ops' = [ops EXCEPT ![p] =
                       [Idle EXCEPT !.write = "reclaim", !.owner = a, !.seen = l]]
      BY <2>5 DEF ClaimOwn, Decide, UnreleasedLeases
    <3>2. [Idle EXCEPT !.write = "reclaim", !.owner = a, !.seen = l] \in Op
      BY DEF Op, Idle, OrNull
    <3>3. QED
      BY <2>3, <3>1, <3>2
  <2>6. ASSUME NEW l \in LeaseIds, HeartbeatRead(p, l)
        PROVE  ops' \in [Procs -> Op]
    <3>1. [Idle EXCEPT !.write = "heartbeat", !.seen = l] \in Op
      BY DEF Op, Idle, OrNull
    <3>2. QED
      BY <2>3, <2>6, <3>1 DEF HeartbeatRead, Decide
  <2>7. ASSUME NEW l \in LeaseIds, NEW why \in Reasons, ReleaseRead(p, l, why)
        PROVE  ops' \in [Procs -> Op]
    <3>1. leases[l].owner \in Agents
      BY <2>7, RowType DEF ReleaseRead, Unreleased, LeaseRow
    <3>2. [Idle EXCEPT !.write = "release", !.owner = leases[l].owner,
                       !.seen = l, !.reason = why] \in Op
      BY <3>1 DEF Op, Idle, OrNull
    <3>3. QED
      BY <2>3, <2>7, <3>2 DEF ReleaseRead, Decide
  <2>8. ASSUME NEW l \in OrNull(LeaseIds), ops' = [ops EXCEPT ![p] = [Idle EXCEPT !.seen = l]]
        PROVE  ops' \in [Procs -> Op]
    <3>1. [Idle EXCEPT !.seen = l] \in Op
      BY DEF Op, Idle, OrNull
    <3>2. QED
      BY <2>3, <2>8, <3>1
  <2>9. CASE ClaimInsert(p)
    BY <2>8, <2>9 DEF ClaimInsert, Return, OrNull
  <2>10. CASE Reclaim(p) \/ Heartbeat(p) \/ Release(p)
    <3>1. ops[p].seen \in OrNull(LeaseIds)
      BY DEF TypeOK, Op
    <3>2. QED
      BY <2>8, <2>10, <3>1 DEF Reclaim, Heartbeat, Release, Return
  <2>11. CASE ClaimRejected(p) \/ Abort(p)
    <3>1. Idle \in Op
      BY DEF Op, Idle, OrNull
    <3>2. QED
      BY <2>3, <2>11, <3>1 DEF ClaimRejected, Abort, Fail
  <2>12. QED
    BY <2>2, <2>4, <2>5, <2>6, <2>7, <2>9, <2>10, <2>11 DEF Step, Claim
<1>4. QED
  BY <1>1, <1>2, <1>3 DEF TypeOK

-----------------------------------------------------------------------------
(* What is unreleased after a step: the inserted lease, or one that was    *)
(* unreleased before it.                                                   *)
LEMMA UnreleasedStep ==
  ASSUME TypeOK, OpInv, [Next]_vars, NEW k \in LeaseIds, Exists(k), Unreleased(k)'
  PROVE  Unreleased(k)
BY RowsPersistStep DEF RowsPersist, Unreleased

(* After an insert nothing but the new lease is unreleased on its entity.  *)
LEMMA InsertAlone ==
  ASSUME TypeOK, OpInv, NEW p \in Procs, ClaimInsert(p),
         NEW k \in LeaseIds, Exists(k), leases[k].entity = ops[p].entity
  PROVE  ~Unreleased(k)'
<1>1. InsertInv(p) /\ ops[p].write = "insert" /\ IndexAllowsInsert(p)
  BY DEF OpInv, ClaimInsert
<1>2. PICK l \in LeaseIds :
         /\ ~Exists(l)
         /\ \A j \in LeaseIds : j # l => leases'[j] = AfterTakeover(p)[j]
  BY <1>1, InsertRows
<1>3. leases'[k] = AfterTakeover(p)[k]
  BY <1>2
<1>4. CASE k = ops[p].seen
  BY <1>1, <1>3, <1>4, TakeoverRows DEF Unreleased, Exists
<1>5. CASE k # ops[p].seen
  <2>1. leases'[k] = leases[k]
    BY <1>1, <1>3, <1>5, TakeoverRows
  <2>2. ~Unreleased(k)
    BY <1>1, <1>5 DEF IndexAllowsInsert, UnreleasedLeases
  <2>3. QED
    BY <2>1, <2>2 DEF Unreleased, Exists
<1>6. QED
  BY <1>4, <1>5

(* Every step keeps at most one unreleased lease per entity.               *)
LEMMA OneUnreleasedStep ==
  ASSUME TypeOK, OpInv, OneUnreleasedLease, [Next]_vars
  PROVE  OneUnreleasedLease'
<1>1. RowsPersist
  BY RowsPersistStep
<1>2. CASE \A k \in LeaseIds : Exists(k)' => Exists(k)
  <2>1. \A k \in LeaseIds :
          Unreleased(k)' => Unreleased(k) /\ leases'[k].entity = leases[k].entity
    BY <1>1, <1>2, UnreleasedStep DEF RowsPersist, Unreleased
  <2>2. QED
    BY <2>1 DEF OneUnreleasedLease
<1>3. ASSUME NEW p \in Procs, ClaimInsert(p)
      PROVE  OneUnreleasedLease'
  <2>1. InsertInv(p)
    BY DEF OpInv
  <2>2. PICK l \in LeaseIds :
           /\ ~Exists(l) /\ l # ops[p].seen
           /\ leases'[l] = NewLease(p)
           /\ \A j \in LeaseIds : j # l => leases'[j] = AfterTakeover(p)[j]
    BY <1>3, <2>1, InsertRows
  <2>3. ASSUME NEW k \in LeaseIds, k # l, Unreleased(k)'
        PROVE  /\ Exists(k) /\ Unreleased(k)
               /\ leases'[k].entity = leases[k].entity
               /\ leases[k].entity # ops[p].entity
    <3>1. Exists(k)
      <4>1. leases'[k] = AfterTakeover(p)[k] /\ leases'[k] # Null
        BY <2>2, <2>3 DEF Unreleased, Exists
      <4>2. QED
        BY <1>3, <2>1, <4>1, TakeoverRows DEF ClaimInsert, Exists
    <3>2. Unreleased(k)
      BY <2>3, <3>1, UnreleasedStep
    <3>3. QED
      BY <1>1, <1>3, <2>3, <3>1, <3>2, InsertAlone DEF RowsPersist
  <2>4. leases'[l].entity = ops[p].entity
    BY <2>2 DEF NewLease
  <2>5. QED
    BY <2>3, <2>4 DEF OneUnreleasedLease
<1>4. ASSUME NEW p \in Procs, Release(p)
      PROVE  OneUnreleasedLease'
  <2>1. \A k \in LeaseIds : Exists(k)' => Exists(k)
    BY <1>4, ReleaseRow DEF OpInv, Exists, TypeOK
  <2>2. QED
    BY <1>2, <2>1
<1>5. CASE UNCHANGED leases
  BY <1>2, <1>5 DEF Exists
<1>6. QED
  BY <1>3, <1>4, <1>5, Writers

(* Every step keeps previous_lease_id a true lineage.                      *)
LEMMA LineageStep ==
  ASSUME TypeOK, OpInv, LineageSound, [Next]_vars
  PROVE  LineageSound'
<1>1. RowsPersist
  BY RowsPersistStep
<1>2. ASSUME NEW k \in LeaseIds, NEW l \in LeaseIds, Exists(l), Supersedes(l, k)'
      PROVE  /\ Exists(k)' /\ leases'[k].released
             /\ leases'[k].entity = leases'[l].entity
             /\ leases'[k].owner # leases'[l].owner
  <2>1. Supersedes(l, k)
    BY <1>1, <1>2 DEF RowsPersist, Supersedes
  <2>2. QED
    BY <1>1, <2>1 DEF RowsPersist, LineageSound, Supersedes
<1>3. ASSUME NEW p \in Procs, ClaimInsert(p)
      PROVE  LineageSound'
  <2>1. InsertInv(p) /\ ops[p].write = "insert"
    BY <1>3 DEF OpInv, ClaimInsert
  <2>2. PICK n \in LeaseIds :
           /\ ~Exists(n) /\ n # ops[p].seen
           /\ leases'[n] = NewLease(p)
           /\ \A j \in LeaseIds : j # n => leases'[j] = AfterTakeover(p)[j]
    BY <1>3, <2>1, InsertRows
  <2>3. ASSUME NEW k \in LeaseIds, Supersedes(n, k)'
        PROVE  /\ Exists(k)' /\ leases'[k].released
               /\ leases'[k].entity = leases'[n].entity
               /\ leases'[k].owner # leases'[n].owner
    <3>1. k = ops[p].seen /\ k # Null
      BY <2>2, <2>3 DEF Supersedes, NewLease
    <3>2. /\ Exists(k) /\ leases[k].entity = ops[p].entity
          /\ leases[k].owner # ops[p].owner
      BY <2>1, <3>1 DEF InsertInv
    <3>3. leases'[k] = AfterTakeover(p)[k] /\ AfterTakeover(p)[k].released
      BY <2>1, <2>2, <3>1, TakeoverRows
    <3>4. QED
      BY <1>1, <2>2, <3>2, <3>3 DEF RowsPersist, NewLease
  <2>4. ASSUME NEW k \in LeaseIds, NEW l \in LeaseIds, l # n, Supersedes(l, k)'
        PROVE  Exists(l)
    BY <2>1, <2>2, <2>4, TakeoverRows DEF Supersedes, Exists
  <2>5. QED
    BY <1>2, <2>3, <2>4 DEF LineageSound
<1>4. ASSUME NEW p \in Procs, Release(p)
      PROVE  LineageSound'
  <2>1. \A l \in LeaseIds : Exists(l)' => Exists(l)
    BY <1>4, ReleaseRow DEF OpInv, Exists, TypeOK
  <2>2. QED
    BY <1>2, <2>1 DEF LineageSound, Supersedes
<1>5. CASE UNCHANGED leases
  BY <1>2, <1>5 DEF LineageSound, Supersedes, Exists
<1>6. QED
  BY <1>3, <1>4, <1>5, Writers

-----------------------------------------------------------------------------
(* A lease that has expired stays expired.                                 *)
LEMMA ExpiredLater ==
  ASSUME TypeOK, NEW l \in LeaseIds, Exists(l), NEW s \in Int, NEW t \in Int,
         s <= t, ExpiredAt(l, s)
  PROVE  ExpiredAt(l, t)
<1>1. leases[l].expires \in OrNull(Int)
  BY RowType DEF LeaseRow
<1>2. QED
  BY <1>1 DEF ExpiredAt, OrNull

(* The clock never runs backwards.                                         *)
LEMMA ClockStep ==
  ASSUME TypeOK, [Next]_vars
  PROVE  clock \in Int /\ clock' \in Int /\ clock <= clock'
<1>1. clock' = clock \/ clock' = clock + 1
  BY DEF Next, Step, vars, Claim, ClaimFresh, ClaimOwn, ClaimTakeover, ClaimInsert,
         ClaimRejected, Reclaim, HeartbeatRead, Heartbeat, ReleaseRead, Release, Abort, Tick
<1>2. QED
  BY <1>1 DEF TypeOK

(* What a command knows stays true while other commands write.             *)
LEMMA Stable ==
  ASSUME TypeOK, OpInv, [Next]_vars, NEW q \in Procs, ops'[q] = ops[q]
  PROVE  InsertInv(q)' /\ SeenInv(q)'
<1>1. RowsPersist /\ InsertInv(q) /\ SeenInv(q)
  BY RowsPersistStep DEF OpInv
<1>2. SeenInv(q)'
  BY <1>1 DEF SeenInv, RowsPersist
<1>3. ASSUME ops[q].write = "insert", ops[q].seen # Null
      PROVE  /\ Exists(ops[q].seen)'
             /\ leases'[ops[q].seen].entity = ops[q].entity
             /\ leases'[ops[q].seen].owner # ops[q].owner
             /\ Justified(q)'
  <2>1. ops[q].seen \in LeaseIds
    BY <1>3 DEF TypeOK, Op, OrNull
  <2>2. /\ Exists(ops[q].seen) /\ leases[ops[q].seen].entity = ops[q].entity
        /\ leases[ops[q].seen].owner # ops[q].owner /\ Justified(q)
    BY <1>1, <1>3 DEF InsertInv
  <2>3. Justified(q)'
    <3>1. CASE ops[q].force
      BY <3>1 DEF Justified
    <3>2. CASE ExpiredAt(ops[q].seen, clock)
      <4>1. ExpiredAt(ops[q].seen, clock')
        BY <2>1, <2>2, <3>2, ClockStep, ExpiredLater
      <4>2. leases'[ops[q].seen].expires = leases[ops[q].seen].expires
        BY <1>1, <2>1, <2>2 DEF RowsPersist
      <4>3. QED
        BY <4>1, <4>2 DEF ExpiredAt, Justified
    <3>3. QED
      BY <2>2, <3>1, <3>2 DEF Justified
  <2>4. QED
    BY <1>1, <2>1, <2>2, <2>3 DEF RowsPersist
<1>4. ops[q].write = "insert" => Granted(q)'
  <2>1. SUFFICES ASSUME ops[q].write = "insert"
                 PROVE  Granted(q)'
    OBVIOUS
  <2>2. PICK life \in OrNull(Lifetimes), now \in 0 .. clock :
           ops[q].expires = Expiry(life, now)
    BY <1>1, <2>1 DEF InsertInv, Granted
  <2>3. now \in 0 .. clock'
    BY ClockStep
  <2>4. ops[q].force \in ForceChoices
    BY <1>1, <2>1 DEF InsertInv, Granted
  <2>5. QED
    BY <2>2, <2>3, <2>4 DEF Granted
<1>5. InsertInv(q)'
  BY <1>1, <1>3, <1>4 DEF InsertInv
<1>6. QED
  BY <1>2, <1>5

(* Every step keeps what is known of the commands in flight.               *)
LEMMA OpStep ==
  ASSUME TypeOK, OpInv, [Next]_vars
  PROVE  OpInv'
<1>1. SUFFICES ASSUME NEW q \in Procs
               PROVE  InsertInv(q)' /\ SeenInv(q)'
  BY DEF OpInv
<1>2. CASE ops'[q] = ops[q]
  BY <1>2, Stable
<1>3. CASE ops'[q] # ops[q]
  <2>1. PICK p \in Procs : Step(p)
    BY <1>3 DEF Next, Tick, vars
  <2>2. ASSUME NEW o, ops' = [ops EXCEPT ![p] = o]
        PROVE  p = q /\ ops'[q] = o
    BY <1>3, <2>2 DEF TypeOK
  <2>3. ASSUME NEW e \in Entities, NEW a \in Agents, NEW life \in OrNull(Lifetimes),
               NEW f \in ForceChoices, NEW now \in 0 .. clock,
               ClaimFresh(p, e, a, Expiry(life, now), f)
        PROVE  InsertInv(q)' /\ SeenInv(q)'
    <3>1. ops'[q] = ClaimOp(e, a, Expiry(life, now), f, Null, Null)
      BY <2>2, <2>3 DEF ClaimFresh, Decide
    <3>2. /\ ops'[q].write = "insert" /\ ops'[q].entity = e
          /\ ops'[q].owner = a /\ ops'[q].seen = Null
          /\ ops'[q].force = f /\ ops'[q].expires = Expiry(life, now)
      BY <3>1 DEF ClaimOp, Idle
    <3>3. clock' = clock
      BY <2>3 DEF ClaimFresh
    <3>4. QED
      BY <3>2, <3>3 DEF InsertInv, SeenInv, Granted
  <2>4. ASSUME NEW e \in Entities, NEW a \in Agents, NEW life \in OrNull(Lifetimes),
               NEW f \in ForceChoices, NEW now \in 0 .. clock,
               ClaimTakeover(p, e, a, Expiry(life, now), f, now)
        PROVE  InsertInv(q)' /\ SeenInv(q)'
    <3>1. PICK l \in UnreleasedLeases(e) :
             /\ leases[l].owner # a
             /\ MayTakeOver(l, now, f)
             /\ ops' = [ops EXCEPT ![p] =
                          ClaimOp(e, a, Expiry(life, now), f, l, TakeoverReason(l, now))]
      BY <2>4 DEF ClaimTakeover, Decide
    <3>0. ops'[q] = ClaimOp(e, a, Expiry(life, now), f, l, TakeoverReason(l, now))
      BY <2>2, <3>1
    <3>2. /\ ops'[q].write = "insert" /\ ops'[q].entity = e /\ ops'[q].owner = a
          /\ ops'[q].force = f /\ ops'[q].seen = l
          /\ ops'[q].expires = Expiry(life, now)
      BY <3>0 DEF ClaimOp, Idle
    <3>3. l \in LeaseIds /\ Exists(l) /\ leases[l].entity = e
      BY DEF UnreleasedLeases, Unreleased
    <3>4. f \/ ExpiredAt(l, clock)
      <4>1. now \in Int /\ clock \in Int /\ now <= clock
        BY DEF TypeOK
      <4>2. QED
        BY <3>1, <3>3, <4>1, ExpiredLater DEF MayTakeOver
    <3>5. leases' = leases /\ clock' = clock
      BY <2>4 DEF ClaimTakeover
    <3>6. Justified(q)'
      BY <3>2, <3>4, <3>5 DEF Justified, ExpiredAt
    <3>7. Granted(q)'
      BY <3>2, <3>5 DEF Granted
    <3>8. QED
      BY <3>1, <3>2, <3>3, <3>5, <3>6, <3>7 DEF InsertInv, SeenInv, Exists
  <2>5. ASSUME NEW e \in Entities, NEW a \in Agents, ClaimOwn(p, e, a)
        PROVE  InsertInv(q)' /\ SeenInv(q)'
    <3>1. PICK l \in UnreleasedLeases(e) :
             ops' = [ops EXCEPT ![p] =
                       [Idle EXCEPT !.write = "reclaim", !.owner = a, !.seen = l]]
      BY <2>5 DEF ClaimOwn, Decide
    <3>2. ops'[q].write = "reclaim" /\ ops'[q].seen = l
      BY <2>2, <3>1 DEF Idle
    <3>3. l \in LeaseIds /\ Exists(l) /\ leases' = leases
      BY <2>5 DEF UnreleasedLeases, Unreleased, ClaimOwn
    <3>4. QED
      BY <3>2, <3>3 DEF InsertInv, SeenInv, Exists
  <2>6. ASSUME NEW l \in LeaseIds, HeartbeatRead(p, l)
        PROVE  InsertInv(q)' /\ SeenInv(q)'
    <3>1. ops'[q] = [Idle EXCEPT !.write = "heartbeat", !.seen = l]
      BY <2>2, <2>6 DEF HeartbeatRead, Decide
    <3>2. ops'[q].write = "heartbeat" /\ ops'[q].seen = l
      BY <3>1 DEF Idle
    <3>3. QED
      BY <2>6, <3>2 DEF HeartbeatRead, InsertInv, SeenInv, Unreleased, Exists
  <2>7. ASSUME NEW l \in LeaseIds, NEW why \in Reasons, ReleaseRead(p, l, why)
        PROVE  InsertInv(q)' /\ SeenInv(q)'
    <3>1. ops'[q] = [Idle EXCEPT !.write = "release", !.owner = leases[l].owner,
                                 !.seen = l, !.reason = why]
      BY <2>2, <2>7 DEF ReleaseRead, Decide
    <3>2. ops'[q].write = "release" /\ ops'[q].seen = l
      BY <3>1 DEF Idle
    <3>3. QED
      BY <2>7, <3>2 DEF ReleaseRead, InsertInv, SeenInv, Unreleased, Exists
  <2>8. ASSUME NEW l, ops' = [ops EXCEPT ![p] = [Idle EXCEPT !.seen = l]]
        PROVE  InsertInv(q)' /\ SeenInv(q)'
    <3>1. ops'[q].write = "none"
      BY <2>2, <2>8 DEF Idle
    <3>2. QED
      BY <3>1 DEF InsertInv, SeenInv
  <2>9. CASE ops' = [ops EXCEPT ![p] = Idle]
    <3>1. ops'[q].write = "none"
      BY <2>2, <2>9 DEF Idle
    <3>2. QED
      BY <3>1 DEF InsertInv, SeenInv
  <2>10. CASE ClaimInsert(p) \/ Reclaim(p) \/ Heartbeat(p) \/ Release(p)
    BY <2>8, <2>10 DEF ClaimInsert, Reclaim, Heartbeat, Release, Return
  <2>11. CASE ClaimRejected(p) \/ Abort(p)
    BY <2>9, <2>11 DEF ClaimRejected, Abort, Fail
  <2>12. QED
    BY <2>1, <2>3, <2>4, <2>5, <2>6, <2>7, <2>10, <2>11 DEF Step, Claim
<1>4. QED
  BY <1>2, <1>3

-----------------------------------------------------------------------------
(* The inductive invariant holds of the empty ledger.                      *)
LEMMA InitInv == Init => IInv
<1> SUFFICES ASSUME Init PROVE IInv
  OBVIOUS
<1>1. TypeOK
  BY TypeInit
<1>2. \A l \in LeaseIds : ~Exists(l)
  BY DEF Init, Exists
<1>3. \A p \in Procs : ops[p].write = "none"
  BY DEF Init, Idle
<1>4. QED
  BY <1>1, <1>2, <1>3 DEF IInv, OneUnreleasedLease, LineageSound, Supersedes,
     Unreleased, OpInv, InsertInv, SeenInv

(* Every step keeps the inductive invariant.                               *)
LEMMA StepInv == IInv /\ [Next]_vars => IInv'
BY TypeStep, OneUnreleasedStep, LineageStep, OpStep DEF IInv

(* The inductive invariant holds in every reachable state.                 *)
THEOREM Invariance == Spec => []IInv
BY InitInv, StepInv, PTL DEF Spec

(* Rows, clock and commands in flight always have their types.             *)
THEOREM TypeCorrect == Spec => []TypeOK
<1>1. IInv => TypeOK
  BY DEF IInv
<1>2. QED
  BY <1>1, Invariance, PTL

(* However many claims run at once, no entity ever has two unreleased      *)
(* leases.                                                                 *)
THEOREM MutualExclusion == Spec => []OneUnreleasedLease
<1>1. IInv => OneUnreleasedLease
  BY DEF IInv
<1>2. QED
  BY <1>1, Invariance, PTL

(* previous_lease_id always names an ended lease of the same entity and of *)
(* another owner.                                                          *)
THEOREM Lineage == Spec => []LineageSound
<1>1. IInv => LineageSound
  BY DEF IInv
<1>2. QED
  BY <1>1, Invariance, PTL

(* No unexpired lease is taken over by a claim that did not force.         *)
THEOREM Justification == Spec => TakeoverJustified
<1>1. IInv /\ [Next]_vars =>
        [\A p \in Procs, k \in LeaseIds :
           TakesOver(p, k) => ExpiredAt(k, clock) \/ ops[p].force]_vars
  BY DEF IInv, OpInv, InsertInv, Justified, TakesOver, Unreleased, Exists
<1>2. QED
  BY <1>1, Invariance, PTL DEF Spec, TakeoverJustified

(* FailedClaimLeavesNoTrace: the row of a lease that is over changes only  *)
(* when a claim inserts its own lease, or release_lease runs to its end.   *)
THEOREM NoTrace == Spec => FailedClaimLeavesNoTrace
<1> DEFINE A == \A k \in LeaseIds :
                  Exists(k) /\ leases[k].released /\ leases'[k] # leases[k] => Inserts \/ Releases
<1>1. IInv /\ [Next]_vars => A
  <2> SUFFICES ASSUME IInv, [Next]_vars, leases' # leases PROVE Inserts \/ Releases
    OBVIOUS
  <2>1. TypeOK /\ \A p \in Procs : InsertInv(p)
    BY DEF IInv, OpInv
  <2>2. PICK p \in Procs : ClaimInsert(p) \/ Release(p)
    BY Writers
  <2>3. CASE ClaimInsert(p)
    <3>1. PICK l \in LeaseIds : ~Exists(l) /\ leases'[l] = NewLease(p)
      BY <2>1, <2>3, InsertRows
    <3>2. NewLease(p) \in LeaseRow
      <4>1. ops[p].write = "insert"
        BY <2>3 DEF ClaimInsert
      <4> QED
        BY <2>1, <4>1, NewLeaseType
    <3>3. ~Exists(l) /\ leases'[l] # Null
      BY <3>1, <3>2, NullAssumption
    <3> QED
      BY <3>3 DEF Inserts
  <2>4. CASE Release(p)
    <3>1. ops[p].write = "release" /\ ops'[p] = [Idle EXCEPT !.seen = ops[p].seen]
      BY <2>1, <2>4 DEF Release, Return, TypeOK
    <3> QED
      BY <3>1 DEF Releases, Idle
  <2> QED
    BY <2>2, <2>3, <2>4
<1>2. IInv /\ [Next]_vars => [A]_vars
  BY <1>1
<1> QED
  BY <1>2, Invariance, PTL DEF Spec, FailedClaimLeavesNoTrace

-----------------------------------------------------------------------------
(* The refinement.                                                         *)

Holder(table, l) == [owner |-> table[l].owner, expires |-> table[l].expires]

(* Who holds an entity, read off the rows.                                 *)
LEMMA HoldingsAt ==
  ASSUME NEW e \in Entities
  PROVE  /\ Holdings[e] = {Holder(leases, l) : l \in UnreleasedLeases(e)}
         /\ Holdings'[e] = {Holder(leases', l) : l \in UnreleasedLeases(e)'}
BY DEF Holdings, Holder

(* The register has an entry for each entity.                              *)
LEMMA HoldingsDomain ==
  /\ Holdings = [e \in Entities |-> Holdings[e]]
  /\ Holdings' = [e \in Entities |-> Holdings'[e]]
BY DEF Holdings

(* Entities whose unreleased leases stay keep their holder.                *)
LEMMA HoldingsKept ==
  ASSUME IInv, [Next]_vars, NEW e \in Entities, UnreleasedLeases(e)' = UnreleasedLeases(e)
  PROVE  Holdings'[e] = Holdings[e]
<1>1. \A l \in UnreleasedLeases(e) : Holder(leases', l) = Holder(leases, l)
  BY RowsPersistStep DEF IInv, RowsPersist, UnreleasedLeases, Unreleased, Holder
<1>2. PICK S : S = UnreleasedLeases(e)
  OBVIOUS
<1>3. Holdings[e] = {Holder(leases, l) : l \in S}
  BY <1>2, HoldingsAt
<1>4. Holdings'[e] = {Holder(leases', l) : l \in S}
  BY <1>2, HoldingsAt
<1>5. {Holder(leases', l) : l \in S} = {Holder(leases, l) : l \in S}
  BY <1>1, <1>2
<1>6. QED
  BY <1>3, <1>4, <1>5

(* A claim that commits is an acquisition or a hand-over of the register.  *)
LEMMA InsertRefines ==
  ASSUME IInv, NEW p \in Procs, ClaimInsert(p), [Next]_vars
  PROVE  Ownership!Next
<1>1. InsertInv(p) /\ ops[p].write = "insert" /\ IndexAllowsInsert(p) /\ clock' = clock
  BY DEF IInv, OpInv, ClaimInsert
<1>2. PICK e \in Entities, a \in Agents : e = ops[p].entity /\ a = ops[p].owner
  BY <1>1 DEF InsertInv
<1>3. PICK g : g = [owner |-> a, expires |-> ops[p].expires]
  OBVIOUS
<1>4. Granted(p)
  BY <1>1 DEF InsertInv
<1>5. PICK n \in LeaseIds :
         /\ ~Exists(n) /\ n # ops[p].seen
         /\ leases'[n] = NewLease(p)
         /\ \A j \in LeaseIds : j # n => leases'[j] = AfterTakeover(p)[j]
         /\ leases' \in [LeaseIds -> OrNull(LeaseRow)]
  BY <1>1, InsertRows DEF IInv
<1>6. UnreleasedLeases(e)' = {n}
  <2>1. n \in UnreleasedLeases(e)'
    <3>1. NewLease(p) \in LeaseRow
      BY <1>1, NewLeaseType DEF IInv
    <3>2. leases'[n] # Null
      BY <1>5, <3>1
    <3>3. leases'[n].entity = e /\ ~leases'[n].released
      BY <1>5, <1>2 DEF NewLease
    <3>4. QED
      BY <3>2, <3>3 DEF UnreleasedLeases, Unreleased, Exists
  <2>2. ASSUME NEW k \in LeaseIds, k # n, Unreleased(k)', leases'[k].entity = e
        PROVE  FALSE
    <3>1. leases'[k] = AfterTakeover(p)[k] /\ leases'[k] # Null
      BY <1>5, <2>2 DEF Unreleased, Exists
    <3>2. Exists(k)
      BY <1>1, <3>1, TakeoverRows DEF IInv, Exists
    <3>3. leases[k].entity = e
      BY <2>2, <3>2, RowsPersistStep DEF IInv, RowsPersist
    <3>4. QED
      BY <1>2, <2>2, <3>2, <3>3, InsertAlone DEF IInv
  <2>3. QED
    BY <2>1, <2>2 DEF UnreleasedLeases, Unreleased, Exists
<1>7. Holdings'[e] = {g}
  <2>1. Holder(leases', n) = g
    BY <1>5, <1>2, <1>3 DEF Holder, NewLease
  <2>2. QED
    BY <1>6, <2>1, HoldingsAt
<1>8. ASSUME NEW d \in Entities, d # e
      PROVE  Holdings'[d] = Holdings[d]
  <2>1. ASSUME NEW k \in LeaseIds
        PROVE  k \in UnreleasedLeases(d)' <=> k \in UnreleasedLeases(d)
    <3>1. CASE k = n
      BY <1>5, <1>8, <1>2, <3>1 DEF UnreleasedLeases, Unreleased, Exists, NewLease
    <3>2. CASE k = ops[p].seen
      <4>1. leases[k].entity = e /\ Exists(k) /\ leases'[k].entity = leases[k].entity
        BY <1>1, <1>2, <2>1, <3>2, RowsPersistStep DEF InsertInv, IInv, RowsPersist
      <4>2. QED
        BY <1>8, <4>1 DEF UnreleasedLeases
    <3>3. CASE k # n /\ k # ops[p].seen
      <4>1. leases'[k] = leases[k]
        BY <1>1, <1>5, <3>3, TakeoverRows DEF IInv
      <4>2. QED
        BY <4>1 DEF UnreleasedLeases, Unreleased, Exists
    <3>4. QED
      BY <3>1, <3>2, <3>3
  <2>2. UnreleasedLeases(d)' = UnreleasedLeases(d)
    BY <2>1 DEF UnreleasedLeases
  <2>3. QED
    BY <2>2, HoldingsKept
<1>9. Holdings' = [Holdings EXCEPT ![e] = {g}]
  BY <1>7, <1>8, HoldingsDomain
<1>10. g \in Ownership!Grants(a)
  BY <1>4, <1>3 DEF Granted, Ownership!Grants, Ownership!Expiry, Expiry, OrNull
<1>11. CASE UnreleasedLeases(e) = {}
  <2>1. Holdings[e] = {}
    BY <1>11, HoldingsAt
  <2>2. Ownership!Acquire(e, a)
    BY <1>1, <1>9, <1>10, <2>1 DEF Ownership!Acquire
  <2>3. QED
    BY <2>2 DEF Ownership!Next
<1>12. CASE UnreleasedLeases(e) # {}
  <2>1. UnreleasedLeases(e) = {ops[p].seen} /\ ops[p].seen \in LeaseIds
    BY <1>1, <1>12, <1>2 DEF IndexAllowsInsert, UnreleasedLeases
  <2>2. /\ leases[ops[p].seen].owner # a /\ Justified(p) /\ Exists(ops[p].seen)
    BY <1>1, <1>2, <2>1 DEF InsertInv
  <2>3. Holder(leases, ops[p].seen) \in Holdings[e]
    BY <2>1, HoldingsAt
  <2>4. Holder(leases, ops[p].seen).owner # a
    BY <2>2 DEF Holder
  <2>5. Ownership!Lapsed(Holder(leases, ops[p].seen)) \/ TRUE \in ForceChoices
    <3>1. CASE ops[p].force
      <4>1. ops[p].force = TRUE
        BY <3>1 DEF IInv, TypeOK, Op
      <4>2. QED
        BY <1>4, <4>1 DEF Granted
    <3>2. CASE ExpiredAt(ops[p].seen, clock)
      BY <3>2 DEF ExpiredAt, Ownership!Lapsed, Holder
    <3>3. QED
      BY <2>2, <3>1, <3>2 DEF Justified
  <2>6. Ownership!HandOver(e, a)
    BY <1>1, <1>9, <1>10, <2>3, <2>4, <2>5 DEF Ownership!HandOver
  <2>7. QED
    BY <2>6 DEF Ownership!Next
<1>13. QED
  BY <1>11, <1>12

(* A release is a give-up of the register, or changes nothing.             *)
LEMMA ReleaseRefines ==
  ASSUME IInv, NEW p \in Procs, Release(p), [Next]_vars
  PROVE  Ownership!Next \/ UNCHANGED Ownership!vars
<1>1. PICK s \in LeaseIds :
         /\ s = ops[p].seen /\ Exists(s)
         /\ leases' = [leases EXCEPT ![s] = Ended(leases[s], ops[p].owner, ops[p].reason)]
  BY ReleaseRow DEF IInv, OpInv
<1>2. PICK e \in Entities : leases[s] \in LeaseRow /\ e = leases[s].entity
  BY <1>1, RowType DEF IInv, LeaseRow
<1>3. /\ leases'[s].released
      /\ \A k \in LeaseIds : k # s => leases'[k] = leases[k]
  BY <1>1, <1>2 DEF IInv, TypeOK, Ended, LeaseRow
<1>4. UnreleasedLeases(e)' \subseteq UnreleasedLeases(e) \ {s}
  BY <1>3 DEF UnreleasedLeases, Unreleased, Exists
<1>5. ASSUME NEW d \in Entities, d # e
      PROVE  Holdings'[d] = Holdings[d]
  <2>1. leases'[s].entity = e
    BY <1>1, <1>2, RowsPersistStep DEF IInv, RowsPersist
  <2>2. UnreleasedLeases(d)' = UnreleasedLeases(d)
    BY <1>2, <1>3, <1>5, <2>1 DEF UnreleasedLeases, Unreleased, Exists
  <2>3. QED
    BY <2>2, HoldingsKept
<1>6. clock' = clock
  BY DEF Release
<1>7. CASE Unreleased(s)
  <2>1. UnreleasedLeases(e)' = {}
    BY <1>1, <1>2, <1>4, <1>7 DEF IInv, OneUnreleasedLease, UnreleasedLeases
  <2>2. Holdings'[e] = {}
    BY <2>1, HoldingsAt
  <2>3. Holdings' = [Holdings EXCEPT ![e] = {}]
    BY <1>5, <2>2, HoldingsDomain
  <2>4. Ownership!GiveUp(e)
    BY <1>6, <2>3 DEF Ownership!GiveUp
  <2>5. QED
    BY <2>4 DEF Ownership!Next
<1>8. CASE ~Unreleased(s)
  <2>1. UnreleasedLeases(e)' = UnreleasedLeases(e)
    BY <1>3, <1>8 DEF UnreleasedLeases, Unreleased, Exists
  <2>2. Holdings'[e] = Holdings[e]
    BY <2>1, HoldingsKept
  <2>3. Holdings' = Holdings
    BY <1>5, <2>2, HoldingsDomain
  <2>4. QED
    BY <1>6, <2>3 DEF Ownership!vars
<1>9. QED
  BY <1>7, <1>8

(* Every step of the commands is a step of the register, or none.          *)
LEMMA StepRefines ==
  ASSUME IInv, [Next]_vars
  PROVE  [Ownership!Next]_Ownership!vars
<1>1. ASSUME NEW p \in Procs, ClaimInsert(p)
      PROVE  Ownership!Next
  BY <1>1, InsertRefines
<1>2. ASSUME NEW p \in Procs, Release(p)
      PROVE  Ownership!Next \/ UNCHANGED Ownership!vars
  BY <1>2, ReleaseRefines
<1>3. CASE UNCHANGED leases
  <2>1. \A e \in Entities : UnreleasedLeases(e)' = UnreleasedLeases(e)
    BY <1>3 DEF UnreleasedLeases, Unreleased, Exists
  <2>2. Holdings' = Holdings
    BY <2>1, HoldingsKept, HoldingsDomain
  <2>3. clock' = clock \/ Tick
    BY DEF Next, Step, vars, Claim, ClaimFresh, ClaimOwn, ClaimTakeover, ClaimInsert,
           ClaimRejected, Reclaim, HeartbeatRead, Heartbeat, ReleaseRead, Release, Abort
  <2>4. QED
    BY <2>2, <2>3 DEF Tick, Ownership!Tick, Ownership!Next, Ownership!vars
<1>4. QED
  BY <1>1, <1>2, <1>3, Writers

(* The table of leases implements the ownership register: an entity is     *)
(* free or held by one agent, and is acquired, handed over or given up in  *)
(* one step.                                                               *)
THEOREM Refinement == Spec => OwnershipSpec
<1>1. Init => Ownership!Init
  <2>1. SUFFICES ASSUME Init PROVE Ownership!Init
    OBVIOUS
  <2>2. \A e \in Entities : UnreleasedLeases(e) = {}
    BY <2>1 DEF Init, UnreleasedLeases, Unreleased, Exists
  <2>3. Holdings = [e \in Entities |-> {}]
    BY <2>2 DEF Holdings
  <2>4. QED
    BY <2>1, <2>3 DEF Init, Ownership!Init
<1>2. IInv /\ [Next]_vars => [Ownership!Next]_Ownership!vars
  BY StepRefines
<1>3. QED
  BY <1>1, <1>2, Invariance, PTL DEF Spec, OwnershipSpec, Ownership!Spec
=============================================================================
