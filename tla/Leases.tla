------------------------------- MODULE Leases -------------------------------
(***************************************************************************)
(* The advisory leases of a Fieldbook ledger: `fieldbook lease claim`,     *)
(* `heartbeat` and `release`, run by several processes on one SQLite file. *)
(*                                                                         *)
(* Every command is one operating-system process with its own connection.  *)
(* A SELECT outside a transaction sees the database of that instant; the   *)
(* first INSERT or UPDATE opens the write transaction, and SQLite lets one *)
(* process hold it at a time.  So each command is a read, which fixes what *)
(* it will write, followed by ONE atomic write, and the writes of other    *)
(* commands may come between the two.                                      *)
(***************************************************************************)
EXTENDS Integers, FiniteSets

CONSTANTS
  Procs,        \* command slots: how many commands may overlap
  LeaseIds,     \* the ids (ULIDs) that claims may draw
  Entities,     \* the experiments, runs and jobs that are claimed
  Agents,       \* the owner_agent strings in use
  Lifetimes,    \* lifetimes asked for with --expires-at
  ForceChoices, \* the values of --force in use
  Reasons,      \* the values of --reason in use
  MaxTime,      \* bound of the clock
  Null          \* SQL NULL

VARIABLES
  leases,       \* the leases table, by id; Null where no row has that id
  clock,        \* utc_now(), in steps of a second
  ops           \* per command slot: the write its reads have decided on, or,
                \* with no write to come, the lease it returned

vars == <<leases, clock, ops>>

-----------------------------------------------------------------------------
(* LEASE_RELEASE_REASONS.  release_lease accepts all six.                  *)
ReleaseReasons ==
  {"released", "handoff", "done", "expired", "force_takeover", "cancelled"}

OrNull(S) == S \cup {Null}

(* A row of the table.  released says whether released_at is set; the      *)
(* times of claim, heartbeat and release, the sessions and the attrs are   *)
(* data no guard reads.                                                    *)
LeaseRow ==
  [entity: Entities, owner: Agents, expires: OrNull(Int), released: BOOLEAN,
   releasedBy: OrNull(Agents), reason: OrNull(ReleaseReasons),
   prev: OrNull(LeaseIds)]

Op ==
  [write: {"none", "insert", "reclaim", "heartbeat", "release"},
   entity: OrNull(Entities), owner: OrNull(Agents), expires: OrNull(Int),
   force: BOOLEAN, seen: OrNull(LeaseIds), reason: OrNull(ReleaseReasons)]

Idle ==
  [write |-> "none", entity |-> Null, owner |-> Null, expires |-> Null,
   force |-> FALSE, seen |-> Null, reason |-> Null]

ASSUME NullAssumption == Null \notin LeaseIds \cup LeaseRow
ASSUME LifetimeAssumption == Null \notin Lifetimes /\ Lifetimes \subseteq Int
ASSUME BoundAssumption ==
  MaxTime \in Nat /\ ForceChoices \subseteq BOOLEAN /\ Reasons \subseteq ReleaseReasons

Exists(l) == leases[l] # Null
Unreleased(l) == Exists(l) /\ ~leases[l].released
UnreleasedLeases(e) == {l \in LeaseIds : Unreleased(l) /\ leases[l].entity = e}

ExpiredAt(l, t) == leases[l].expires # Null /\ leases[l].expires <= t

Init ==
  /\ leases = [l \in LeaseIds |-> Null]
  /\ clock = 0
  /\ ops = [p \in Procs |-> Idle]

Decide(p, op) == ops[p].write = "none" /\ ops' = [ops EXCEPT ![p] = op]

(* The command ends: with the lease it prints, or with an error.           *)
Return(p, l) == ops' = [ops EXCEPT ![p] = [Idle EXCEPT !.seen = l]]
Fail(p) == ops' = [ops EXCEPT ![p] = Idle]

-----------------------------------------------------------------------------
(* claim_lease.  utc_now() is called before the SELECT, so `now` may lie   *)
(* behind the clock when the unreleased lease of the entity is read.       *)

Expiry_Late(life, now) == IF life = Null THEN Null ELSE now + life + 1

Expiry(life, now) == IF life = Null THEN Null ELSE now + life

ClaimOp(e, a, x, f, l, why) ==
  [Idle EXCEPT !.write = "insert", !.entity = e, !.owner = a, !.expires = x,
               !.force = f, !.seen = l, !.reason = why]

(* existing is None: a plain insert will follow.                           *)
ClaimFresh(p, e, a, x, f) ==
  /\ UnreleasedLeases(e) = {}
  /\ Decide(p, ClaimOp(e, a, x, f, Null, Null))
  /\ UNCHANGED <<leases, clock>>

(* The caller owns the unreleased lease: only heartbeat_at and attrs will  *)
(* be written, whatever --expires-at says.                                 *)
ClaimOwn(p, e, a) ==
  /\ \E l \in UnreleasedLeases(e) :
       /\ leases[l].owner = a
       /\ Decide(p, [Idle EXCEPT !.write = "reclaim", !.owner = a, !.seen = l])
  /\ UNCHANGED <<leases, clock>>

MayTakeOver_OwnerOnly(l, now, f) == TRUE

MayTakeOver(l, now, f) == ExpiredAt(l, now) \/ f

TakeoverReason(l, now) == IF ExpiredAt(l, now) THEN "expired" ELSE "force_takeover"

(* Another owner's lease: a conflict (no step) unless it has expired or    *)
(* --force is given.                                                       *)
ClaimTakeover(p, e, a, x, f, now) ==
  /\ \E l \in UnreleasedLeases(e) :
       /\ leases[l].owner # a
       /\ MayTakeOver(l, now, f)
       /\ Decide(p, ClaimOp(e, a, x, f, l, TakeoverReason(l, now)))
  /\ UNCHANGED <<leases, clock>>

(* UPDATE ... WHERE id = ?: whatever the row holds by now is overwritten.  *)
Ended(row, by, why) ==
  [row EXCEPT !.released = TRUE, !.releasedBy = by, !.reason = why]

(* The table inside the transaction, the seen lease released.              *)
AfterTakeover_NotReleased(p) == leases

AfterTakeover(p) ==
  IF ops[p].seen = Null THEN leases
  ELSE [leases EXCEPT ![ops[p].seen] = Ended(@, ops[p].owner, ops[p].reason)]

NewLease_Swapped(p) ==
  [entity |-> ops[p].owner, owner |-> ops[p].entity, expires |-> ops[p].expires,
   released |-> FALSE, releasedBy |-> Null, reason |-> Null, prev |-> ops[p].seen]

NewLease(p) ==
  [entity |-> ops[p].entity, owner |-> ops[p].owner, expires |-> ops[p].expires,
   released |-> FALSE, releasedBy |-> Null, reason |-> Null, prev |-> ops[p].seen]

(* idx_leases_active_entity: at most one unreleased row per entity, tested *)
(* in the database that is written, not in the one that was read.          *)
IndexAllowsInsert_NoIndex(p) == TRUE

IndexAllowsInsert(p) == UnreleasedLeases(ops[p].entity) \subseteq {ops[p].seen}

ClaimInsert(p) ==
  /\ ops[p].write = "insert"
  /\ IndexAllowsInsert(p)
  /\ \E l \in LeaseIds :
       /\ ~Exists(l)
       /\ leases' = [AfterTakeover(p) EXCEPT ![l] = NewLease(p)]
       /\ Return(p, l)
  /\ UNCHANGED clock

(* The INSERT breaks the index: IntegrityError leaves `with self.conn`,    *)
(* and the rollback takes the UPDATE of the seen lease back as well.       *)
AfterRollback_UpdateKept(p) == AfterTakeover(p)

AfterRollback(p) == leases

ClaimRejected(p) ==
  /\ ops[p].write = "insert"
  /\ ~IndexAllowsInsert(p)
  /\ leases' = AfterRollback(p)
  /\ Fail(p)
  /\ UNCHANGED clock

(* Returns the seen lease with existed = True.                             *)
Reclaim(p) ==
  /\ ops[p].write = "reclaim"
  /\ Return(p, ops[p].seen)
  /\ UNCHANGED <<leases, clock>>

-----------------------------------------------------------------------------
(* heartbeat_lease: the row is read and must be unreleased (and owned by   *)
(* the named owner, if one is named); then heartbeat_at is written.        *)
HeartbeatRead(p, l) ==
  /\ Unreleased(l)
  /\ Decide(p, [Idle EXCEPT !.write = "heartbeat", !.seen = l])
  /\ UNCHANGED <<leases, clock>>

Heartbeat(p) ==
  /\ ops[p].write = "heartbeat"
  /\ Return(p, ops[p].seen)
  /\ UNCHANGED <<leases, clock>>

(* release_lease: an unreleased row, read first.  The named owner, if any, *)
(* must be the lease's owner, so released_by is that owner either way.     *)
ReleaseRead(p, l, why) ==
  /\ Unreleased(l)
  /\ Decide(p, [Idle EXCEPT !.write = "release", !.owner = leases[l].owner,
                            !.seen = l, !.reason = why])
  /\ UNCHANGED <<leases, clock>>

Release(p) ==
  /\ ops[p].write = "release"
  /\ leases' = [leases EXCEPT ![ops[p].seen] = Ended(@, ops[p].owner, ops[p].reason)]
  /\ Return(p, ops[p].seen)
  /\ UNCHANGED clock

-----------------------------------------------------------------------------
(* A command dies, or gives up with "database is locked", before its write *)
(* commits: the ledger is as if it had never run.                          *)
Abort(p) ==
  /\ ops[p].write # "none"
  /\ Fail(p)
  /\ UNCHANGED <<leases, clock>>

Tick ==
  /\ clock < MaxTime
  /\ clock' = clock + 1
  /\ UNCHANGED <<leases, ops>>

Claim(p) ==
  \E e \in Entities, a \in Agents, life \in OrNull(Lifetimes), f \in ForceChoices,
     now \in 0 .. clock :
       \/ ClaimFresh(p, e, a, Expiry(life, now), f)
       \/ ClaimTakeover(p, e, a, Expiry(life, now), f, now)

Step(p) ==
  \/ Claim(p)
  \/ \E e \in Entities, a \in Agents : ClaimOwn(p, e, a)
  \/ ClaimInsert(p)
  \/ ClaimRejected(p)
  \/ Reclaim(p)
  \/ \E l \in LeaseIds : HeartbeatRead(p, l)
  \/ Heartbeat(p)
  \/ \E l \in LeaseIds, why \in Reasons : ReleaseRead(p, l, why)
  \/ Release(p)
  \/ Abort(p)

Next == (\E p \in Procs : Step(p)) \/ Tick

Spec == Init /\ [][Next]_vars

-----------------------------------------------------------------------------
TypeOK ==
  /\ leases \in [LeaseIds -> OrNull(LeaseRow)]
  /\ clock \in Nat
  /\ ops \in [Procs -> Op]

(* "Only one unreleased lease may exist per entity" (design.md of the      *)
(* advisory leases), however many claims read the table before any of them *)
(* wrote to it.                                                            *)
OneUnreleasedLease ==
  \A k, l \in LeaseIds :
    Unreleased(k) /\ Unreleased(l) /\ leases[k].entity = leases[l].entity => k = l

(* previous_lease_id is a true lineage: it names a lease of the same       *)
(* entity and of another owner, and that lease is over.                    *)
Supersedes(l, k) == Exists(l) /\ leases[l].prev = k

LineageSound ==
  \A k, l \in LeaseIds :
    Supersedes(l, k) =>
      /\ Exists(k) /\ leases[k].released
      /\ leases[k].entity = leases[l].entity
      /\ leases[k].owner # leases[l].owner

(* Only an expired lease, or a claim with --force, lets another agent take *)
(* an entity over, although expiry was judged before the write.            *)
TakesOver(p, k) ==
  /\ ops[p].write = "insert" /\ ops[p].seen = k /\ ops'[p].write = "none"
  /\ Unreleased(k) /\ leases'[k].released

TakeoverJustified ==
  [][\A p \in Procs, k \in LeaseIds :
       TakesOver(p, k) => ExpiredAt(k, clock) \/ ops[p].force]_vars

(* What is recorded about the end of a lease is only ever rewritten by a   *)
(* command that succeeds: a claim that loses the race for the index leaves *)
(* no trace in the history of the lease it meant to take over.             *)
Inserts == \E l \in LeaseIds : ~Exists(l) /\ leases'[l] # Null
Releases == \E p \in Procs : ops[p].write = "release" /\ ops'[p].write = "none"

FailedClaimLeavesNoTrace ==
  [][\A k \in LeaseIds :
       Exists(k) /\ leases[k].released /\ leases'[k] # leases[k] => Inserts \/ Releases]_vars

(* The table implements the ownership register of LeaseOwnership.          *)
Holdings ==
  [e \in Entities |->
     {[owner |-> leases[l].owner, expires |-> leases[l].expires] :
        l \in UnreleasedLeases(e)}]

Ownership == INSTANCE LeaseOwnership WITH held <- Holdings

OwnershipSpec == Ownership!Spec
=============================================================================
