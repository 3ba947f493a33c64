---------------------------- MODULE RefreshProofs ----------------------------
(***************************************************************************)
(* Proofs about Refresh, for any number of commands, sources, attempts per *)
(* command, versions and seconds.                                          *)
(*                                                                         *)
(* The invariant comes in three layers, each proved with the ones before   *)
(* it: types, what the audit rests on, and what the files and the ledger   *)
(* have to do with the attempts.                                           *)
(***************************************************************************)
EXTENDS Refresh, TLAPS

-----------------------------------------------------------------------------
(* First layer: types.                                                     *)

TodoInv ==
  \A p \in Procs :
    /\ Len(ops[p].todo) <= MaxTodo
    /\ InFlight(p) => ops[p].todo # <<>>

(* What an adapter reads has been written, by its own attempt or another.  *)
SnapshotInv ==
  \A p \in Procs : ops[p].phase = "captured" => files[StemOf(p)].snapshot # Null

OutcomeInv ==
  \A p \in Procs : ops[p].phase = "finalizing" => ops[p].outcome # Null

TypeInv == TypeOK /\ TodoInv /\ SnapshotInv /\ OutcomeInv

(* A command in flight has a source.                                       *)
LEMMA TodoFacts ==
  ASSUME TypeInv, NEW p \in Procs, InFlight(p)
  PROVE  /\ ops[p] \in Op
         /\ Len(ops[p].todo) \in 1 .. MaxTodo
         /\ Source(p) \in Sources
         /\ AttemptOf(p) \in AttemptIds
         /\ StemOf(p) = <<Source(p), ops[p].second>>
         /\ StemOf(p) \in Sources \X Seconds
         /\ Tail(ops[p].todo) \in Seq(Sources)
         /\ Len(Tail(ops[p].todo)) = Len(ops[p].todo) - 1
<1>1. ops[p] \in Op
  BY DEF TypeInv, TypeOK
<1>2. ops[p].todo \in Seq(Sources) /\ ops[p].second \in Seconds
  BY <1>1 DEF Op
<1>3. ops[p].todo # <<>> /\ Len(ops[p].todo) <= MaxTodo
  BY DEF TypeInv, TodoInv
<1>4. Len(ops[p].todo) \in 1 .. MaxTodo
  BY <1>2, <1>3, BoundAssumption
<1>5. Source(p) \in Sources
  BY <1>2, <1>3 DEF Source
<1> QED
  BY <1>1, <1>2, <1>3, <1>4, <1>5 DEF AttemptOf, AttemptIds, StemOf, Stem

(* The lists of sources that a command may be given.                       *)
LEMMA TodosType ==
  ASSUME NEW todo \in Todos
  PROVE  todo \in Seq(Sources) /\ Len(todo) \in 1 .. MaxTodo
<1>1. PICK n \in 1 .. MaxTodo : todo \in [1 .. n -> Sources]
  BY DEF Todos
<1>2. n \in Nat /\ n <= MaxTodo /\ n >= 1
  BY <1>1, BoundAssumption
<1>3. todo \in Seq(Sources) /\ Len(todo) = n
  BY <1>1, <1>2
<1> QED
  BY <1>2, <1>3, BoundAssumption

(* A command that has not begun any attempt knows nothing.                 *)
LEMMA IdleType ==
  /\ Idle \in Op
  /\ Idle.todo = <<>> /\ Idle.phase = "new" /\ Idle.reconcile = Null
<1>1. <<>> \in Seq(Sources)
  OBVIOUS
<1>2. 0 \in Seconds /\ 0 \in Versions
  BY BoundAssumption DEF Seconds, Versions
<1> QED
  BY <1>1, <1>2 DEF Idle, Op

LEMMA InitTypes == Init => TypeInv
<1> SUFFICES ASSUME Init PROVE TypeInv
  OBVIOUS
<1>0. 0 \in Seconds /\ 0 \in Versions
  BY BoundAssumption DEF Seconds, Versions
<1>1. TypeOK
  <2>1. external \in [Sources -> Versions] /\ ledger \in [Sources -> Versions]
    BY <1>0 DEF Init
  <2>2. clock \in Seconds
    BY <1>0 DEF Init
  <2>3. files \in [Sources \X Seconds -> FileRow]
    BY DEF Init, FileRow
  <2>4. ops \in [Procs -> Op]
    BY IdleType DEF Init
  <2>5. reconciles \in Seq(ReconcileEvent) /\ events \subseteq RefreshEvent /\ attempts \subseteq Attempt
    BY DEF Init
  <2> QED
    BY <2>1, <2>2, <2>3, <2>4, <2>5 DEF TypeOK
<1>2. \A p \in Procs : ops[p] = Idle
  BY DEF Init
<1>3. TodoInv
  BY <1>2, IdleType, BoundAssumption DEF TodoInv, InFlight
<1>4. SnapshotInv /\ OutcomeInv
  BY <1>2, IdleType DEF SnapshotInv, OutcomeInv
<1> QED
  BY <1>1, <1>3, <1>4 DEF TypeInv

(* One command goes on, within its types; the files change only by         *)
(* snapshots and manifests being written.                                  *)
FilesGrow ==
  /\ files' \in [Sources \X Seconds -> FileRow]
  /\ \A f \in Sources \X Seconds :
       files[f].snapshot # Null => files'[f].snapshot # Null

LEMMA OpStep ==
  ASSUME TypeInv, NEW p \in Procs, NEW op \in Op,
         ops' = [ops EXCEPT ![p] = op],
         Len(op.todo) <= MaxTodo,
         op.phase \notin {"new", "over", "escaped", "died"} => op.todo # <<>>,
         op.phase = "captured" => files'[Stem(Head(op.todo), op.second)].snapshot # Null,
         op.phase = "finalizing" => op.outcome # Null,
         FilesGrow
  PROVE  /\ ops' \in [Procs -> Op]
         /\ TodoInv' /\ SnapshotInv' /\ OutcomeInv'
<1>1. ops' \in [Procs -> Op]
  BY DEF TypeInv, TypeOK
<1>2. ops'[p] = op /\ \A q \in Procs : q # p => ops'[q] = ops[q]
  BY DEF TypeInv, TypeOK
<1>3. TodoInv'
  BY <1>2 DEF TypeInv, TodoInv, InFlight
<1>4. SnapshotInv'
  <2> SUFFICES ASSUME NEW q \in Procs, ops'[q].phase = "captured"
               PROVE  files'[StemOf(q)'].snapshot # Null
    BY DEF SnapshotInv
  <2>1. CASE q = p
    BY <1>2, <2>1 DEF StemOf, Source
  <2>2. CASE q # p
    <3>1. ops'[q] = ops[q]
      BY <1>2, <2>2
    <3>2. InFlight(q)
      BY <3>1 DEF InFlight
    <3>3. StemOf(q)' = StemOf(q) /\ StemOf(q) \in Sources \X Seconds
      BY <3>1, <3>2, TodoFacts DEF StemOf, Source, Stem
    <3>4. files[StemOf(q)].snapshot # Null
      BY <3>1 DEF TypeInv, SnapshotInv
    <3> QED
      BY <3>3, <3>4 DEF FilesGrow
  <2> QED
    BY <2>1, <2>2
<1>5. OutcomeInv'
  BY <1>2 DEF TypeInv, OutcomeInv
<1> QED
  BY <1>1, <1>3, <1>4, <1>5

(* Files that stay as they are have not lost anything.                     *)
LEMMA SameFiles == TypeOK /\ UNCHANGED files => FilesGrow
BY DEF TypeOK, FilesGrow

(* A file that is written.                                                 *)
LEMMA SnapshotWritten ==
  ASSUME TypeInv, NEW p \in Procs, ops[p].phase = "fetched", files' = WithSnapshot(p)
  PROVE  /\ FilesGrow
         /\ files'[StemOf(p)].snapshot = ops[p].data
         /\ files'[StemOf(p)].snapshot # Null
         /\ \A f \in Sources \X Seconds : files'[f].manifest = files[f].manifest
         /\ \A f \in Sources \X Seconds : f # StemOf(p) => files'[f] = files[f]
<1>1. InFlight(p)
  BY DEF InFlight
<1>2. StemOf(p) \in Sources \X Seconds /\ ops[p].data \in Versions
  BY <1>1, TodoFacts DEF Op
<1>3. ops[p].data # Null
  BY <1>2, NullAssumption DEF Versions
<1>4. files \in [Sources \X Seconds -> FileRow]
  BY DEF TypeInv, TypeOK
<1>5. files[StemOf(p)] \in FileRow
  BY <1>2, <1>4
<1>6. [files[StemOf(p)] EXCEPT !.snapshot = ops[p].data] \in FileRow
  BY <1>2, <1>5 DEF FileRow
<1>7. files' = [files EXCEPT ![StemOf(p)] = [files[StemOf(p)] EXCEPT !.snapshot = ops[p].data]]
  BY DEF WithSnapshot
<1> DEFINE row == [files[StemOf(p)] EXCEPT !.snapshot = ops[p].data]
<1>8. files' \in [Sources \X Seconds -> FileRow]
  BY <1>4, <1>6, <1>7
<1>9. files'[StemOf(p)] = row /\ \A f \in Sources \X Seconds : f # StemOf(p) => files'[f] = files[f]
  BY <1>2, <1>4, <1>7
<1>10. row.snapshot = ops[p].data /\ row.manifest = files[StemOf(p)].manifest
  BY <1>5 DEF FileRow
<1> HIDE DEF row
<1> QED
  BY <1>3, <1>8, <1>9, <1>10 DEF FilesGrow

LEMMA ManifestWritten ==
  ASSUME TypeInv, NEW p \in Procs, Adapt(p)
  PROVE  /\ FilesGrow
         /\ files[StemOf(p)].snapshot \in Versions
         /\ files'[StemOf(p)].manifest = files[StemOf(p)].snapshot
         /\ \A f \in Sources \X Seconds : files'[f].snapshot = files[f].snapshot
         /\ \A f \in Sources \X Seconds : f # StemOf(p) => files'[f] = files[f]
<1>1. InFlight(p) /\ ops[p].phase = "captured"
  BY DEF Adapt, InFlight
<1>2. StemOf(p) \in Sources \X Seconds
  BY <1>1, TodoFacts
<1>3. files \in [Sources \X Seconds -> FileRow]
  BY DEF TypeInv, TypeOK
<1>4. files[StemOf(p)] \in FileRow
  BY <1>2, <1>3
<1> DEFINE v == files[StemOf(p)].snapshot
           row == [files[StemOf(p)] EXCEPT !.manifest = v]
<1>5. v \in Versions
  <2>1. v # Null
    BY <1>1 DEF TypeInv, SnapshotInv
  <2> QED
    BY <1>4, <2>1 DEF FileRow
<1>6. row \in FileRow
  BY <1>4, <1>5 DEF FileRow
<1>7. files' = [files EXCEPT ![StemOf(p)] = row]
  BY DEF Adapt
<1>8. row.manifest = v /\ row.snapshot = v
  BY <1>4 DEF FileRow
<1>9. files'[StemOf(p)] = row /\ \A f \in Sources \X Seconds : f # StemOf(p) => files'[f] = files[f]
  BY <1>2, <1>3, <1>7
<1>10. files' \in [Sources \X Seconds -> FileRow]
  BY <1>3, <1>6, <1>7
<1> HIDE DEF row
<1> QED
  BY <1>5, <1>8, <1>9, <1>10 DEF FilesGrow
-----------------------------------------------------------------------------
(* Every outcome that an action names is an outcome.                       *)
LEMMA OutcomesExist ==
  /\ <<"failed", "helper">> \in Outcomes /\ <<"failed", "adapter">> \in Outcomes
  /\ <<"failed", "reconcile">> \in Outcomes /\ <<"dry_run", "reconcile">> \in Outcomes
  /\ <<"applied", "reconcile">> \in Outcomes
  /\ \A o \in Outcomes : o # Null
BY NullAssumption DEF Outcomes

(* An attempt that fails, or ends without an application.                  *)
LEMMA EndsStep ==
  ASSUME TypeInv, NEW p \in Procs, InFlight(p), FilesGrow,
         NEW outcome \in Outcomes, Ends(p, outcome)
  PROVE  /\ ops' \in [Procs -> Op]
         /\ TodoInv' /\ SnapshotInv' /\ OutcomeInv'
<1> DEFINE op == [ops[p] EXCEPT !.phase = "finalizing", !.data = 0, !.seen = 0, !.outcome = outcome]
<1>1. ops[p] \in Op /\ Len(ops[p].todo) \in 1 .. MaxTodo
  BY TodoFacts
<1>2. 0 \in Versions /\ 0 \in Nat
  BY BoundAssumption DEF Versions
<1>3. op \in Op
  BY <1>1, <1>2 DEF Op
<1>4. op.phase = "finalizing" /\ op.todo = ops[p].todo /\ op.outcome = outcome
  BY <1>1 DEF Op
<1>5. op.todo # <<>> /\ Len(op.todo) <= MaxTodo
  BY <1>4 DEF TypeInv, TodoInv
<1>6. ops' = [ops EXCEPT ![p] = op]
  BY DEF Ends
<1> HIDE DEF op
<1> QED
  BY <1>3, <1>4, <1>5, <1>6, OpStep, OutcomesExist

(* A command that leaves keeps only the sources that it had not done.      *)
LEMMA LeavesStep ==
  ASSUME TypeInv, NEW p \in Procs, NEW phase \in {"escaped", "died"},
         Leaves(p, phase), UNCHANGED files
  PROVE  /\ ops' \in [Procs -> Op]
         /\ TodoInv' /\ SnapshotInv' /\ OutcomeInv'
<1> DEFINE op == [Idle EXCEPT !.phase = phase, !.todo = ops[p].todo]
<1>1. ops[p].todo \in Seq(Sources) /\ Len(ops[p].todo) <= MaxTodo
  BY DEF TypeInv, TypeOK, TodoInv, Op
<1>2. op \in Op
  BY <1>1, IdleType DEF Op
<1>3. op.phase = phase /\ op.todo = ops[p].todo
  BY DEF Idle
<1>4. ops' = [ops EXCEPT ![p] = op]
  BY DEF Leaves
<1>5. FilesGrow
  BY SameFiles DEF TypeInv
<1> HIDE DEF op
<1> QED
  BY <1>1, <1>2, <1>3, <1>4, <1>5, OpStep

LEMMA TypeStep == TypeInv /\ [Next]_vars => TypeInv'
<1> SUFFICES ASSUME TypeInv, [Next]_vars PROVE TypeInv'
  OBVIOUS
<1> USE DEF TypeInv
<1>1. ASSUME NEW s \in Sources, Advance(s) PROVE TypeInv'
  <2>1. external' \in [Sources -> Versions]
    BY <1>1, BoundAssumption DEF Advance, TypeOK, Versions
  <2> QED
    BY <1>1, <2>1 DEF Advance, TypeOK, TodoInv, SnapshotInv, OutcomeInv, InFlight, StemOf, Source, Stem
<1>2. CASE Tick
  <2>1. clock' \in Seconds
    BY <1>2, BoundAssumption DEF Tick, TypeOK, Seconds
  <2> QED
    BY <1>2, <2>1 DEF Tick, TypeOK, TodoInv, SnapshotInv, OutcomeInv, InFlight, StemOf, Source, Stem
<1>3. ASSUME NEW p \in Procs, NEW todo \in Todos, NEW apply \in BOOLEAN, Begin(p, todo, apply)
      PROVE  TypeInv'
  <2> DEFINE op == [ops[p] EXCEPT !.phase = "ready", !.todo = todo, !.apply = apply]
  <2>1. todo \in Seq(Sources) /\ Len(todo) \in 1 .. MaxTodo
    BY TodosType
  <2>2. ops[p] \in Op
    BY DEF TypeOK
  <2>3. op \in Op
    BY <2>1, <2>2 DEF Op
  <2>4. op.phase = "ready" /\ op.todo = todo
    BY <2>2 DEF Op
  <2>5. ops' = [ops EXCEPT ![p] = op] /\ FilesGrow
    BY <1>3, SameFiles DEF Begin
  <2>6. Len(op.todo) <= MaxTodo /\ op.todo # <<>>
    BY <2>1, <2>4, BoundAssumption
  <2> HIDE DEF op
  <2>7. ops' \in [Procs -> Op] /\ TodoInv' /\ SnapshotInv' /\ OutcomeInv'
    BY <2>3, <2>4, <2>5, <2>6, OpStep
  <2> QED
    BY <1>3, <2>7 DEF Begin, TypeOK
<1>4. ASSUME NEW p \in Procs, OpenPaths(p) PROVE TypeInv'
  <2> DEFINE op == [ops[p] EXCEPT !.phase = "opened", !.second = clock]
  <2>1. InFlight(p)
    BY <1>4 DEF OpenPaths, InFlight
  <2>2. ops[p] \in Op /\ clock \in Seconds /\ Source(p) \in Sources /\ AttemptOf(p) \in AttemptIds
    BY <2>1, TodoFacts DEF TypeOK
  <2>3. op \in Op /\ op.phase = "opened" /\ op.todo = ops[p].todo
    BY <2>2 DEF Op
  <2>4. ops' = [ops EXCEPT ![p] = op] /\ FilesGrow
    BY <1>4, SameFiles DEF OpenPaths
  <2>5. Len(op.todo) <= MaxTodo /\ op.todo # <<>>
    BY <2>1, <2>3 DEF TodoInv
  <2> HIDE DEF op
  <2>6. ops' \in [Procs -> Op] /\ TodoInv' /\ SnapshotInv' /\ OutcomeInv'
    BY <2>3, <2>4, <2>5, OpStep
  <2>7. attempts' \subseteq Attempt
    BY <1>4, <2>2 DEF OpenPaths, TypeOK, Attempt
  <2> QED
    BY <1>4, <2>6, <2>7 DEF OpenPaths, TypeOK
<1>5. ASSUME NEW p \in Procs, Fetch(p) PROVE TypeInv'
  <2> DEFINE op == [ops[p] EXCEPT !.phase = "fetched", !.data = external[Source(p)], !.seen = Len(reconciles)]
  <2>1. InFlight(p)
    BY <1>5 DEF Fetch, InFlight
  <2>2. ops[p] \in Op /\ external[Source(p)] \in Versions /\ Len(reconciles) \in Nat
    BY <2>1, TodoFacts DEF TypeOK
  <2>3. op \in Op /\ op.phase = "fetched" /\ op.todo = ops[p].todo
    BY <2>2 DEF Op
  <2>4. ops' = [ops EXCEPT ![p] = op] /\ FilesGrow
    BY <1>5, SameFiles DEF Fetch
  <2>5. Len(op.todo) <= MaxTodo /\ op.todo # <<>>
    BY <2>1, <2>3 DEF TodoInv
  <2> HIDE DEF op
  <2>6. ops' \in [Procs -> Op] /\ TodoInv' /\ SnapshotInv' /\ OutcomeInv'
    BY <2>3, <2>4, <2>5, OpStep
  <2> QED
    BY <1>5, <2>6 DEF Fetch, TypeOK
<1>6. ASSUME NEW p \in Procs, Capture(p) PROVE TypeInv'
  <2> DEFINE op == [ops[p] EXCEPT !.phase = "captured", !.data = 0]
  <2>1. InFlight(p)
    BY <1>6 DEF Capture, InFlight
  <2>2. ops[p] \in Op /\ 0 \in Versions
    BY <2>1, TodoFacts, BoundAssumption DEF Versions
  <2>3. op \in Op /\ op.phase = "captured" /\ op.todo = ops[p].todo /\ op.second = ops[p].second
    BY <2>2 DEF Op
  <2>4. ops' = [ops EXCEPT ![p] = op]
    BY <1>6 DEF Capture
  <2>5. FilesGrow /\ files'[StemOf(p)].snapshot # Null
    BY <1>6, SnapshotWritten DEF Capture
  <2>6. Len(op.todo) <= MaxTodo /\ op.todo # <<>>
    BY <2>1, <2>3 DEF TodoInv
  <2>7. Stem(Head(op.todo), op.second) = StemOf(p)
    BY <2>3 DEF StemOf, Source
  <2> HIDE DEF op
  <2>8. ops' \in [Procs -> Op] /\ TodoInv' /\ SnapshotInv' /\ OutcomeInv'
    BY <2>3, <2>4, <2>5, <2>6, <2>7, OpStep
  <2> QED
    BY <1>6, <2>5, <2>8 DEF Capture, TypeOK, FilesGrow
<1>7. ASSUME NEW p \in Procs, HelperFails(p) PROVE TypeInv'
  <2>1. InFlight(p)
    BY <1>7 DEF HelperFails, InFlight
  <2>2. FilesGrow
    BY <1>7, SameFiles, SnapshotWritten DEF HelperFails
  <2>3. ops' \in [Procs -> Op] /\ TodoInv' /\ SnapshotInv' /\ OutcomeInv'
    BY <1>7, <2>1, <2>2, EndsStep, OutcomesExist DEF HelperFails
  <2> QED
    BY <1>7, <2>2, <2>3 DEF HelperFails, TypeOK, FilesGrow
<1>8. ASSUME NEW p \in Procs, Adapt(p) PROVE TypeInv'
  <2> DEFINE v == files[StemOf(p)].snapshot
             op == [ops[p] EXCEPT !.phase = "adapted", !.data = v]
  <2>1. InFlight(p)
    BY <1>8 DEF Adapt, InFlight
  <2>2. ops[p] \in Op /\ v \in Versions /\ FilesGrow
    BY <1>8, <2>1, TodoFacts, ManifestWritten
  <2>3. op \in Op /\ op.phase = "adapted" /\ op.todo = ops[p].todo
    BY <2>2 DEF Op
  <2>4. ops' = [ops EXCEPT ![p] = op]
    BY <1>8 DEF Adapt
  <2>5. Len(op.todo) <= MaxTodo /\ op.todo # <<>>
    BY <2>1, <2>3 DEF TodoInv
  <2> HIDE DEF op
  <2>6. ops' \in [Procs -> Op] /\ TodoInv' /\ SnapshotInv' /\ OutcomeInv'
    BY <2>2, <2>3, <2>4, <2>5, OpStep
  <2> QED
    BY <1>8, <2>2, <2>6 DEF Adapt, TypeOK, FilesGrow
<1>9. ASSUME NEW p \in Procs, AdapterFails(p) PROVE TypeInv'
  <2>1. ops' \in [Procs -> Op] /\ TodoInv' /\ SnapshotInv' /\ OutcomeInv'
    BY <1>9, EndsStep, OutcomesExist, SameFiles DEF AdapterFails, InFlight
  <2> QED
    BY <1>9, <2>1 DEF AdapterFails, TypeOK
<1>10. ASSUME NEW p \in Procs, AdapterEscapes(p) PROVE TypeInv'
  <2>1. ops' \in [Procs -> Op] /\ TodoInv' /\ SnapshotInv' /\ OutcomeInv'
    BY <1>10, LeavesStep DEF AdapterEscapes
  <2> QED
    BY <1>10, <2>1 DEF AdapterEscapes, TypeOK
<1>11. ASSUME NEW p \in Procs, Apply(p) PROVE TypeInv'
  <2> DEFINE row == [attempt |-> AttemptOf(p), source |-> Source(p), version |-> ops[p].data]
             op == [ops[p] EXCEPT !.phase = "finalizing", !.data = 0, !.seen = 0,
                      !.outcome = <<"applied", "reconcile">>, !.reconcile = Len(reconciles) + 1]
  <2>1. InFlight(p)
    BY <1>11 DEF Apply, InFlight
  <2>2. ops[p] \in Op /\ 0 \in Versions /\ Source(p) \in Sources /\ AttemptOf(p) \in AttemptIds
    BY <2>1, TodoFacts, BoundAssumption DEF Versions
  <2>3. reconciles \in Seq(ReconcileEvent) /\ Len(reconciles) + 1 \in Nat
    BY DEF TypeOK
  <2>4. op \in Op
    BY <2>2, <2>3, OutcomesExist DEF Op
  <2>5. op.phase = "finalizing" /\ op.todo = ops[p].todo /\ op.outcome = <<"applied", "reconcile">>
    BY <2>2 DEF Op
  <2>6. ops' = [ops EXCEPT ![p] = op] /\ FilesGrow
    BY <1>11, SameFiles DEF Apply
  <2>7. Len(op.todo) <= MaxTodo /\ op.todo # <<>>
    BY <2>1, <2>5 DEF TodoInv
  <2> HIDE DEF op
  <2>8. ops' \in [Procs -> Op] /\ TodoInv' /\ SnapshotInv' /\ OutcomeInv'
    BY <2>4, <2>5, <2>6, <2>7, OpStep, OutcomesExist
  <2>9. row \in ReconcileEvent
    BY <2>2 DEF ReconcileEvent, Op
  <2>10. reconciles' \in Seq(ReconcileEvent)
    BY <1>11, <2>3, <2>9 DEF Apply
  <2>11. ledger' \in [Sources -> Versions]
    BY <1>11, <2>2 DEF Apply, TypeOK, Op
  <2> QED
    BY <1>11, <2>8, <2>10, <2>11 DEF Apply, TypeOK
<1>12. ASSUME NEW p \in Procs, DryRun(p) PROVE TypeInv'
  <2>1. ops' \in [Procs -> Op] /\ TodoInv' /\ SnapshotInv' /\ OutcomeInv'
    BY <1>12, EndsStep, OutcomesExist, SameFiles DEF DryRun, InFlight
  <2> QED
    BY <1>12, <2>1 DEF DryRun, TypeOK
<1>13. ASSUME NEW p \in Procs, ReconcileFails(p) PROVE TypeInv'
  <2>1. ops' \in [Procs -> Op] /\ TodoInv' /\ SnapshotInv' /\ OutcomeInv'
    BY <1>13, EndsStep, OutcomesExist, SameFiles DEF ReconcileFails, InFlight
  <2> QED
    BY <1>13, <2>1 DEF ReconcileFails, TypeOK
<1>14. ASSUME NEW p \in Procs, Finalize(p) PROVE TypeInv'
  <2>1. InFlight(p)
    BY <1>14 DEF Finalize, InFlight
  <2>2. /\ ops[p] \in Op /\ Tail(ops[p].todo) \in Seq(Sources)
        /\ Len(Tail(ops[p].todo)) <= MaxTodo
        /\ AttemptOf(p) \in AttemptIds /\ Source(p) \in Sources
        /\ StemOf(p) \in Sources \X Seconds
    BY <2>1, TodoFacts, BoundAssumption
  <2>3. Event(p) \in RefreshEvent
    BY <1>14, <2>2 DEF Finalize, OutcomeInv, Event, Reference, RefreshEvent, Op
  <2>4. FilesGrow
    BY <1>14, SameFiles DEF Finalize
  <2>5. ops' \in [Procs -> Op] /\ TodoInv' /\ SnapshotInv' /\ OutcomeInv'
    <3>1. CASE Remaining(p) = <<>>
      <4> DEFINE op == [Idle EXCEPT !.phase = "over"]
      <4>1. op \in Op
        BY IdleType DEF Op
      <4>2. op.phase = "over" /\ op.todo = <<>>
        BY DEF Idle
      <4>3. ops' = [ops EXCEPT ![p] = op]
        BY <1>14, <3>1 DEF Finalize
      <4>4. Len(op.todo) <= MaxTodo
        BY <4>2, BoundAssumption
      <4> HIDE DEF op
      <4> QED
        BY <2>4, <4>1, <4>2, <4>3, <4>4, OpStep
    <3>2. CASE Remaining(p) # <<>>
      <4> DEFINE op == [Idle EXCEPT !.phase = "ready", !.todo = Remaining(p), !.apply = ops[p].apply]
      <4>1. op \in Op
        BY <2>2, IdleType DEF Op, Remaining
      <4>2. op.phase = "ready" /\ op.todo = Remaining(p)
        BY DEF Idle
      <4>3. ops' = [ops EXCEPT ![p] = op]
        BY <1>14, <3>2 DEF Finalize
      <4>4. Len(op.todo) <= MaxTodo
        BY <2>2, <4>2 DEF Remaining
      <4> HIDE DEF op
      <4> QED
        BY <2>4, <3>2, <4>1, <4>2, <4>3, <4>4, OpStep
    <3> QED
      BY <3>1, <3>2
  <2> QED
    BY <1>14, <2>3, <2>5 DEF Finalize, TypeOK
<1>15. ASSUME NEW p \in Procs, Die(p) PROVE TypeInv'
  <2>1. ops' \in [Procs -> Op] /\ TodoInv' /\ SnapshotInv' /\ OutcomeInv'
    BY <1>15, LeavesStep DEF Die
  <2> QED
    BY <1>15, <2>1 DEF Die, TypeOK
<1>16. CASE UNCHANGED vars
  BY <1>16 DEF vars, TypeOK, TodoInv, SnapshotInv, OutcomeInv, InFlight, StemOf, Source, Stem
<1> QED
  BY <1>1, <1>2, <1>3, <1>4, <1>5, <1>6, <1>7, <1>8, <1>9, <1>10, <1>11, <1>12, <1>13, <1>14,
     <1>15, <1>16 DEF Next, Step
-----------------------------------------------------------------------------
(* Second layer: what the audit rests on.                                  *)

(* A recorded attempt belongs to a command that has gone past it.          *)
EventsPast ==
  \A e \in events :
    LET a == e.attempt
    IN  ops[a[1]].phase # "new" /\ a[2] > Len(ops[a[1]].todo)

(* A reconcile is held by the command that still has to record it, was     *)
(* lost with that command, or is named by the event of its attempt.        *)
Held(i) ==
  LET a == reconciles[i].attempt
      op == ops[a[1]]
  IN  /\ op.phase # "new" /\ a[2] >= Len(op.todo)
      /\ a[2] = Len(op.todo) =>
           \/ op.phase = "finalizing" /\ op.reconcile = i
           \/ op.phase \in {"died", "escaped"}
      /\ a[2] > Len(op.todo) => \E e \in events : e.attempt = a /\ e.reconcile = i

ReconcilesHeld == \A i \in DOMAIN reconciles : Held(i)

(* What a command that is about to record its attempt knows of it.         *)
FinalizingInv ==
  \A p \in Procs :
    IF ops[p].phase = "finalizing" /\ ops[p].outcome[1] = "applied"
    THEN /\ ops[p].reconcile \in DOMAIN reconciles
         /\ reconciles[ops[p].reconcile].attempt = AttemptOf(p)
         /\ reconciles[ops[p].reconcile].source = Source(p)
    ELSE ops[p].reconcile = Null

(* The second half of AuditMatchesReconciles.                              *)
EventsMatch ==
  \A e \in events :
    IF e.outcome[1] = "applied"
    THEN /\ e.reconcile \in DOMAIN reconciles
         /\ reconciles[e.reconcile].attempt = e.attempt
         /\ reconciles[e.reconcile].source = e.source
    ELSE /\ e.reconcile = Null
         /\ \A i \in DOMAIN reconciles : reconciles[i].attempt # e.attempt

AuditInv == EventsPast /\ ReconcilesHeld /\ FinalizingInv /\ EventsMatch

(* The rows that the audit consists of.                                    *)
LEMMA AuditTypes ==
  ASSUME TypeInv
  PROVE  /\ reconciles \in Seq(ReconcileEvent)
         /\ Len(reconciles) \in Nat /\ DOMAIN reconciles = 1 .. Len(reconciles)
         /\ \A i \in DOMAIN reconciles :
              /\ reconciles[i] \in ReconcileEvent
              /\ reconciles[i].attempt \in AttemptIds
              /\ reconciles[i].attempt[1] \in Procs
         /\ \A e \in events :
              /\ e \in RefreshEvent
              /\ e.attempt \in AttemptIds
              /\ e.attempt[1] \in Procs
<1>1. reconciles \in Seq(ReconcileEvent) /\ events \subseteq RefreshEvent
  BY DEF TypeInv, TypeOK
<1>2. Len(reconciles) \in Nat /\ DOMAIN reconciles = 1 .. Len(reconciles)
  BY <1>1
<1>3. \A i \in DOMAIN reconciles : reconciles[i] \in ReconcileEvent
  BY <1>1
<1> QED
  BY <1>1, <1>2, <1>3 DEF ReconcileEvent, RefreshEvent, AttemptIds

LEMMA AuditInvSuffices == TypeInv /\ AuditInv => AuditMatchesReconciles
<1> SUFFICES ASSUME TypeInv, AuditInv PROVE AuditMatchesReconciles
  OBVIOUS
<1>1. ASSUME NEW i \in DOMAIN reconciles
      PROVE  LET a == reconciles[i].attempt
             IN  \/ \E e \in events : e.attempt = a /\ e.reconcile = i
                 \/ InFlight(a[1]) /\ AttemptOf(a[1]) = a
                 \/ Lost(a)
  <2> DEFINE a == reconciles[i].attempt
  <2>1. a \in AttemptIds
    BY AuditTypes
  <2>2. PICK p \in Procs, n \in 1 .. MaxTodo : a = <<p, n>>
    BY <2>1 DEF AttemptIds
  <2>3. Held(i)
    BY DEF AuditInv, ReconcilesHeld
  <2>4. ops[p] \in Op /\ Len(ops[p].todo) \in Nat /\ n \in Nat
    BY BoundAssumption DEF TypeInv, TypeOK, Op
  <2>5. CASE n = Len(ops[p].todo)
    BY <2>2, <2>3, <2>5 DEF Held, InFlight, AttemptOf, Lost
  <2>6. CASE n # Len(ops[p].todo)
    BY <2>2, <2>3, <2>4, <2>6 DEF Held
  <2> QED
    BY <2>5, <2>6
<1>2. ASSUME NEW e \in events
      PROVE  IF e.outcome[1] = "applied"
             THEN /\ e.reconcile \in DOMAIN reconciles
                  /\ reconciles[e.reconcile].attempt = e.attempt
                  /\ reconciles[e.reconcile].source = e.source
             ELSE \A i \in DOMAIN reconciles : reconciles[i].attempt # e.attempt
  BY DEF AuditInv, EventsMatch
<1> QED
  BY <1>1, <1>2 DEF AuditMatchesReconciles

(* A command p takes a step that neither the audit nor the reconciles see: *)
(* it goes on with the same sources, has nothing applied to record, or is  *)
(* gone.                                                                   *)
Quiet(p) ==
  /\ UNCHANGED <<reconciles, events>>
  /\ \A q \in Procs : q # p => ops'[q] = ops[q]
  /\ ops'[p].todo = ops[p].todo
  /\ ops'[p].phase # "new"
  /\ ops'[p].reconcile = Null
  /\ ops'[p].phase = "finalizing" => ops'[p].outcome[1] # "applied"
  /\ ops[p].phase = "finalizing" => ops'[p].phase = "died"

LEMMA QuietStep ==
  ASSUME TypeInv, AuditInv, NEW p \in Procs, InFlight(p), Quiet(p)
  PROVE  AuditInv'
<1> USE DEF Quiet
<1>1. \A q \in Procs : ops'[q].todo = ops[q].todo /\ (ops[q].phase # "new" => ops'[q].phase # "new")
  OBVIOUS
<1>2. \A e \in events : e.attempt \in AttemptIds /\ e.attempt[1] \in Procs
  BY AuditTypes
<1>3. \A i \in DOMAIN reconciles : reconciles[i].attempt \in AttemptIds /\ reconciles[i].attempt[1] \in Procs
  BY AuditTypes
<1>4. EventsPast'
  BY <1>1, <1>2 DEF AuditInv, EventsPast
<1>5. ReconcilesHeld'
  <2> SUFFICES ASSUME NEW i \in DOMAIN reconciles PROVE Held(i)'
    BY DEF ReconcilesHeld
  <2>1. Held(i)
    BY DEF AuditInv, ReconcilesHeld
  <2>2. CASE reconciles[i].attempt[1] = p
    BY <1>1, <1>3, <2>1, <2>2 DEF Held, InFlight
  <2>3. CASE reconciles[i].attempt[1] # p
    BY <1>3, <2>1, <2>3 DEF Held
  <2> QED
    BY <2>2, <2>3
<1>6. FinalizingInv'
  <2> SUFFICES ASSUME NEW q \in Procs
               PROVE IF ops'[q].phase = "finalizing" /\ ops'[q].outcome[1] = "applied"
                     THEN /\ ops'[q].reconcile \in DOMAIN reconciles'
                          /\ reconciles'[ops'[q].reconcile].attempt = AttemptOf(q)'
                          /\ reconciles'[ops'[q].reconcile].source = Source(q)'
                     ELSE ops'[q].reconcile = Null
    BY DEF FinalizingInv
  <2>1. CASE q = p
    BY <2>1
  <2>2. CASE q # p
    BY <2>2 DEF AuditInv, FinalizingInv, AttemptOf, Source
  <2> QED
    BY <2>1, <2>2
<1>7. EventsMatch'
  BY DEF AuditInv, EventsMatch
<1> QED
  BY <1>4, <1>5, <1>6, <1>7 DEF AuditInv

(* The steps that do not touch the database are quiet.                     *)
LEMMA QuietActions ==
  ASSUME TypeInv, AuditInv, NEW p \in Procs,
         \/ OpenPaths(p) \/ Fetch(p) \/ Capture(p) \/ HelperFails(p)
         \/ Adapt(p) \/ AdapterFails(p) \/ AdapterEscapes(p)
         \/ DryRun(p) \/ ReconcileFails(p) \/ Die(p)
  PROVE  InFlight(p) /\ Quiet(p)
<1>1. ops \in [Procs -> Op] /\ ops[p] \in Op
  BY DEF TypeInv, TypeOK
<1>2. InFlight(p)
  BY DEF InFlight, OpenPaths, Fetch, Capture, HelperFails, Adapt, AdapterFails, AdapterEscapes,
         DryRun, ReconcileFails, Die
<1>3. ops[p].phase # "finalizing" => ops[p].reconcile = Null
  BY DEF AuditInv, FinalizingInv
<1>4. CASE OpenPaths(p)
  BY <1>1, <1>2, <1>3, <1>4 DEF OpenPaths, Quiet, Op
<1>5. CASE Fetch(p)
  BY <1>1, <1>2, <1>3, <1>5 DEF Fetch, Quiet, Op
<1>6. CASE Capture(p)
  BY <1>1, <1>2, <1>3, <1>6 DEF Capture, Quiet, Op
<1>7. CASE HelperFails(p)
  BY <1>1, <1>2, <1>3, <1>7 DEF HelperFails, Ends, Quiet, Op
<1>8. CASE Adapt(p)
  BY <1>1, <1>2, <1>3, <1>8 DEF Adapt, Quiet, Op
<1>9. CASE AdapterFails(p)
  BY <1>1, <1>2, <1>3, <1>9 DEF AdapterFails, Ends, Quiet, Op
<1>10. CASE AdapterEscapes(p)
  BY <1>1, <1>2, <1>10 DEF AdapterEscapes, Leaves, Idle, Quiet
<1>11. CASE DryRun(p)
  BY <1>1, <1>2, <1>3, <1>11 DEF DryRun, Ends, Quiet, Op
<1>12. CASE ReconcileFails(p)
  BY <1>1, <1>2, <1>3, <1>12 DEF ReconcileFails, Ends, Quiet, Op
<1>13. CASE Die(p)
  BY <1>1, <1>2, <1>13 DEF Die, Leaves, Idle, Quiet
<1> QED
  BY <1>2, <1>4, <1>5, <1>6, <1>7, <1>8, <1>9, <1>10, <1>11, <1>12, <1>13

(* Attempts of commands that are not at work are in no event yet.          *)
LEMMA BeginAudit ==
  ASSUME TypeInv, AuditInv, NEW p \in Procs, NEW todo \in Todos, NEW apply \in BOOLEAN,
         Begin(p, todo, apply)
  PROVE  AuditInv'
<1>1. ops \in [Procs -> Op] /\ ops[p] \in Op /\ ops[p].phase = "new"
  BY DEF TypeInv, TypeOK, Begin
<1>2. /\ \A q \in Procs : q # p => ops'[q] = ops[q]
      /\ ops'[p].phase = "ready" /\ ops'[p].reconcile = ops[p].reconcile
      /\ UNCHANGED <<reconciles, events>>
  BY <1>1 DEF Begin, Op
<1>3. \A e \in events : e.attempt[1] \in Procs /\ e.attempt[1] # p
  BY <1>1, AuditTypes DEF AuditInv, EventsPast
<1>4. \A i \in DOMAIN reconciles : reconciles[i].attempt[1] \in Procs /\ reconciles[i].attempt[1] # p
  BY <1>1, AuditTypes DEF AuditInv, ReconcilesHeld, Held
<1>5. EventsPast'
  BY <1>2, <1>3 DEF AuditInv, EventsPast
<1>6. ReconcilesHeld'
  BY <1>2, <1>4 DEF AuditInv, ReconcilesHeld, Held
<1>7. FinalizingInv'
  BY <1>1, <1>2 DEF AuditInv, FinalizingInv, AttemptOf, Source
<1>8. EventsMatch'
  BY <1>2 DEF AuditInv, EventsMatch
<1> QED
  BY <1>5, <1>6, <1>7, <1>8 DEF AuditInv

(* The transaction of a reconcile.                                         *)
LEMMA ApplyAudit ==
  ASSUME TypeInv, AuditInv, NEW p \in Procs, Apply(p)
  PROVE  AuditInv'
<1> DEFINE n == Len(reconciles) + 1
<1>1. ops \in [Procs -> Op] /\ ops[p] \in Op /\ ops[p].phase = "adapted" /\ InFlight(p)
  BY DEF TypeInv, TypeOK, Apply, InFlight
<1>2. reconciles \in Seq(ReconcileEvent) /\ Len(reconciles) \in Nat /\ n \in Nat
  BY DEF TypeInv, TypeOK
<1>3. /\ Len(reconciles') = n
      /\ DOMAIN reconciles' = 1 .. n /\ DOMAIN reconciles = 1 .. Len(reconciles)
      /\ \A i \in DOMAIN reconciles : reconciles'[i] = reconciles[i]
      /\ reconciles'[n].attempt = AttemptOf(p) /\ reconciles'[n].source = Source(p)
  BY <1>1, <1>2 DEF Apply
<1>4. /\ \A q \in Procs : q # p => ops'[q] = ops[q]
      /\ ops'[p].phase = "finalizing" /\ ops'[p].todo = ops[p].todo /\ ops'[p].reconcile = n
      /\ ops'[p].outcome = <<"applied", "reconcile">>
      /\ UNCHANGED events
  BY <1>1 DEF Apply, Op
<1>5. Len(ops[p].todo) \in Nat
  BY <1>1, TodoFacts, BoundAssumption
<1>6. \A e \in events : e.attempt \in AttemptIds /\ e.attempt[1] \in Procs
  BY AuditTypes
<1>7. \A i \in DOMAIN reconciles : reconciles[i].attempt \in AttemptIds /\ reconciles[i].attempt[1] \in Procs
  BY AuditTypes
<1>8. EventsPast'
  BY <1>4, <1>6 DEF AuditInv, EventsPast
<1>9. ReconcilesHeld'
  <2> SUFFICES ASSUME NEW i \in DOMAIN reconciles' PROVE Held(i)'
    BY DEF ReconcilesHeld
  <2>1. CASE i = n
    BY <1>3, <1>4, <1>5, <2>1 DEF Held, AttemptOf
  <2>2. CASE i # n
    <3>1. i \in DOMAIN reconciles /\ reconciles'[i] = reconciles[i] /\ Held(i)
      BY <1>2, <1>3, <2>2 DEF AuditInv, ReconcilesHeld
    <3>2. CASE reconciles[i].attempt[1] = p
      BY <1>1, <1>4, <1>7, <3>1, <3>2 DEF Held
    <3>3. CASE reconciles[i].attempt[1] # p
      BY <1>4, <1>7, <3>1, <3>3 DEF Held
    <3> QED
      BY <3>2, <3>3
  <2> QED
    BY <2>1, <2>2
<1>10. FinalizingInv'
  <2> SUFFICES ASSUME NEW q \in Procs
               PROVE IF ops'[q].phase = "finalizing" /\ ops'[q].outcome[1] = "applied"
                     THEN /\ ops'[q].reconcile \in DOMAIN reconciles'
                          /\ reconciles'[ops'[q].reconcile].attempt = AttemptOf(q)'
                          /\ reconciles'[ops'[q].reconcile].source = Source(q)'
                     ELSE ops'[q].reconcile = Null
    BY DEF FinalizingInv
  <2>1. CASE q = p
    BY <1>2, <1>3, <1>4, <2>1 DEF AttemptOf, Source
  <2>2. CASE q # p
    BY <1>2, <1>3, <1>4, <2>2 DEF AuditInv, FinalizingInv, AttemptOf, Source
  <2> QED
    BY <2>1, <2>2
<1>11. EventsMatch'
  <2> SUFFICES ASSUME NEW e \in events
               PROVE IF e.outcome[1] = "applied"
                     THEN /\ e.reconcile \in DOMAIN reconciles'
                          /\ reconciles'[e.reconcile].attempt = e.attempt
                          /\ reconciles'[e.reconcile].source = e.source
                     ELSE /\ e.reconcile = Null
                          /\ \A i \in DOMAIN reconciles' : reconciles'[i].attempt # e.attempt
    BY <1>4 DEF EventsMatch
  <2>1. AttemptOf(p) # e.attempt
    BY <1>5 DEF AuditInv, EventsPast, AttemptOf
  <2> QED
    BY <1>2, <1>3, <2>1 DEF AuditInv, EventsMatch
<1> QED
  BY <1>8, <1>9, <1>10, <1>11 DEF AuditInv

(* What remains to be done after an attempt has been recorded.             *)
LEMMA FinalizeOps ==
  ASSUME TypeInv, NEW p \in Procs, Finalize(p)
  PROVE  /\ InFlight(p)
         /\ \A q \in Procs : q # p => ops'[q] = ops[q]
         /\ ops'[p].phase \in {"over", "ready"} /\ ops'[p].reconcile = Null
         /\ Len(ops[p].todo) \in Nat /\ Len(ops[p].todo) >= 1
         /\ Len(ops'[p].todo) = Len(ops[p].todo) - 1
<1>1. InFlight(p) /\ ops \in [Procs -> Op]
  BY DEF Finalize, InFlight, TypeInv, TypeOK
<1>2. /\ Tail(ops[p].todo) \in Seq(Sources)
      /\ Len(Tail(ops[p].todo)) = Len(ops[p].todo) - 1
      /\ Len(ops[p].todo) \in Nat /\ Len(ops[p].todo) >= 1
  BY <1>1, TodoFacts, BoundAssumption
<1>3. CASE Remaining(p) = <<>>
  <2>1. ops' = [ops EXCEPT ![p] = [Idle EXCEPT !.phase = "over"]]
    BY <1>3 DEF Finalize
  <2>2. ops'[p] = [Idle EXCEPT !.phase = "over"] /\ \A q \in Procs : q # p => ops'[q] = ops[q]
    BY <1>1, <2>1
  <2>3. ops'[p].phase = "over" /\ ops'[p].todo = <<>> /\ ops'[p].reconcile = Null
    BY <2>2 DEF Idle
  <2>4. Len(ops[p].todo) - 1 = 0
    BY <1>2, <1>3 DEF Remaining
  <2> QED
    BY <1>1, <1>2, <2>2, <2>3, <2>4
<1>4. CASE Remaining(p) # <<>>
  <2> DEFINE op == [Idle EXCEPT !.phase = "ready", !.todo = Remaining(p), !.apply = ops[p].apply]
  <2>1. ops' = [ops EXCEPT ![p] = op]
    BY <1>4 DEF Finalize
  <2>2. op.phase = "ready" /\ op.todo = Remaining(p) /\ op.reconcile = Null
    BY DEF Idle
  <2> HIDE DEF op
  <2>3. ops'[p] = op /\ \A q \in Procs : q # p => ops'[q] = ops[q]
    BY <1>1, <2>1
  <2> QED
    BY <1>1, <1>2, <2>2, <2>3 DEF Remaining
<1> QED
  BY <1>3, <1>4

(* The transaction of a refresh event.                                     *)
LEMMA FinalizeAudit ==
  ASSUME TypeInv, AuditInv, NEW p \in Procs, Finalize(p)
  PROVE  AuditInv'
<1>1. /\ \A q \in Procs : q # p => ops'[q] = ops[q]
      /\ ops'[p].phase \in {"over", "ready"} /\ ops'[p].reconcile = Null
      /\ Len(ops[p].todo) \in Nat
      /\ Len(ops'[p].todo) = Len(ops[p].todo) - 1
  BY FinalizeOps
<1>2. /\ events' = events \cup {Event(p)} /\ UNCHANGED reconciles
      /\ ops[p].phase = "finalizing"
  BY DEF Finalize
<1>3. /\ Event(p).attempt = AttemptOf(p) /\ Event(p).source = Source(p)
      /\ Event(p).outcome = ops[p].outcome /\ Event(p).reconcile = ops[p].reconcile
      /\ AttemptOf(p) = <<p, Len(ops[p].todo)>>
  BY DEF Event, Reference, AttemptOf
<1>4. \A e \in events :
        /\ e.attempt[1] \in Procs /\ e.attempt[2] \in Nat
        /\ ops[e.attempt[1]].phase # "new" /\ e.attempt[2] > Len(ops[e.attempt[1]].todo)
  BY AuditTypes, BoundAssumption DEF AuditInv, EventsPast, AttemptIds
<1>5. EventsPast'
  <2> SUFFICES ASSUME NEW e \in events'
               PROVE ops'[e.attempt[1]].phase # "new" /\ e.attempt[2] > Len(ops'[e.attempt[1]].todo)
    BY DEF EventsPast
  <2>1. CASE e = Event(p)
    BY <1>1, <1>3, <2>1
  <2>2. CASE e \in events /\ e.attempt[1] = p
    BY <1>1, <1>4, <2>2
  <2>3. CASE e \in events /\ e.attempt[1] # p
    BY <1>1, <1>4, <2>3
  <2> QED
    BY <1>2, <2>1, <2>2, <2>3
<1>6. ReconcilesHeld'
  <2> SUFFICES ASSUME NEW i \in DOMAIN reconciles PROVE Held(i)'
    BY <1>2 DEF ReconcilesHeld
  <2> DEFINE a == reconciles[i].attempt
  <2>1. Held(i) /\ a \in AttemptIds
    BY AuditTypes DEF AuditInv, ReconcilesHeld
  <2>2. PICK q \in Procs, n \in 1 .. MaxTodo : a = <<q, n>>
    BY <2>1 DEF AttemptIds
  <2>3. n \in Nat
    BY BoundAssumption
  <2>4. CASE q # p
    BY <1>1, <1>2, <2>1, <2>2, <2>4 DEF Held
  <2>5. CASE q = p /\ n = Len(ops[p].todo)
    <3>1. ops[p].reconcile = i
      BY <1>2, <2>1, <2>2, <2>5 DEF Held
    <3>2. Event(p) \in events' /\ Event(p).attempt = a /\ Event(p).reconcile = i
      BY <1>2, <1>3, <2>2, <2>5, <3>1
    <3> QED
      BY <1>1, <1>2, <2>2, <2>3, <2>5, <3>2 DEF Held
  <2>6. CASE q = p /\ n # Len(ops[p].todo)
    <3>1. n > Len(ops[p].todo)
      BY <1>1, <2>1, <2>2, <2>3, <2>6 DEF Held
    <3>2. PICK e \in events : e.attempt = a /\ e.reconcile = i
      BY <2>1, <2>2, <2>6, <3>1 DEF Held
    <3> QED
      BY <1>1, <1>2, <2>2, <2>3, <2>6, <3>1, <3>2 DEF Held
  <2> QED
    BY <2>4, <2>5, <2>6
<1>7. FinalizingInv'
  <2> SUFFICES ASSUME NEW q \in Procs
               PROVE IF ops'[q].phase = "finalizing" /\ ops'[q].outcome[1] = "applied"
                     THEN /\ ops'[q].reconcile \in DOMAIN reconciles'
                          /\ reconciles'[ops'[q].reconcile].attempt = AttemptOf(q)'
                          /\ reconciles'[ops'[q].reconcile].source = Source(q)'
                     ELSE ops'[q].reconcile = Null
    BY DEF FinalizingInv
  <2>1. CASE q = p
    BY <1>1, <2>1
  <2>2. CASE q # p
    BY <1>1, <1>2, <2>2 DEF AuditInv, FinalizingInv, AttemptOf, Source
  <2> QED
    BY <2>1, <2>2
<1>8. EventsMatch'
  <2>1. \A i \in DOMAIN reconciles : reconciles[i].attempt = AttemptOf(p) => ops[p].reconcile = i
    BY <1>1, <1>2, <1>3 DEF AuditInv, ReconcilesHeld, Held
  <2>2. \A i \in DOMAIN reconciles : i # Null
    BY AuditTypes, NullAssumption
  <2>3. IF ops[p].outcome[1] = "applied"
        THEN /\ ops[p].reconcile \in DOMAIN reconciles
             /\ reconciles[ops[p].reconcile].attempt = AttemptOf(p)
             /\ reconciles[ops[p].reconcile].source = Source(p)
        ELSE /\ ops[p].reconcile = Null
             /\ \A i \in DOMAIN reconciles : reconciles[i].attempt # AttemptOf(p)
    BY <1>2, <2>1, <2>2 DEF AuditInv, FinalizingInv
  <2> QED
    BY <1>2, <1>3, <2>3 DEF AuditInv, EventsMatch
<1> QED
  BY <1>5, <1>6, <1>7, <1>8 DEF AuditInv

LEMMA InitAudit == Init => AuditInv
<1> SUFFICES ASSUME Init PROVE AuditInv
  OBVIOUS
<1>1. \A p \in Procs : ops[p].phase = "new" /\ ops[p].reconcile = Null
  BY IdleType DEF Init
<1>2. events = {} /\ reconciles = <<>>
  BY DEF Init
<1>3. FinalizingInv
  BY <1>1 DEF FinalizingInv
<1> QED
  BY <1>2, <1>3 DEF AuditInv, EventsPast, ReconcilesHeld, EventsMatch

LEMMA AuditStep == TypeInv /\ AuditInv /\ [Next]_vars => AuditInv'
<1> SUFFICES ASSUME TypeInv, AuditInv, [Next]_vars PROVE AuditInv'
  OBVIOUS
<1>1. ASSUME UNCHANGED <<reconciles, events, ops>> PROVE AuditInv'
  BY <1>1 DEF AuditInv, EventsPast, ReconcilesHeld, Held, FinalizingInv, EventsMatch, AttemptOf, Source
<1>2. ASSUME NEW s \in Sources, Advance(s) PROVE AuditInv'
  BY <1>1, <1>2 DEF Advance
<1>3. CASE Tick
  BY <1>1, <1>3 DEF Tick
<1>4. ASSUME NEW p \in Procs, NEW todo \in Todos, NEW apply \in BOOLEAN, Begin(p, todo, apply)
      PROVE  AuditInv'
  BY <1>4, BeginAudit
<1>5. ASSUME NEW p \in Procs, Step(p) \/ Die(p) PROVE AuditInv'
  <2>1. CASE Apply(p)
    BY <2>1, ApplyAudit
  <2>2. CASE Finalize(p)
    BY <2>2, FinalizeAudit
  <2>3. CASE ~Apply(p) /\ ~Finalize(p)
    BY <1>5, <2>3, QuietActions, QuietStep DEF Step
  <2> QED
    BY <2>1, <2>2, <2>3
<1>6. CASE UNCHANGED vars
  BY <1>1, <1>6 DEF vars
<1> QED
  BY <1>2, <1>3, <1>4, <1>5, <1>6 DEF Next
-----------------------------------------------------------------------------
(* Third layer: attempts, files and the ledger.                            *)

Working(p) == ops[p].phase \in {"opened", "fetched", "captured", "adapted", "finalizing"}

AttemptRow(a, s, t) == [id |-> a, source |-> s, second |-> t]

(* Who has files, or had them, is among the attempts.                      *)
Known(p) ==
  Working(p) => AttemptRow(AttemptOf(p), Source(p), ops[p].second) \in attempts

KnownEvent(e) ==
  e.stem[1] = e.source /\ AttemptRow(e.attempt, e.source, e.stem[2]) \in attempts

(* The manifest file holds what its attempt is about to apply or applied.  *)
Evidence(p) ==
  ~SharesSecond(AttemptOf(p)) =>
    /\ ops[p].phase = "adapted" => files[StemOf(p)].manifest = ops[p].data
    /\ ops[p].phase = "finalizing" /\ ops[p].reconcile # Null =>
         files[StemOf(p)].manifest = reconciles[ops[p].reconcile].version

EvidenceOf(e) ==
  e.reconcile # Null /\ ~SharesSecond(e.attempt) =>
    files[e.stem].manifest = reconciles[e.reconcile].version

(* Data that has been fetched is as new as the ledger, as long as no other *)
(* attempt has reconciled the source since, or has touched the files.      *)
Overtaken(p) ==
  \E i \in DOMAIN reconciles : i > ops[p].seen /\ reconciles[i].source = Source(p)

Current(p) ==
  /\ ops[p].phase \in {"fetched", "captured", "adapted"} => ops[p].seen <= Len(reconciles)
  /\ ops[p].phase \in {"fetched", "adapted"} => ops[p].data <= external[Source(p)]
  /\ ops[p].phase \in {"fetched", "adapted"} =>
       ledger[Source(p)] <= ops[p].data \/ Overtaken(p) \/ SharesSecond(AttemptOf(p))
  /\ ops[p].phase = "captured" =>
       \/ ledger[Source(p)] <= files[StemOf(p)].snapshot
       \/ Overtaken(p) \/ SharesSecond(AttemptOf(p))

(* Nothing is newer than its source.                                       *)
Bounded ==
  /\ \A s \in Sources : ledger[s] <= external[s]
  /\ \A f \in Sources \X Seconds :
       files[f].snapshot # Null => files[f].snapshot <= external[f[1]]

HistoryInv ==
  /\ \A p \in Procs : Known(p) /\ Evidence(p) /\ Current(p)
  /\ \A e \in events : KnownEvent(e) /\ EvidenceOf(e)
  /\ Bounded

LEMMA InitHistory == Init => HistoryInv
<1> SUFFICES ASSUME Init PROVE HistoryInv
  OBVIOUS
<1>1. \A p \in Procs : ops[p].phase = "new"
  BY IdleType DEF Init
<1>2. \A p \in Procs : Known(p) /\ Evidence(p) /\ Current(p)
  BY <1>1 DEF Known, Working, Evidence, Current
<1>3. events = {}
  BY DEF Init
<1>4. Bounded
  BY BoundAssumption DEF Init, Bounded
<1> QED
  BY <1>2, <1>3, <1>4 DEF HistoryInv

(* Two attempts with the same stem share their second.                     *)
LEMMA Sharing ==
  ASSUME NEW a, NEW b, NEW s, NEW t, a # b,
         AttemptRow(a, s, t) \in attempts, AttemptRow(b, s, t) \in attempts
  PROVE  SharesSecond(a)
<1>1. AttemptRow(a, s, t).id = a /\ AttemptRow(a, s, t).source = s /\ AttemptRow(a, s, t).second = t
  BY DEF AttemptRow
<1>2. AttemptRow(b, s, t).id = b /\ AttemptRow(b, s, t).source = s /\ AttemptRow(b, s, t).second = t
  BY DEF AttemptRow
<1> QED
  BY <1>1, <1>2 DEF SharesSecond

LEMMA SharingStays ==
  ASSUME attempts \subseteq attempts', NEW a, SharesSecond(a)
  PROVE  SharesSecond(a)'
BY DEF SharesSecond

(* What the step of a command p leaves to the others: no other command     *)
(* changes; files change only where p works; reconciles are appended, and  *)
(* the ledger changes for their sources only.                              *)
Frame(p) ==
  /\ \A q \in Procs : q # p => ops'[q] = ops[q]
  /\ attempts \subseteq attempts'
  /\ \A f \in Sources \X Seconds : files'[f] = files[f] \/ (f = StemOf(p) /\ Working(p))
  /\ Len(reconciles') \in Nat /\ Len(reconciles') >= Len(reconciles)
  /\ DOMAIN reconciles' \subseteq Nat
  /\ \A i \in DOMAIN reconciles : i \in DOMAIN reconciles' /\ reconciles'[i] = reconciles[i]
  /\ external' = external
  /\ \A s \in Sources :
       ledger'[s] # ledger[s] =>
         \E i \in DOMAIN reconciles' : i > Len(reconciles) /\ reconciles'[i].source = s

(* Another command keeps what it knows.                                    *)
LEMMA OthersKept ==
  ASSUME TypeInv, AuditInv, HistoryInv,
         NEW p \in Procs, NEW q \in Procs, q # p, Frame(p)
  PROVE  Known(q)' /\ Evidence(q)' /\ Current(q)'
<1>1. /\ ops'[q] = ops[q] /\ AttemptOf(q)' = AttemptOf(q)
      /\ Source(q)' = Source(q) /\ StemOf(q)' = StemOf(q)
  BY DEF Frame, AttemptOf, Source, StemOf, Stem
<1>2. Known(q) /\ Evidence(q) /\ Current(q) /\ Known(p)
  BY DEF HistoryInv
<1>3. Known(q)'
  BY <1>1, <1>2 DEF Known, Working, Frame, AttemptRow
<1> SUFFICES ASSUME ops[q].phase \in {"fetched", "captured", "adapted", "finalizing"}
             PROVE  Evidence(q)' /\ Current(q)'
  BY <1>1, <1>3 DEF Evidence, Current
<1>4. InFlight(q) /\ Working(q)
  BY DEF InFlight, Working
<1>5. /\ StemOf(q) \in Sources \X Seconds /\ StemOf(q) = <<Source(q), ops[q].second>>
      /\ Source(q) \in Sources /\ ops[q] \in Op
  BY <1>4, TodoFacts
<1>6. files'[StemOf(q)] = files[StemOf(q)] \/ SharesSecond(AttemptOf(q))
  <2>1. CASE files'[StemOf(q)] = files[StemOf(q)]
    BY <2>1
  <2>2. CASE StemOf(q) = StemOf(p) /\ Working(p)
    <3>1. InFlight(p)
      BY <2>2 DEF InFlight, Working
    <3>2. StemOf(p) = <<Source(p), ops[p].second>>
      BY <3>1, TodoFacts
    <3>3. Source(p) = Source(q) /\ ops[p].second = ops[q].second
      BY <1>5, <2>2, <3>2
    <3>4. AttemptOf(p) # AttemptOf(q)
      BY DEF AttemptOf
    <3> QED
      BY <1>2, <1>4, <2>2, <3>3, <3>4, Sharing DEF Known
  <2> QED
    BY <1>5, <2>1, <2>2 DEF Frame
<1>7. SharesSecond(AttemptOf(q)) => SharesSecond(AttemptOf(q))'
  <2>1. PICK a : a = AttemptOf(q)
    OBVIOUS
  <2>2. SharesSecond(a) => SharesSecond(a)'
    BY SharingStays DEF Frame
  <2>3. AttemptOf(q)' = a
    BY <1>1, <2>1
  <2> QED
    BY <2>1, <2>2, <2>3 DEF SharesSecond
<1>8. ops[q].reconcile # Null /\ ops[q].phase = "finalizing" =>
        reconciles'[ops[q].reconcile] = reconciles[ops[q].reconcile]
  BY DEF AuditInv, FinalizingInv, Frame
<1>9. Evidence(q)'
  BY <1>1, <1>2, <1>6, <1>7, <1>8 DEF Evidence
<1>10. Overtaken(q) => Overtaken(q)'
  BY <1>1 DEF Overtaken, Frame
<1>11. ops'[q].phase \in {"fetched", "captured", "adapted"} => ops'[q].seen <= Len(reconciles')
  BY <1>1, <1>2, <1>5, AuditTypes DEF Current, Frame, Op
<1>12. ops'[q].phase \in {"fetched", "adapted"} => ops'[q].data <= external'[Source(q)']
  BY <1>1, <1>2 DEF Current, Frame
<1>13. CASE ledger'[Source(q)] = ledger[Source(q)]
  BY <1>1, <1>2, <1>6, <1>7, <1>9, <1>10, <1>11, <1>12, <1>13 DEF Current
<1>14. CASE ledger'[Source(q)] # ledger[Source(q)] /\ ops[q].phase # "finalizing"
  <2>1. PICK i \in DOMAIN reconciles' : i > Len(reconciles) /\ reconciles'[i].source = Source(q)
    BY <1>5, <1>14 DEF Frame
  <2>2. ops[q].seen <= Len(reconciles) /\ ops[q].seen \in Nat /\ Len(reconciles) \in Nat /\ i \in Nat
    BY <1>2, <1>5, <1>14, AuditTypes DEF Current, Op, Frame
  <2>3. Overtaken(q)'
    BY <1>1, <2>1, <2>2 DEF Overtaken
  <2> QED
    BY <1>9, <1>11, <1>12, <2>3 DEF Current
<1>15. CASE ops[q].phase = "finalizing"
  BY <1>1, <1>9, <1>15 DEF Current
<1> QED
  BY <1>13, <1>14, <1>15

(* What is recorded stays true.                                            *)
LEMMA EventsKept ==
  ASSUME TypeInv, AuditInv, HistoryInv, NEW p \in Procs, Frame(p), NEW e \in events
  PROVE  KnownEvent(e)' /\ EvidenceOf(e)'
<1>1. KnownEvent(e) /\ EvidenceOf(e) /\ Known(p)
  BY DEF HistoryInv
<1>2. e.stem \in Sources \X Seconds /\ e.attempt[1] \in Procs
  BY AuditTypes DEF RefreshEvent
<1>3. KnownEvent(e)'
  BY <1>1 DEF KnownEvent, Frame, AttemptRow
<1>4. files'[e.stem] = files[e.stem] \/ SharesSecond(e.attempt)
  <2>1. CASE files'[e.stem] = files[e.stem]
    BY <2>1
  <2>2. CASE e.stem = StemOf(p) /\ Working(p)
    <3>1. InFlight(p)
      BY <2>2 DEF InFlight, Working
    <3>2. StemOf(p) = <<Source(p), ops[p].second>> /\ Len(ops[p].todo) \in Nat
      BY <3>1, TodoFacts, BoundAssumption
    <3>3. e.source = Source(p) /\ e.stem[2] = ops[p].second
      BY <1>1, <2>2, <3>2 DEF KnownEvent
    <3>4. e.attempt # AttemptOf(p)
      BY <3>2 DEF AuditInv, EventsPast, AttemptOf
    <3> QED
      BY <1>1, <2>2, <3>3, <3>4, Sharing DEF Known, KnownEvent
  <2> QED
    BY <1>2, <2>1, <2>2 DEF Frame
<1>5. SharesSecond(e.attempt) => SharesSecond(e.attempt)'
  BY SharingStays DEF Frame
<1>6. e.reconcile # Null => reconciles'[e.reconcile] = reconciles[e.reconcile]
  BY DEF AuditInv, EventsMatch, Frame
<1>7. EvidenceOf(e)'
  BY <1>1, <1>4, <1>5, <1>6 DEF EvidenceOf
<1> QED
  BY <1>3, <1>7

(* The frame of the steps that leave the ledger alone, and what they may   *)
(* do to the files.                                                        *)
LEMMA StillFrame ==
  ASSUME TypeInv, NEW p \in Procs,
         \A q \in Procs : q # p => ops'[q] = ops[q],
         attempts \subseteq attempts',
         UNCHANGED <<external, ledger, reconciles>>,
         \/ UNCHANGED files
         \/ Working(p) /\ \A f \in Sources \X Seconds : f # StemOf(p) => files'[f] = files[f]
  PROVE  Frame(p)
BY AuditTypes DEF Frame

(* A command that has no files at hand.                                    *)
LEMMA NotWorking ==
  ASSUME NEW p \in Procs, ops'[p].phase \in {"new", "ready", "over", "escaped", "died"}
  PROVE  Known(p)' /\ Evidence(p)' /\ Current(p)'
BY DEF Known, Working, Evidence, Current

(* A command that is about to record that nothing was applied.             *)
LEMMA NothingApplied ==
  ASSUME TypeInv, HistoryInv, NEW p \in Procs, Working(p),
         ops'[p].phase = "finalizing", ops'[p].reconcile = Null,
         ops'[p].todo = ops[p].todo, ops'[p].second = ops[p].second, UNCHANGED attempts
  PROVE  Known(p)' /\ Evidence(p)' /\ Current(p)'
<1>1. Known(p)
  BY DEF HistoryInv
<1>2. AttemptOf(p)' = AttemptOf(p) /\ Source(p)' = Source(p)
  BY DEF AttemptOf, Source
<1>3. Known(p)'
  BY <1>1, <1>2 DEF Known, AttemptRow
<1> QED
  BY <1>3 DEF Evidence, Current

(* One step of a command: its own knowledge and its frame are enough.      *)
LEMMA CommandStep ==
  ASSUME TypeInv, AuditInv, HistoryInv, NEW p \in Procs, Frame(p),
         Known(p)' /\ Evidence(p)' /\ Current(p)',
         \A e \in events' : e \notin events => KnownEvent(e)' /\ EvidenceOf(e)',
         Bounded'
  PROVE  HistoryInv'
<1>1. \A q \in Procs : Known(q)' /\ Evidence(q)' /\ Current(q)'
  BY OthersKept
<1>2. \A e \in events' : KnownEvent(e)' /\ EvidenceOf(e)'
  BY EventsKept
<1> QED
  BY <1>1, <1>2 DEF HistoryInv

(* Without a new version in the ledger or a file, the bounds stay.         *)
LEMMA BoundsStay ==
  ASSUME HistoryInv, UNCHANGED <<external, ledger>>,
         \A f \in Sources \X Seconds : files'[f].snapshot = files[f].snapshot
  PROVE  Bounded'
BY DEF HistoryInv, Bounded

LEMMA OpenPathsHistory ==
  ASSUME TypeInv, AuditInv, HistoryInv, NEW p \in Procs, OpenPaths(p)
  PROVE  HistoryInv'
<1>1. ops \in [Procs -> Op] /\ ops[p] \in Op
  BY DEF TypeInv, TypeOK
<1>2. /\ \A q \in Procs : q # p => ops'[q] = ops[q]
      /\ ops'[p].phase = "opened" /\ ops'[p].todo = ops[p].todo /\ ops'[p].second = clock
  BY <1>1 DEF OpenPaths, Op
<1>3. Frame(p)
  BY <1>2, StillFrame DEF OpenPaths
<1>4. AttemptOf(p)' = AttemptOf(p) /\ Source(p)' = Source(p)
  BY <1>2 DEF AttemptOf, Source
<1>5. Known(p)'
  BY <1>2, <1>4 DEF OpenPaths, Known, AttemptRow
<1>6. Evidence(p)' /\ Current(p)'
  BY <1>2 DEF Evidence, Current
<1> QED
  BY <1>3, <1>5, <1>6, CommandStep, BoundsStay DEF OpenPaths

LEMMA FetchHistory ==
  ASSUME TypeInv, AuditInv, HistoryInv, NEW p \in Procs, Fetch(p)
  PROVE  HistoryInv'
<1>1. /\ ops \in [Procs -> Op] /\ ops[p] \in Op /\ external \in [Sources -> Versions]
      /\ ledger \in [Sources -> Versions]
  BY DEF TypeInv, TypeOK
<1>2. /\ \A q \in Procs : q # p => ops'[q] = ops[q]
      /\ ops'[p].phase = "fetched" /\ ops'[p].todo = ops[p].todo /\ ops'[p].second = ops[p].second
      /\ ops'[p].data = external[Source(p)] /\ ops'[p].seen = Len(reconciles)
  BY <1>1 DEF Fetch, Op
<1>3. Frame(p)
  BY <1>2, StillFrame DEF Fetch
<1>4. AttemptOf(p)' = AttemptOf(p) /\ Source(p)' = Source(p) /\ Source(p) \in Sources
  BY <1>2, TodoFacts DEF AttemptOf, Source, Fetch, InFlight
<1>5. Known(p)'
  BY <1>2, <1>4 DEF Fetch, HistoryInv, Known, Working, AttemptRow
<1>6. ledger[Source(p)] <= external[Source(p)]
  BY <1>4 DEF HistoryInv, Bounded
<1>7. external[Source(p)] <= external[Source(p)] /\ Len(reconciles) <= Len(reconciles)
  BY <1>1, <1>4, AuditTypes DEF Versions
<1>8. Current(p)'
  BY <1>2, <1>4, <1>6, <1>7 DEF Fetch, Current
<1>9. Evidence(p)'
  BY <1>2 DEF Evidence
<1> QED
  BY <1>3, <1>5, <1>8, <1>9, CommandStep, BoundsStay DEF Fetch

(* Whoever writes the snapshot of its attempt writes nothing too new.      *)
LEMMA SnapshotBound ==
  ASSUME TypeInv, HistoryInv, NEW p \in Procs, ops[p].phase = "fetched",
         files' = WithSnapshot(p), UNCHANGED <<external, ledger>>
  PROVE  Bounded'
<1>1. InFlight(p)
  BY DEF InFlight
<1>2. StemOf(p) = <<Source(p), ops[p].second>> /\ StemOf(p) \in Sources \X Seconds
  BY <1>1, TodoFacts
<1>3. ops[p].data <= external[Source(p)]
  BY DEF HistoryInv, Current
<1>4. /\ files'[StemOf(p)].snapshot = ops[p].data
      /\ \A f \in Sources \X Seconds : f # StemOf(p) => files'[f] = files[f]
  BY SnapshotWritten
<1> QED
  BY <1>2, <1>3, <1>4 DEF HistoryInv, Bounded

LEMMA CaptureHistory ==
  ASSUME TypeInv, AuditInv, HistoryInv, NEW p \in Procs, Capture(p)
  PROVE  HistoryInv'
<1>1. ops \in [Procs -> Op] /\ ops[p] \in Op
  BY DEF TypeInv, TypeOK
<1>2. /\ \A q \in Procs : q # p => ops'[q] = ops[q]
      /\ ops'[p].phase = "captured" /\ ops'[p].todo = ops[p].todo /\ ops'[p].second = ops[p].second
      /\ ops'[p].seen = ops[p].seen
  BY <1>1 DEF Capture, Op
<1>3. /\ files'[StemOf(p)].snapshot = ops[p].data
      /\ \A f \in Sources \X Seconds : f # StemOf(p) => files'[f] = files[f]
  BY SnapshotWritten DEF Capture
<1>4. Frame(p)
  BY <1>2, <1>3, StillFrame DEF Capture, Working
<1>5. AttemptOf(p)' = AttemptOf(p) /\ Source(p)' = Source(p) /\ StemOf(p)' = StemOf(p)
  BY <1>2 DEF AttemptOf, Source, StemOf
<1>6. Known(p)'
  BY <1>2, <1>5 DEF Capture, HistoryInv, Known, Working, AttemptRow
<1>7. Overtaken(p) => Overtaken(p)'
  BY <1>2, <1>5 DEF Capture, Overtaken
<1>8. SharesSecond(AttemptOf(p)) => SharesSecond(AttemptOf(p))'
  BY <1>5 DEF Capture, SharesSecond
<1>9. Current(p)'
  BY <1>2, <1>3, <1>5, <1>7, <1>8 DEF Capture, HistoryInv, Current
<1>10. Evidence(p)'
  BY <1>2 DEF Evidence
<1> QED
  BY <1>4, <1>6, <1>9, <1>10, CommandStep, SnapshotBound DEF Capture

LEMMA AdaptHistory ==
  ASSUME TypeInv, AuditInv, HistoryInv, NEW p \in Procs, Adapt(p)
  PROVE  HistoryInv'
<1>1. ops \in [Procs -> Op] /\ ops[p] \in Op
  BY DEF TypeInv, TypeOK
<1> DEFINE v == files[StemOf(p)].snapshot
<1>2. /\ \A q \in Procs : q # p => ops'[q] = ops[q]
      /\ ops'[p].phase = "adapted" /\ ops'[p].todo = ops[p].todo /\ ops'[p].second = ops[p].second
      /\ ops'[p].seen = ops[p].seen /\ ops'[p].data = v
  BY <1>1 DEF Adapt, Op
<1>3. /\ v \in Versions /\ files'[StemOf(p)].manifest = v
      /\ \A f \in Sources \X Seconds : files'[f].snapshot = files[f].snapshot
      /\ \A f \in Sources \X Seconds : f # StemOf(p) => files'[f] = files[f]
  BY ManifestWritten
<1>4. Frame(p)
  BY <1>2, <1>3, StillFrame DEF Adapt, Working
<1>5. AttemptOf(p)' = AttemptOf(p) /\ Source(p)' = Source(p) /\ StemOf(p)' = StemOf(p)
  BY <1>2 DEF AttemptOf, Source, StemOf
<1>6. Known(p)'
  BY <1>2, <1>5 DEF Adapt, HistoryInv, Known, Working, AttemptRow
<1>7. v <= external[Source(p)]
  <2>1. StemOf(p) = <<Source(p), ops[p].second>> /\ StemOf(p) \in Sources \X Seconds
    BY TodoFacts DEF Adapt, InFlight
  <2>2. v # Null
    BY <1>3, NullAssumption DEF Versions
  <2> QED
    BY <2>1, <2>2 DEF HistoryInv, Bounded
<1>8. Overtaken(p) => Overtaken(p)'
  BY <1>2, <1>5 DEF Adapt, Overtaken
<1>9. SharesSecond(AttemptOf(p)) => SharesSecond(AttemptOf(p))'
  BY <1>5 DEF Adapt, SharesSecond
<1>10. Current(p)'
  BY <1>2, <1>5, <1>7, <1>8, <1>9 DEF Adapt, HistoryInv, Current
<1>11. Evidence(p)'
  BY <1>2, <1>3, <1>5 DEF Evidence
<1>12. Bounded'
  BY <1>3, BoundsStay DEF Adapt
<1> QED
  BY <1>4, <1>6, <1>10, <1>11, <1>12, CommandStep DEF Adapt

(* An attempt that fails, or was not meant to be applied.                  *)
LEMMA EndsHistory ==
  ASSUME TypeInv, AuditInv, HistoryInv, NEW p \in Procs,
         HelperFails(p) \/ AdapterFails(p) \/ DryRun(p) \/ ReconcileFails(p)
  PROVE  HistoryInv'
<1>1. ops \in [Procs -> Op] /\ ops[p] \in Op
  BY DEF TypeInv, TypeOK
<1>2. Working(p) /\ ops[p].reconcile = Null
  BY DEF HelperFails, AdapterFails, DryRun, ReconcileFails, Working, AuditInv, FinalizingInv
<1>3. /\ \A q \in Procs : q # p => ops'[q] = ops[q]
      /\ ops'[p].phase = "finalizing" /\ ops'[p].todo = ops[p].todo
      /\ ops'[p].second = ops[p].second /\ ops'[p].reconcile = Null
  <2>1. PICK outcome : Ends(p, outcome)
    BY DEF HelperFails, AdapterFails, DryRun, ReconcileFails
  <2> QED
    BY <1>1, <1>2, <2>1 DEF Ends, Op
<1>4. UNCHANGED <<external, clock, ledger, reconciles, events, attempts>>
  BY DEF HelperFails, AdapterFails, DryRun, ReconcileFails
<1>5. Known(p)' /\ Evidence(p)' /\ Current(p)'
  BY <1>2, <1>3, <1>4, NothingApplied
<1>6. CASE UNCHANGED files
  BY <1>3, <1>4, <1>5, <1>6, StillFrame, BoundsStay, CommandStep
<1>7. CASE ops[p].phase = "fetched" /\ files' = WithSnapshot(p)
  <2>1. \A f \in Sources \X Seconds : f # StemOf(p) => files'[f] = files[f]
    BY <1>7, SnapshotWritten
  <2>2. Frame(p)
    BY <1>2, <1>3, <1>4, <2>1, StillFrame
  <2>3. Bounded'
    BY <1>4, <1>7, SnapshotBound
  <2> QED
    BY <1>4, <1>5, <2>2, <2>3, CommandStep
<1> QED
  BY <1>6, <1>7 DEF HelperFails, AdapterFails, DryRun, ReconcileFails

(* A command that begins, or is gone.                                      *)
LEMMA IdleHistory ==
  ASSUME TypeInv, AuditInv, HistoryInv, NEW p \in Procs,
         \A q \in Procs : q # p => ops'[q] = ops[q],
         ops'[p].phase \in {"new", "ready", "over", "escaped", "died"},
         UNCHANGED <<external, files, ledger, reconciles, events, attempts>>
  PROVE  HistoryInv'
<1>1. Known(p)' /\ Evidence(p)' /\ Current(p)'
  BY NotWorking
<1>2. Frame(p)
  BY StillFrame
<1> QED
  BY <1>1, <1>2, BoundsStay, CommandStep

(* The transaction of the reconcile: what was fetched becomes the ledger.  *)
LEMMA ApplyHistory ==
  ASSUME TypeInv, AuditInv, HistoryInv, NEW p \in Procs, Apply(p)
  PROVE  HistoryInv'
<1> DEFINE n == Len(reconciles) + 1
<1>1. /\ ops \in [Procs -> Op] /\ ops[p] \in Op /\ ledger \in [Sources -> Versions]
      /\ InFlight(p) /\ Working(p) /\ ops[p].phase = "adapted"
  BY DEF TypeInv, TypeOK, Apply, InFlight, Working
<1>2. reconciles \in Seq(ReconcileEvent) /\ Len(reconciles) \in Nat /\ n \in Nat
  BY DEF TypeInv, TypeOK
<1>3. /\ Len(reconciles') = n
      /\ DOMAIN reconciles' = 1 .. n /\ DOMAIN reconciles = 1 .. Len(reconciles)
      /\ \A i \in DOMAIN reconciles : reconciles'[i] = reconciles[i]
      /\ reconciles'[n].source = Source(p) /\ reconciles'[n].version = ops[p].data
  BY <1>1, <1>2 DEF Apply
<1>4. /\ \A q \in Procs : q # p => ops'[q] = ops[q]
      /\ ops'[p].phase = "finalizing" /\ ops'[p].todo = ops[p].todo
      /\ ops'[p].second = ops[p].second /\ ops'[p].reconcile = n
      /\ UNCHANGED <<external, clock, files, events, attempts>>
  BY <1>1 DEF Apply, Op
<1>5. /\ ledger'[Source(p)] = ops[p].data /\ Source(p) \in Sources
      /\ \A s \in Sources : s # Source(p) => ledger'[s] = ledger[s]
  BY <1>1, TodoFacts DEF Apply
<1>6. Frame(p)
  <2>1. n \in DOMAIN reconciles' /\ n > Len(reconciles) /\ n >= Len(reconciles)
    BY <1>2, <1>3
  <2>2. \A s \in Sources :
          ledger'[s] # ledger[s] =>
            \E i \in DOMAIN reconciles' : i > Len(reconciles) /\ reconciles'[i].source = s
    BY <1>3, <1>5, <2>1
  <2>3. \A i \in DOMAIN reconciles : i \in DOMAIN reconciles' /\ reconciles'[i] = reconciles[i]
    BY <1>2, <1>3
  <2>4. DOMAIN reconciles' \subseteq Nat
    BY <1>2, <1>3
  <2> QED
    BY <1>2, <1>3, <1>4, <2>1, <2>2, <2>3, <2>4 DEF Frame
<1>7. AttemptOf(p)' = AttemptOf(p) /\ Source(p)' = Source(p) /\ StemOf(p)' = StemOf(p)
  BY <1>4 DEF AttemptOf, Source, StemOf
<1>8. Known(p)'
  BY <1>1, <1>4, <1>7 DEF HistoryInv, Known, AttemptRow
<1>9. SharesSecond(AttemptOf(p)) => SharesSecond(AttemptOf(p))'
  BY <1>4, <1>7 DEF SharesSecond
<1>10. Evidence(p)'
  BY <1>1, <1>3, <1>4, <1>7, <1>9 DEF HistoryInv, Evidence
<1>11. Current(p)'
  BY <1>4 DEF Current
<1>12. Bounded'
  <2>1. ops[p].data <= external[Source(p)]
    BY <1>1 DEF HistoryInv, Current
  <2> QED
    BY <1>4, <1>5, <2>1 DEF HistoryInv, Bounded
<1> QED
  BY <1>4, <1>6, <1>8, <1>10, <1>11, <1>12, CommandStep

(* The transaction of the event: it names the files of its attempt.        *)
LEMMA FinalizeHistory ==
  ASSUME TypeInv, AuditInv, HistoryInv, NEW p \in Procs, Finalize(p)
  PROVE  HistoryInv'
<1>1. /\ \A q \in Procs : q # p => ops'[q] = ops[q]
      /\ ops'[p].phase \in {"over", "ready"} /\ InFlight(p)
  BY FinalizeOps
<1>2. /\ events' = events \cup {Event(p)} /\ ops[p].phase = "finalizing"
      /\ UNCHANGED <<external, clock, files, ledger, reconciles, attempts>>
  BY DEF Finalize
<1>3. /\ Event(p).attempt = AttemptOf(p) /\ Event(p).source = Source(p)
      /\ Event(p).stem = StemOf(p) /\ Event(p).reconcile = ops[p].reconcile
      /\ StemOf(p) = <<Source(p), ops[p].second>>
  BY <1>1, TodoFacts DEF Event, Reference
<1>4. Known(p) /\ Evidence(p) /\ Working(p)
  BY <1>2 DEF HistoryInv, Working
<1>5. Known(p)' /\ Evidence(p)' /\ Current(p)'
  BY <1>1, NotWorking
<1>6. Frame(p)
  BY <1>1, <1>2, StillFrame
<1>7. PICK e : e = Event(p)
  OBVIOUS
<1>8. KnownEvent(e)'
  BY <1>2, <1>3, <1>4, <1>7 DEF KnownEvent, Known, AttemptRow
<1>9. SharesSecond(e.attempt) => SharesSecond(e.attempt)'
  BY <1>2 DEF SharesSecond
<1>10. EvidenceOf(e)'
  BY <1>2, <1>3, <1>4, <1>7, <1>9 DEF EvidenceOf, Evidence
<1>11. \A x \in events' : x \notin events => x = e
  BY <1>2, <1>7
<1>12. \A x \in events' : x \notin events => KnownEvent(x)' /\ EvidenceOf(x)'
  BY <1>8, <1>10, <1>11
<1> QED
  BY <1>2, <1>5, <1>6, <1>12, BoundsStay, CommandStep

(* A new version leaves everything behind it behind it.                    *)
LEMMA AdvanceHistory ==
  ASSUME TypeInv, AuditInv, HistoryInv, NEW s \in Sources, Advance(s)
  PROVE  HistoryInv'
<1>1. external \in [Sources -> Versions] /\ ledger \in [Sources -> Versions]
  BY DEF TypeInv, TypeOK
<1>2. \A r \in Sources : external[r] \in Int /\ external'[r] \in Int /\ external[r] <= external'[r]
  BY <1>1, BoundAssumption DEF Advance, Versions
<1>3. UNCHANGED <<clock, files, ledger, reconciles, events, attempts, ops>>
  BY DEF Advance
<1>4. Bounded'
  <2>1. \A r \in Sources : ledger'[r] <= external'[r]
    BY <1>1, <1>2, <1>3 DEF HistoryInv, Bounded, Versions
  <2>2. ASSUME NEW f \in Sources \X Seconds, files'[f].snapshot # Null
        PROVE  files'[f].snapshot <= external'[f[1]]
    <3>1. files[f].snapshot \in Versions /\ f[1] \in Sources
      BY <1>3, <2>2 DEF TypeInv, TypeOK, FileRow
    <3> QED
      BY <1>2, <1>3, <2>2, <3>1 DEF HistoryInv, Bounded, Versions
  <2> QED
    BY <2>1, <2>2 DEF Bounded
<1>5. ASSUME NEW p \in Procs PROVE Known(p)' /\ Evidence(p)' /\ Current(p)'
  <2>1. AttemptOf(p)' = AttemptOf(p) /\ Source(p)' = Source(p) /\ StemOf(p)' = StemOf(p)
    BY <1>3 DEF AttemptOf, Source, StemOf
  <2>2. Known(p) /\ Evidence(p) /\ Current(p)
    BY DEF HistoryInv
  <2>3. SharesSecond(AttemptOf(p)) <=> SharesSecond(AttemptOf(p))'
    BY <1>3, <2>1 DEF SharesSecond
  <2>4. Overtaken(p) <=> Overtaken(p)'
    BY <1>3, <2>1 DEF Overtaken
  <2>5. ASSUME ops[p].phase \in {"fetched", "adapted"} PROVE ops'[p].data <= external'[Source(p)']
    <3>1. Source(p) \in Sources /\ ops[p].data \in Versions
      BY <2>5, TodoFacts DEF InFlight, Op
    <3> QED
      BY <1>2, <1>3, <2>1, <2>2, <2>5, <3>1 DEF Current, Versions
  <2>6. Current(p)'
    BY <1>3, <2>1, <2>2, <2>3, <2>4, <2>5 DEF Current
  <2> QED
    BY <1>3, <2>1, <2>2, <2>3, <2>6 DEF Known, Working, AttemptRow, Evidence
<1>6. \A e \in events' : KnownEvent(e)' /\ EvidenceOf(e)'
  BY <1>3 DEF HistoryInv, KnownEvent, AttemptRow, EvidenceOf, SharesSecond
<1> QED
  BY <1>4, <1>5, <1>6 DEF HistoryInv

(* Nor does the passing of time.                                           *)
LEMMA StutterHistory ==
  ASSUME HistoryInv, UNCHANGED <<external, files, ledger, reconciles, events, attempts, ops>>
  PROVE  HistoryInv'
<1>1. ASSUME NEW p \in Procs PROVE Known(p)' /\ Evidence(p)' /\ Current(p)'
  <2>1. AttemptOf(p)' = AttemptOf(p) /\ Source(p)' = Source(p) /\ StemOf(p)' = StemOf(p)
    BY DEF AttemptOf, Source, StemOf
  <2>2. SharesSecond(AttemptOf(p)) <=> SharesSecond(AttemptOf(p))'
    BY <2>1 DEF SharesSecond
  <2>3. Overtaken(p) <=> Overtaken(p)'
    BY <2>1 DEF Overtaken
  <2>4. Known(p) /\ Evidence(p) /\ Current(p)
    BY DEF HistoryInv
  <2> QED
    BY <2>1, <2>2, <2>3, <2>4 DEF Known, Working, AttemptRow, Evidence, Current
<1>2. \A e \in events' : KnownEvent(e)' /\ EvidenceOf(e)'
  BY DEF HistoryInv, KnownEvent, AttemptRow, EvidenceOf, SharesSecond
<1>3. Bounded'
  BY DEF HistoryInv, Bounded
<1> QED
  BY <1>1, <1>2, <1>3 DEF HistoryInv

LEMMA HistoryStep == TypeInv /\ AuditInv /\ HistoryInv /\ [Next]_vars => HistoryInv'
<1> SUFFICES ASSUME TypeInv, AuditInv, HistoryInv, [Next]_vars PROVE HistoryInv'
  OBVIOUS
<1>1. ASSUME NEW s \in Sources, Advance(s) PROVE HistoryInv'
  BY <1>1, AdvanceHistory
<1>2. CASE Tick
  BY <1>2, StutterHistory DEF Tick
<1>3. ASSUME NEW p \in Procs, NEW todo \in Todos, NEW apply \in BOOLEAN, Begin(p, todo, apply)
      PROVE  HistoryInv'
  <2>1. ops \in [Procs -> Op] /\ ops[p] \in Op
    BY DEF TypeInv, TypeOK
  <2>2. (\A q \in Procs : q # p => ops'[q] = ops[q]) /\ ops'[p].phase = "ready"
    BY <1>3, <2>1 DEF Begin, Op
  <2> QED
    BY <1>3, <2>2, IdleHistory DEF Begin
<1>4. ASSUME NEW p \in Procs, AdapterEscapes(p) \/ Die(p) PROVE HistoryInv'
  <2>1. (\A q \in Procs : q # p => ops'[q] = ops[q]) /\ ops'[p].phase \in {"escaped", "died"}
    BY <1>4 DEF AdapterEscapes, Die, Leaves, Idle, TypeInv, TypeOK
  <2> QED
    BY <1>4, <2>1, IdleHistory DEF AdapterEscapes, Die
<1>5. ASSUME NEW p \in Procs, Step(p) \/ Die(p) PROVE HistoryInv'
  BY <1>4, <1>5, OpenPathsHistory, FetchHistory, CaptureHistory, AdaptHistory, EndsHistory,
     ApplyHistory, FinalizeHistory DEF Step
<1>6. CASE UNCHANGED vars
  BY <1>6, StutterHistory DEF vars
<1> QED
  BY <1>1, <1>2, <1>3, <1>5, <1>6 DEF Next

-----------------------------------------------------------------------------
(* The invariant, and what follows from it.                                *)
IInv == TypeInv /\ AuditInv /\ HistoryInv

(* The inductive invariant holds in every reachable state, whatever fails, *)
(* escapes or dies.                                                        *)
THEOREM Invariance == Spec => []IInv
<1>1. Init => IInv
  BY InitTypes, InitAudit, InitHistory DEF IInv
<1>2. IInv /\ [Next]_vars => IInv'
  BY TypeStep, AuditStep, HistoryStep DEF IInv
<1> QED
  BY <1>1, <1>2, PTL DEF Spec

(* The files, the ledger, the audit and the commands keep their types.     *)
THEOREM TypeCorrect == Spec => []TypeOK
<1>1. IInv => TypeOK
  BY DEF IInv, TypeInv
<1> QED
  BY <1>1, Invariance, PTL

(* Refresh events and reconcile events agree at every moment, although     *)
(* they are written by two transactions.                                   *)
THEOREM AuditAgrees == Spec => []AuditMatchesReconciles
<1>1. IInv => AuditMatchesReconciles
  BY AuditInvSuffices DEF IInv
<1> QED
  BY <1>1, Invariance, PTL

(* The manifest file of an event is what its reconcile applied, unless     *)
(* attempts share their files.                                             *)
THEOREM EvidenceStays == Spec => []EvidenceKept
<1>1. IInv => EvidenceKept
  BY DEF IInv, HistoryInv, EvidenceOf, EvidenceKept
<1> QED
  BY <1>1, Invariance, PTL

(* The ledger goes back to older data of a source only by way of another   *)
(* attempt: one that has reconciled it since the fetch, or shares files.   *)
THEOREM RegressCauses == Spec => RegressNeedsOverlap
<1>1. ASSUME IInv, NEW p \in Procs, Apply(p), ledger'[Source(p)] < ledger[Source(p)]
      PROVE  Overtaken(p) \/ SharesSecond(AttemptOf(p))
  <2>1. /\ ops[p].phase = "adapted" /\ ops[p].data \in Versions
        /\ Source(p) \in Sources /\ ledger \in [Sources -> Versions]
    BY <1>1, TodoFacts DEF IInv, TypeInv, TypeOK, Apply, InFlight, Op
  <2>2. ledger'[Source(p)] = ops[p].data
    BY <1>1, <2>1 DEF Apply
  <2>3. ~(ledger[Source(p)] <= ops[p].data)
    BY <1>1, <2>1, <2>2 DEF Versions
  <2> QED
    BY <1>1, <2>1, <2>3 DEF IInv, HistoryInv, Current
<1>2. IInv =>
        [\A p \in Procs :
           LET s == Source(p)
           IN  Apply(p) /\ ledger'[s] < ledger[s] =>
                 \/ \E i \in DOMAIN reconciles : i > ops[p].seen /\ reconciles[i].source = s
                 \/ SharesSecond(AttemptOf(p))]_vars
  BY <1>1 DEF Overtaken
<1> QED
  BY <1>2, Invariance, PTL DEF RegressNeedsOverlap
=============================================================================
