------------------------------- MODULE Refresh -------------------------------
(***************************************************************************)
(* `fieldbook refresh run`: the state of external sources is captured in a *)
(* snapshot file, translated by an adapter, reconciled into the ledger and *)
(* recorded as a refresh event.                                            *)
(*                                                                         *)
(* One command is one process that takes its sources one after the other;  *)
(* each is an attempt.  An attempt touches files, then the ledger in the   *)
(* transaction of the reconcile, then the ledger again in the transaction  *)
(* of its event.  Commands interleave and die between any two steps.       *)
(***************************************************************************)
EXTENDS Integers, Sequences, FiniteSets

CONSTANTS
  Procs,        \* the refresh commands that are ever run
  Sources,      \* the sources of refresh.toml
  MaxTodo,      \* bound: sources named by one command, repetitions included
  MaxVersion,   \* bound: how often the state of a source changes
  MaxClock,     \* bound of the clock
  Null          \* no file, no reconcile event

VARIABLES
  external,     \* per source, the version of what a helper would print now
  clock,        \* utc_now(), in seconds
  files,        \* the snapshot and manifest files, by stem
  ledger,       \* per source, the version whose rows were applied last
  reconciles,   \* reconcile_events of refreshes, in order
  events,       \* refresh_events
  attempts,     \* history: the source and the second of every attempt begun
  ops           \* per command: how far it is, and what its reads have fixed

vars == <<external, clock, files, ledger, reconciles, events, attempts, ops>>

-----------------------------------------------------------------------------
Versions == 0 .. MaxVersion
Seconds == 0 .. MaxClock

Todos == UNION {[1 .. n -> Sources] : n \in 1 .. MaxTodo}

(* An attempt is named by its command and by how many sources the command  *)
(* still has to do, its own included.                                      *)
AttemptIds == Procs \X (1 .. MaxTodo)

Attempt == [id: AttemptIds, source: Sources, second: Seconds]

(* The debug file and the wording of errors are data that no guard reads.  *)
FileRow == [snapshot: Versions \cup {Null}, manifest: Versions \cup {Null}]

ReconcileEvent == [attempt: AttemptIds, source: Sources, version: Versions]

Outcomes ==
  {<<"applied", "reconcile">>, <<"dry_run", "reconcile">>,
   <<"failed", "helper">>, <<"failed", "adapter">>, <<"failed", "reconcile">>}

RefreshEvent ==
  [attempt: AttemptIds, source: Sources, outcome: Outcomes,
   stem: Sources \X Seconds, reconcile: Nat \cup {Null}]

(* data: the version that the helper printed, and then the one that the    *)
(* adapter read back; seen: how many reconciles there were at the fetch;   *)
(* outcome: status and stage of the event that is still to be recorded.    *)
Op ==
  [phase: {"new", "ready", "opened", "fetched", "captured", "adapted",
           "finalizing", "over", "escaped", "died"},
   todo: Seq(Sources), apply: BOOLEAN, second: Seconds, data: Versions,
   seen: Nat, outcome: Outcomes \cup {Null}, reconcile: Nat \cup {Null}]

ASSUME BoundAssumption == MaxTodo \in Nat \ {0} /\ MaxVersion \in Nat /\ MaxClock \in Nat
ASSUME NullAssumption == Null \notin Nat \cup Outcomes \cup Seq(Sources)

Source(p) == Head(ops[p].todo)
AttemptOf(p) == <<p, Len(ops[p].todo)>>
InFlight(p) == ops[p].phase \notin {"new", "over", "escaped", "died"}

Idle ==
  [phase |-> "new", todo |-> <<>>, apply |-> FALSE, second |-> 0, data |-> 0,
   seen |-> 0, outcome |-> Null, reconcile |-> Null]

(* The command is gone; it is still known what it had not done.            *)
Leaves(p, phase) ==
  ops' = [ops EXCEPT ![p] = [Idle EXCEPT !.phase = phase, !.todo = ops[p].todo]]

Init ==
  /\ external = [s \in Sources |-> 0]
  /\ clock = 0
  /\ files = [f \in Sources \X Seconds |-> [snapshot |-> Null, manifest |-> Null]]
  /\ ledger = [s \in Sources |-> 0]
  /\ reconciles = <<>>
  /\ events = {}
  /\ attempts = {}
  /\ ops = [p \in Procs |-> Idle]

-----------------------------------------------------------------------------
(* The world: a job finishes, a summary changes; time passes.              *)
Advance(s) ==
  /\ external[s] < MaxVersion
  /\ external' = [external EXCEPT ![s] = @ + 1]
  /\ UNCHANGED <<clock, files, ledger, reconciles, events, attempts, ops>>

Tick ==
  /\ clock < MaxClock
  /\ clock' = clock + 1
  /\ UNCHANGED <<external, files, ledger, reconciles, events, attempts, ops>>

-----------------------------------------------------------------------------
(* run_refresh: --source or --all, or the --refresh options of a workloop, *)
(* which may name a source twice.                                          *)
Begin(p, todo, apply) ==
  /\ ops[p].phase = "new"
  /\ ops' = [ops EXCEPT ![p] = [@ EXCEPT !.phase = "ready", !.todo = todo, !.apply = apply]]
  /\ UNCHANGED <<external, clock, files, ledger, reconciles, events, attempts>>

(* _refresh_paths: the stem holds the second and the first eight of the    *)
(* ten characters that encode the time of an id; they change once in 1024  *)
(* milliseconds, and are taken as the same second here.                    *)
Stem_OfSource(s, t) == <<s, 0>>

Stem(s, t) == <<s, t>>

StemOf(p) == Stem(Source(p), ops[p].second)

OpenPaths(p) ==
  /\ ops[p].phase = "ready"
  /\ ops' = [ops EXCEPT ![p] = [@ EXCEPT !.phase = "opened", !.second = clock]]
  /\ attempts' = attempts \cup {[id |-> AttemptOf(p), source |-> Source(p), second |-> clock]}
  /\ UNCHANGED <<external, clock, files, ledger, reconciles, events>>

(* _capture_snapshot: the helper runs, then its output is written.         *)
Fetch(p) ==
  /\ ops[p].phase = "opened"
  /\ ops' = [ops EXCEPT ![p] =
       [@ EXCEPT !.phase = "fetched", !.data = external[Source(p)], !.seen = Len(reconciles)]]
  /\ UNCHANGED <<external, clock, files, ledger, reconciles, events, attempts>>

WithSnapshot(p) == [files EXCEPT ![StemOf(p)].snapshot = ops[p].data]

Capture(p) ==
  /\ ops[p].phase = "fetched"
  /\ files' = WithSnapshot(p)
  /\ ops' = [ops EXCEPT ![p] = [@ EXCEPT !.phase = "captured", !.data = 0]]
  /\ UNCHANGED <<external, clock, ledger, reconciles, events, attempts>>

Ends(p, outcome) ==
  ops' = [ops EXCEPT ![p] =
    [@ EXCEPT !.phase = "finalizing", !.data = 0, !.seen = 0, !.outcome = outcome]]

(* It cannot be started, does not end in time or finds no file; or it      *)
(* exits with an error after its output has been written.                  *)
HelperFails(p) ==
  /\ \/ ops[p].phase = "opened" /\ UNCHANGED files
     \/ ops[p].phase = "fetched" /\ files' = WithSnapshot(p)
  /\ Ends(p, <<"failed", "helper">>)
  /\ UNCHANGED <<external, clock, ledger, reconciles, events, attempts>>

(* The snapshot is read back from its file, translated, and the manifest   *)
(* written beside it; what was read stays in memory.                       *)
Adapt(p) ==
  /\ ops[p].phase = "captured"
  /\ LET v == files[StemOf(p)].snapshot
     IN  /\ files' = [files EXCEPT ![StemOf(p)].manifest = v]
         /\ ops' = [ops EXCEPT ![p] = [@ EXCEPT !.phase = "adapted", !.data = v]]
  /\ UNCHANGED <<external, clock, ledger, reconciles, events, attempts>>

(* AdapterFailure is caught...                                             *)
AdapterFails(p) ==
  /\ ops[p].phase = "captured"
  /\ Ends(p, <<"failed", "adapter">>)
  /\ UNCHANGED <<external, clock, files, ledger, reconciles, events, attempts>>

(* ... and nothing else is: an unknown adapter, a snapshot that is not     *)
(* UTF-8 or a row of an unexpected shape ends the whole command.           *)
AdapterEscapes(p) ==
  /\ ops[p].phase = "captured"
  /\ Leaves(p, "escaped")
  /\ UNCHANGED <<external, clock, files, ledger, reconciles, events, attempts>>

-----------------------------------------------------------------------------
(* reconcile_manifest commits the rows of the manifest with its event, or  *)
(* rolls back; without --apply it always does.                             *)
Apply(p) ==
  /\ ops[p].phase = "adapted"
  /\ ops[p].apply
  /\ ledger' = [ledger EXCEPT ![Source(p)] = ops[p].data]
  /\ reconciles' = Append(reconciles,
       [attempt |-> AttemptOf(p), source |-> Source(p), version |-> ops[p].data])
  /\ ops' = [ops EXCEPT ![p] =
       [@ EXCEPT !.phase = "finalizing", !.data = 0, !.seen = 0,
                 !.outcome = <<"applied", "reconcile">>, !.reconcile = Len(reconciles) + 1]]
  /\ UNCHANGED <<external, clock, files, events, attempts>>

DryRun(p) ==
  /\ ops[p].phase = "adapted"
  /\ ~ops[p].apply
  /\ Ends(p, <<"dry_run", "reconcile">>)
  /\ UNCHANGED <<external, clock, files, ledger, reconciles, events, attempts>>

ReconcileFails(p) ==
  /\ ops[p].phase = "adapted"
  /\ Ends(p, <<"failed", "reconcile">>)
  /\ UNCHANGED <<external, clock, files, ledger, reconciles, events, attempts>>

(* _finalize_refresh: one row, committed on its own; then the next source. *)
Reference_Newest(p) ==
  IF ops[p].reconcile = Null THEN Null ELSE Len(reconciles)

Reference(p) == ops[p].reconcile

Event(p) ==
  [attempt |-> AttemptOf(p), source |-> Source(p), outcome |-> ops[p].outcome,
   stem |-> StemOf(p), reconcile |-> Reference(p)]

Remaining_UntilFailure(p) ==
  IF ops[p].outcome[1] = "failed" THEN <<>> ELSE Tail(ops[p].todo)

Remaining(p) == Tail(ops[p].todo)

Finalize(p) ==
  /\ ops[p].phase = "finalizing"
  /\ events' = events \cup {Event(p)}
  /\ ops' = [ops EXCEPT ![p] =
       IF Remaining(p) = <<>> THEN [Idle EXCEPT !.phase = "over"]
       ELSE [Idle EXCEPT !.phase = "ready", !.todo = Remaining(p), !.apply = ops[p].apply]]
  /\ UNCHANGED <<external, clock, files, ledger, reconciles, attempts>>

(* The process is killed, or gives up with "database is locked".           *)
Die(p) ==
  /\ InFlight(p)
  /\ Leaves(p, "died")
  /\ UNCHANGED <<external, clock, files, ledger, reconciles, events, attempts>>

-----------------------------------------------------------------------------
(* What a command does by itself.                                          *)
Step(p) ==
  \/ OpenPaths(p) \/ Fetch(p) \/ Capture(p) \/ HelperFails(p)
  \/ Adapt(p) \/ AdapterFails(p) \/ AdapterEscapes(p)
  \/ Apply(p) \/ DryRun(p) \/ ReconcileFails(p)
  \/ Finalize(p)

Next ==
  \/ \E s \in Sources : Advance(s)
  \/ Tick
  \/ \E p \in Procs, todo \in Todos, apply \in BOOLEAN : Begin(p, todo, apply)
  \/ \E p \in Procs : Step(p) \/ Die(p)

(* A command that is under way goes on: helpers have a timeout, the        *)
(* database a busy timeout, and files are local.                           *)
Fairness == \A p \in Procs : WF_vars(Step(p))

Spec == Init /\ [][Next]_vars /\ Fairness

-----------------------------------------------------------------------------
TypeOK ==
  /\ external \in [Sources -> Versions]
  /\ clock \in Seconds
  /\ files \in [Sources \X Seconds -> FileRow]
  /\ ledger \in [Sources -> Versions]
  /\ reconciles \in Seq(ReconcileEvent)
  /\ events \subseteq RefreshEvent
  /\ attempts \subseteq Attempt
  /\ ops \in [Procs -> Op]

(* The attempts that end without an event: killed, or left by an exception *)
(* that nobody catches.                                                    *)
Lost(a) == ops[a[1]].phase \in {"died", "escaped"} /\ Len(ops[a[1]].todo) = a[2]

Recorded(a) == \E e \in events : e.attempt = a

(* The audit and the ledger agree, wherever a command is or died: every    *)
(* reconcile is named by the event of its attempt unless that event is     *)
(* still to come or lost, and an event names a reconcile only if its       *)
(* attempt has made it, and then of its own source.                        *)
AuditMatchesReconciles ==
  /\ \A i \in DOMAIN reconciles :
       LET a == reconciles[i].attempt
       IN  \/ \E e \in events : e.attempt = a /\ e.reconcile = i
           \/ InFlight(a[1]) /\ AttemptOf(a[1]) = a
           \/ Lost(a)
  /\ \A e \in events :
       IF e.outcome[1] = "applied"
       THEN /\ e.reconcile \in DOMAIN reconciles
            /\ reconciles[e.reconcile].attempt = e.attempt
            /\ reconciles[e.reconcile].source = e.source
       ELSE \A i \in DOMAIN reconciles : reconciles[i].attempt # e.attempt

(* Another attempt at the same source began in the same second.            *)
SharesSecond(a) ==
  \E x, y \in attempts :
    x.id = a /\ y.id # a /\ x.source = y.source /\ x.second = y.second

(* The manifest file that an event names is what its reconcile applied,    *)
(* unless another attempt at that source began in the same second.         *)
EvidenceKept ==
  \A e \in events :
    e.reconcile # Null /\ ~SharesSecond(e.attempt) =>
      files[e.stem].manifest = reconciles[e.reconcile].version

(* The ledger goes back to an older state of a source only if another      *)
(* attempt has reconciled it since the attempt in question fetched its     *)
(* data, or has written to the same files.                                 *)
RegressNeedsOverlap ==
  [][\A p \in Procs :
       LET s == Source(p)
       IN  Apply(p) /\ ledger'[s] < ledger[s] =>
             \/ \E i \in DOMAIN reconciles : i > ops[p].seen /\ reconciles[i].source = s
             \/ SharesSecond(AttemptOf(p))]_vars

(* Every source that a command was given is attempted and recorded, also   *)
(* after the failure of another one, unless the command is killed or left  *)
(* by an exception.                                                        *)
EverySourceRecorded ==
  \A p \in Procs, n \in 1 .. MaxTodo :
    InFlight(p) /\ Len(ops[p].todo) >= n
      ~> Recorded(<<p, n>>) \/ ops[p].phase \in {"died", "escaped"}
=============================================================================
