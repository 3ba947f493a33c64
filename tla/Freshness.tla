------------------------------ MODULE Freshness ------------------------------
(***************************************************************************)
(* Whether the evidence of an experiment is still what it was: artifacts   *)
(* remember the size and the modification time of their local file, and a  *)
(* validation is stale when its source artifact has drifted from its file, *)
(* or was written after the validation.                                    *)
(*                                                                         *)
(* Timestamps are seconds, and every command takes its own: a row is       *)
(* written later than the second it says, and what a command knows of a    *)
(* file is older still.                                                    *)
(*                                                                         *)
(* The module has the state that Review shares; Review also follows other  *)
(* topics, in which files do not exist.                                    *)
(***************************************************************************)
EXTENDS Integers

CONSTANTS
  Writers,      \* processes that write artifacts and validations
  RunIds,       \* runs, which are linked to experiments
  Jobs,         \* jobs
  OwnJobs,      \* the jobs with the experiment in their column experiment_id
  RunOf,        \* by job: its run, or None
  Arts,         \* artifacts
  Home,         \* by artifact: a job, a run, or one of the next two
  Here,         \*   the column experiment_id
  Elsewhere,    \*   another experiment
  Checks,       \* validations of the experiment, by check name
  Stamps,       \* what stat() tells of a file: [mtime, size]
  MaxTime,      \* bound: the last second
  Behaviours,   \* bound: topics, rows and last seconds of the behaviours
  None          \* no row, no file, no source

VARIABLES
  follows,      \* what the behaviour is about: topics, cast (its rows), until
  now,          \* the clock, in seconds
  linked,       \* the table experiment_runs: the runs of the experiment
  files,        \* by artifact: its local file
  artifacts,    \* the table, by id
  validations,  \* the table, by check
  tasks         \* per process: its request, and what its reads have told it

evidenceVars == <<follows, now, linked, files, artifacts, validations, tasks>>

-----------------------------------------------------------------------------
Topics == {"evidence", "review", "handoff", "cleanup"}

Time == 0 .. MaxTime

Stamp == Stamps \cup {None}

(* at: updated_at; captured: the fieldbook.local_*_at_capture attributes.   *)
Artifact == [at: Time, captured: Stamp, archived: BOOLEAN]

(* The last three are kept for the properties: what the file was when the  *)
(* command began, what was captured of it when the row was written, and    *)
(* whether the artifact has been written since then with a time that is    *)
(* not later.                                                              *)
Validation ==
  [at: Time, source: Arts \cup {None}, failing: BOOLEAN,
   examined: Stamp, captured: Stamp, overtaken: BOOLEAN]

TaskRequest ==
  [does: {"add", "refresh"}, on: Arts]
    \cup [does: {"validate"}, on: Checks, source: Arts \cup {None}, failing: BOOLEAN]

(* stamp: what stat() told; seen: the files as the command began (kept for *)
(* the properties); found: whether the row was there.                      *)
Task ==
  [phase: {"idle", "looked", "timed"}, request: TaskRequest \cup {None}, found: BOOLEAN,
   stamp: Stamp, seen: [Arts -> Stamp], at: Time]

ASSUME NoneAssumption == None \notin Arts \cup Stamps \cup Artifact \cup Validation \cup TaskRequest
ASSUME HomeAssumption ==
  /\ Home \in [Arts -> Jobs \cup RunIds \cup {Here, Elsewhere}]
  /\ OwnJobs \subseteq Jobs /\ RunOf \in [Jobs -> RunIds \cup {None}] /\ None \notin RunIds
  /\ {Here, Elsewhere} \cap (Jobs \cup RunIds) = {} /\ Jobs \cap RunIds = {} /\ Here # Elsewhere
\* Two stamps are the same when os.stat tells the same mtime and size.
ASSUME StampsAssumption == \A s, t \in Stamps : s.mtime = t.mtime /\ s.size = t.size => s = t
ASSUME TimeAssumption == MaxTime \in Nat
ASSUME BehavioursAssumption == \A b \in Behaviours : b.topics \subseteq Topics /\ b.until \in Time

Follows(topic) == topic \in follows.topics

NoFiles == [a \in Arts |-> None]

NoTask == [phase |-> "idle", request |-> None, found |-> FALSE,
           stamp |-> None, seen |-> NoFiles, at |-> 0]

Requested(p) == tasks[p].request
TargetOf(p) == tasks[p].request.on

InitEvidence ==
  /\ follows \in Behaviours
  /\ now = 0
  /\ linked = {}
  /\ files \in {f \in [Arts -> Stamp] :
       \A a \in Arts : f[a] # None => Follows("evidence") /\ a \in follows.cast}
  /\ artifacts = [a \in Arts |-> None]
  /\ validations = [c \in Checks |-> None]
  /\ tasks = [p \in Writers |-> NoTask]

IsThere(a) == artifacts[a] # None
IsActive(a) == IsThere(a) /\ ~artifacts[a].archived

-----------------------------------------------------------------------------
(* drifted_artifacts, stale_validations: for an experiment, or for doctor, *)
(* who looks at all artifacts.                                             *)
Scopes == {"experiment", "ledger"}

(* What a job, a run or an experiment column makes the experiment's: also  *)
(* through a run, or a job of a run, that is archived.                     *)
Reaches(x) ==
  \/ x = Here
  \/ x \in linked
  \/ x \in Jobs /\ (x \in OwnJobs \/ RunOf[x] \in linked)

ArtifactRows(scope) == {a \in Arts : IsActive(a) /\ (scope = "experiment" => Reaches(Home[a]))}

Drifted(a) ==
  /\ artifacts[a].captured # None
  /\ \/ files[a] = None
     \/ files[a].mtime # artifacts[a].captured.mtime
     \/ files[a].size # artifacts[a].captured.size

DriftedArtifacts(scope) == {a \in ArtifactRows(scope) : Drifted(a)}

IsStale_DriftOnly(v, scope) == v.source \in DriftedArtifacts(scope)

IsStale(v, scope) ==
  v.source \in DriftedArtifacts(scope) \/ artifacts[v.source].at > v.at

(* An archived source makes no validation stale.                           *)
StaleValidations(scope) ==
  {c \in Checks :
     /\ validations[c] # None
     /\ validations[c].source # None
     /\ IsActive(validations[c].source)
     /\ IsStale(validations[c], scope)}

(* doctor: validation.source_drift                                         *)
ValidationIssues == StaleValidations("ledger")

-----------------------------------------------------------------------------
(* add_artifact and refresh_local_artifact: the file is looked at, then    *)
(* the time is taken, then the row is written.                             *)

Began(p, phase, request, found, stamp) ==
  /\ tasks[p].phase = "idle"
  /\ tasks' = [tasks EXCEPT ![p] =
       [phase |-> phase, request |-> request, found |-> found,
        stamp |-> stamp, seen |-> files, at |-> IF phase = "timed" THEN now ELSE 0]]
  /\ UNCHANGED <<follows, now, linked, files, artifacts, validations>>

AddLook(p, a) ==
  /\ IsThere(a) => IsActive(a)
  /\ Began(p, "looked", [does |-> "add", on |-> a], IsThere(a), files[a])

RefreshLook(p, a) ==
  /\ IsThere(a) /\ files[a] # None
  /\ Began(p, "looked", [does |-> "refresh", on |-> a], TRUE, files[a])

TakeTime(p) ==
  /\ tasks[p].phase = "looked"
  /\ tasks' = [tasks EXCEPT ![p].phase = "timed", ![p].at = now]
  /\ UNCHANGED <<follows, now, linked, files, artifacts, validations>>

(* Artifact a is written, with time t.                                     *)
Rewritten(a, row, t) ==
  /\ artifacts' = [artifacts EXCEPT ![a] = row]
  /\ validations' = [c \in Checks |->
       IF validations[c] # None /\ validations[c].source = a /\ t <= validations[c].at
       THEN [validations[c] EXCEPT !.overtaken = TRUE] ELSE validations[c]]
  /\ UNCHANGED <<follows, now, linked, files>>

Done(p) == tasks' = [tasks EXCEPT ![p] = NoTask]

(* The attributes are replaced, by what was captured of the file if there  *)
(* was one; the update goes by id, also to a row that is archived by now.  *)
WriteArtifact(p) ==
  /\ tasks[p].phase = "timed" /\ Requested(p).does \in {"add", "refresh"}
  /\ tasks[p].found = IsThere(TargetOf(p))
  /\ Rewritten(TargetOf(p),
       [at |-> tasks[p].at, captured |-> tasks[p].stamp,
        archived |-> IsThere(TargetOf(p)) /\ artifacts[TargetOf(p)].archived], tasks[p].at)
  /\ Done(p)

(* archive_artifact                                                        *)
ArchiveArtifact(a) ==
  /\ IsThere(a)
  /\ Rewritten(a, [artifacts[a] EXCEPT !.archived = TRUE, !.at = now], now)
  /\ UNCHANGED tasks

(* A row of a manifest, which captures nothing: attributes that it gives   *)
(* replace those that there are.                                           *)
ManifestArtifact(a, attrs) ==
  /\ IsThere(a) => IsActive(a)
  /\ Rewritten(a,
       [at |-> now, archived |-> FALSE,
        captured |-> IF IsThere(a) /\ ~attrs THEN artifacts[a].captured ELSE None], now)
  /\ UNCHANGED tasks

-----------------------------------------------------------------------------
(* add_validation: written over the validation of the same check, whose    *)
(* source it keeps when it is given none.                                  *)
ValidateLook(p, c, source, failing) ==
  /\ source # None => IsThere(source)
  /\ Began(p, "timed",
       [does |-> "validate", on |-> c, source |-> source, failing |-> failing],
       validations[c] # None, None)

KeptSource(p) ==
  IF Requested(p).source = None /\ validations[TargetOf(p)] # None
  THEN validations[TargetOf(p)].source ELSE Requested(p).source

Validate(p) ==
  /\ tasks[p].phase = "timed" /\ Requested(p).does = "validate"
  /\ tasks[p].found = (validations[TargetOf(p)] # None)
  /\ LET a == KeptSource(p)
     IN  validations' = [validations EXCEPT ![TargetOf(p)] =
           [at |-> tasks[p].at, source |-> a, failing |-> Requested(p).failing,
            examined |-> IF a = None THEN None ELSE tasks[p].seen[a],
            captured |-> IF a = None THEN None ELSE artifacts[a].captured,
            overtaken |-> FALSE]]
  /\ Done(p)
  /\ UNCHANGED <<follows, now, linked, files, artifacts>>

(* The index knows of a row that the command did not find, the database is *)
(* locked, the gate of an archived experiment is shut, or the process dies. *)
Drop(p) ==
  /\ tasks[p].phase # "idle"
  /\ Done(p)
  /\ UNCHANGED <<follows, now, linked, files, artifacts, validations>>

-----------------------------------------------------------------------------
(* add_run, link_run and manifests link a run; the gate of an archived     *)
(* experiment is looked at before.                                         *)
LinkRun(r) ==
  /\ linked' = linked \cup {r}
  /\ UNCHANGED <<follows, now, files, artifacts, validations, tasks>>

-----------------------------------------------------------------------------
(* The world: somebody writes or removes a file, and time passes.          *)
ChangeFile(a, stamp) ==
  /\ Follows("evidence")
  /\ files' = [files EXCEPT ![a] = stamp]
  /\ UNCHANGED <<follows, now, linked, artifacts, validations, tasks>>

Tick ==
  /\ now < follows.until
  /\ now' = now + 1
  /\ UNCHANGED <<follows, linked, files, artifacts, validations, tasks>>

Appearing(S) == S \cap follows.cast

(* Only the lifecycle of Review depends on whether a check failed.          *)
Verdicts == IF Follows("review") THEN BOOLEAN ELSE {FALSE}

EvidenceNext ==
  \/ \E p \in Writers :
       \/ \E a \in Appearing(Arts) : AddLook(p, a) \/ RefreshLook(p, a)
       \/ \E c \in Appearing(Checks), source \in Appearing(Arts) \cup {None}, failing \in Verdicts :
            ValidateLook(p, c, source, failing)
       \/ TakeTime(p) \/ WriteArtifact(p) \/ Validate(p) \/ Drop(p)
  \/ \E a \in Appearing(Arts) :
       \/ ArchiveArtifact(a)
       \/ \E attrs \in BOOLEAN : ManifestArtifact(a, attrs)
       \/ \E stamp \in Stamp : ChangeFile(a, stamp)
  \/ \E r \in Appearing(RunIds) : LinkRun(r)
  \/ Tick

-----------------------------------------------------------------------------
(* A validation of what an artifact's file was at capture is reported once *)
(* the file is another one, be the artifact refreshed by then or not: by   *)
(* doctor, and in the freshness of its experiment if the artifact is the   *)
(* experiment's, by itself or through a job or a run.  The exceptions are  *)
(* these: the artifact has been archived, which drops its validations from *)
(* the report; a manifest, or an update without the file, has dropped what *)
(* was captured; and the artifact was written after the validation with a  *)
(* time that is not later, in the same second or by a command that ran     *)
(* beside it.                                                              *)
ChangedSourceIsReported ==
  \A c \in Checks :
    LET v == validations[c]
    IN  /\ v # None
        /\ v.source # None
        /\ v.examined # None /\ v.captured = v.examined
        /\ files[v.source] # v.examined
        => \/ /\ c \in ValidationIssues
              /\ Reaches(Home[v.source]) => c \in StaleValidations("experiment")
           \/ ~IsActive(v.source)
           \/ artifacts[v.source].captured = None
           \/ v.overtaken
=============================================================================
