-------------------------------- MODULE Review --------------------------------
(***************************************************************************)
(* What is left to look at in an experiment: the review marker and the     *)
(* lifecycle of the dashboard (v_dashboard_experiments_v1), the handoff    *)
(* status that the dashboard and experiment_freshness each work out, and   *)
(* the commands experiment mark-reviewed, handoff and cleanup, which read  *)
(* what they are about, and write in transactions of their own afterwards. *)
(*                                                                         *)
(* Artifacts, validations and the clock are those of Freshness.  A         *)
(* behaviour follows one topic: evidence that goes stale, activity and its *)
(* review, handoffs, or the cleanup of debug notes.                        *)
(***************************************************************************)
EXTENDS Freshness, FiniteSets, FiniteSetsExt

CONSTANTS
  Agents,       \* processes that review, hand off and clean up
  Retries,      \* pairs (retry, job it descends from)
  Notes,        \* notes on the experiment of a reviewable type
  Debugs,       \* debug notes on jobs
  About,        \* by debug note: its job
  Rank,         \* by job, artifact, validation and note: the order of its id
  ReviewRanks,  \* places of the ids of review notes in that order
  MaxReviews,   \* bound: review notes
  Dated,        \* bound: the jobs whose finished_at is ever given
  PlanLimit,    \* debug notes of one cleanup
  StaleAfter    \* seconds after which a handoff is stale

VARIABLES
  archivedRuns, \* runs that are archived
  jobs,         \* the table, by id
  notes,        \* by note: the second of its last update, None without it
  reviews,      \* review notes
  debugs,       \* by debug note: its status
  handoff,      \* the second of the last checkpoint note
  closed,       \* whether the experiment is
  commands      \* per agent: its command and what its reads have told it

reviewVars == <<evidenceVars, archivedRuns, jobs, notes, reviews, debugs, handoff, closed, commands>>

-----------------------------------------------------------------------------
Terminal == {"succeeded", "failed"}

(* finished and touched: finished_at and updated_at                        *)
Job ==
  [status: {"running"} \cup Terminal, finished: Time \cup {None}, touched: Time, archived: BOOLEAN]

(* count: fieldbook.reviewed_activity_count.  The last three are kept for  *)
(* the properties: the activity that the command counted, which of it, or  *)
(* beside it, has changed since, and whether any has gone.                 *)
Subjects == Jobs \cup Arts \cup Checks \cup Notes

Marker == [count: Nat, known: SUBSET Subjects, changed: SUBSET Subjects, lost: BOOLEAN]

ReviewNote == [at: Time, rank: ReviewRanks, marker: Marker]

Idling == [phase |-> "idle"]

AgentCommand ==
  [phase: {"idle"}] \cup [phase: {"counted"}, marker: Marker]
    \cup [phase: {"reported", "noted"}, archive: BOOLEAN]
    \cup [phase: {"planned", "resolved"}, plan: SUBSET Debugs, stale: BOOLEAN]

ASSUME RankAssumption ==
  /\ Rank \in [Subjects -> Nat] /\ ReviewRanks \subseteq Nat
  /\ \A x \in Arts \cup Jobs, r \in ReviewRanks, c \in Checks : Rank[x] < r /\ r < Rank[c]
  /\ \A x \in Subjects : Rank[x] \notin ReviewRanks
ASSUME FiniteAssumption == \A S \in {Jobs, Arts, Checks, Notes} : IsFiniteSet(S)
ASSUME DistinctAssumption ==
  /\ Jobs \cap Arts = {}
  /\ (Jobs \cup Arts) \cap Checks = {}
  /\ (Jobs \cup Arts \cup Checks) \cap Notes = {}
ASSUME StaleAssumption == StaleAfter \in Nat
ASSUME RetriesAssumption == Retries \subseteq Jobs \X Jobs /\ About \in [Debugs -> Jobs]

InitReview ==
  /\ InitEvidence
  /\ archivedRuns = {}
  /\ jobs = [j \in Jobs |-> None]
  /\ notes = [n \in Notes |-> None]
  /\ reviews = {}
  /\ debugs = [d \in Debugs |-> None]
  /\ handoff = None
  /\ closed = FALSE
  /\ commands = [g \in Agents |-> Idling]

-----------------------------------------------------------------------------
(* What is archived of a run is the run: not its link, not its jobs.        *)
LivingRuns == linked \ archivedRuns

(* v_jobs_with_recovery_v1                                                 *)
Living(j) == jobs[j] # None /\ ~jobs[j].archived

RetriedAs(j, statuses) ==
  \E k \in Jobs : <<k, j>> \in Retries /\ Living(k) /\ jobs[k].status \in statuses

Failed(j) == Living(j) /\ jobs[j].status = "failed"
Recovered(j) == Failed(j) /\ RetriedAs(j, {"succeeded"})
Blocking(j) == Failed(j) /\ ~RetriedAs(j, {"succeeded", "running"})

-----------------------------------------------------------------------------
(* v_dashboard_experiments_v1: the jobs are the experiment's own and those *)
(* of its runs.  Reviewable activity is pairs of a second and an id.  A    *)
(* job that recovered counts twice, the second time by the second in which *)
(* it was last written.                                                    *)
Key(at, rank) == <<at, rank>>
Before(k, l) == k[1] < l[1] \/ (k[1] = l[1] /\ k[2] < l[2])

LivingJobs == {j \in Jobs : Living(j) /\ Reaches(j)}
TerminalJobs == {j \in LivingJobs : jobs[j].status \in Terminal}
ShownArtifacts == {a \in Arts : IsActive(a) /\ Home[a] = Here}
ShownChecks == {c \in Checks : validations[c] # None}
ShownNotes == {n \in Notes : notes[n] # None}

Activity == TerminalJobs \cup ShownArtifacts \cup ShownChecks \cup ShownNotes

OrElse(new, old) == IF new # None THEN new ELSE old

ActivityAt(x) ==
  IF x \in Jobs THEN OrElse(jobs[x].finished, jobs[x].touched)
  ELSE IF x \in Arts THEN artifacts[x].at
  ELSE IF x \in Checks THEN validations[x].at ELSE notes[x]

RecoveredJobs == {j \in LivingJobs : Recovered(j)}

ActivityCount == Cardinality(Activity) + Cardinality(RecoveredJobs)

ActivityAfter(k) ==
  \/ \E x \in Activity : Before(k, Key(ActivityAt(x), Rank[x]))
  \/ \E j \in RecoveredJobs : Before(k, Key(jobs[j].touched, Rank[j]))

LastReview ==
  CHOOSE r \in reviews : \A q \in reviews : ~Before(Key(r.at, r.rank), Key(q.at, q.rank))

PendingReview_KeyOnly ==
  Activity # {} /\ (reviews # {} => ActivityAfter(Key(LastReview.at, LastReview.rank)))

PendingReview ==
  /\ Activity # {}
  /\ reviews # {} =>
       \/ ActivityAfter(Key(LastReview.at, LastReview.rank))
       \/ ActivityCount > LastReview.marker.count

RunningJobs == {j \in LivingJobs : jobs[j].status = "running"}
BlockingJobs == {j \in LivingJobs : Blocking(j)}
FailingChecks == {c \in ShownChecks : validations[c].failing}

(* Stale leases and submissions, which also need attention, are left out.  *)
LifecycleState ==
  IF closed THEN "archived"
  ELSE IF BlockingJobs # {} \/ FailingChecks # {} THEN "needs_attention"
  ELSE IF RunningJobs # {} THEN "running"
  ELSE IF PendingReview THEN "review" ELSE "open"

-----------------------------------------------------------------------------
(* The status of the handoff, in the dashboard and in experiment_freshness, *)
(* each with its own count of what would make it missing; the second also  *)
(* reckons with the fraction of the second that it is now.                 *)
DashboardStatus ==
  IF handoff # None THEN IF now - handoff > StaleAfter THEN "stale" ELSE "current"
  ELSE IF LivingRuns \cup LivingJobs \cup ShownChecks \cup ShownArtifacts \cup ShownNotes = {} THEN "idle"
  ELSE "missing"

FreshnessActivity_AnyJob ==
  {j \in OwnJobs : jobs[j] # None} \cup ShownChecks \cup ArtifactRows("experiment")
    \cup LivingRuns \cup ShownNotes \cup reviews

FreshnessActivity ==
  {j \in OwnJobs : Living(j)} \cup ShownChecks \cup ArtifactRows("experiment")
    \cup LivingRuns \cup ShownNotes \cup reviews

FreshnessStatus ==
  IF handoff # None THEN IF now - handoff >= StaleAfter THEN "stale" ELSE "current"
  ELSE IF FreshnessActivity = {} THEN "idle" ELSE "missing"

NeedsHandoff(status) == status \in {"missing", "stale"}

(* What the three places that tell of an experiment advise: the cards of   *)
(* the dashboard, the actions of experiment workloop, and doctor, who      *)
(* passes over archived experiments.  (Advice on leases, submissions and   *)
(* other findings of doctor is left out.)                                  *)
AttentionCards ==
  {card \in {"blocking", "recovering", "failing", "handoff"} :
     CASE card = "blocking" -> BlockingJobs # {}
       [] card = "recovering" -> \E j \in LivingJobs : Failed(j) /\ ~Recovered(j) /\ ~Blocking(j)
       [] card = "failing" -> FailingChecks # {}
       [] card = "handoff" -> NeedsHandoff(DashboardStatus)}

WorkloopActions ==
  LET advised ==
        {action \in {"refresh", "handoff"} :
           IF action = "refresh" THEN RunningJobs \cap OwnJobs # {} ELSE NeedsHandoff(FreshnessStatus)}
  IN  IF advised = {} THEN {"continue"} ELSE advised

CheckpointIssues == {e \in {"experiment"} : ~closed /\ NeedsHandoff(FreshnessStatus)}

-----------------------------------------------------------------------------
(* What a change of activity means to the reviews that there are, and to   *)
(* the commands that have read something.                                  *)
Noted(marker) ==
  LET here == Activity'
      gone == Activity \ here
      new ==
        {x \in here : x \notin Activity \/ ActivityAt(x)' # ActivityAt(x)}
  IN  [marker EXCEPT !.changed = (@ \ gone) \cup new,
                     !.lost = @ \/ ~(Activity \subseteq here /\ RecoveredJobs \subseteq RecoveredJobs')]

Overtaken(S) ==
  [g \in Agents |->
     IF g \in S THEN Idling
     ELSE IF commands[g].phase = "counted" THEN [commands[g] EXCEPT !.marker = Noted(@)]
     ELSE IF commands[g].phase \in {"planned", "resolved"} THEN [commands[g] EXCEPT !.stale = TRUE]
     ELSE commands[g]]

MarkedReviews == {[r EXCEPT !.marker = Noted(@)] : r \in reviews}

-----------------------------------------------------------------------------
(* Steps of others: evidence, runs, jobs and notes.                        *)
Others == <<archivedRuns, handoff, closed>>

(* An artifact of a job is written after the job.                          *)
EvidenceMoves ==
  /\ ~Follows("cleanup")
  /\ EvidenceNext
  /\ \A a \in Arts : Home[a] \in Jobs /\ jobs[Home[a]] = None => artifacts'[a] = None
  /\ UNCHANGED <<jobs, notes, debugs, Others>>
  /\ reviews' = MarkedReviews /\ commands' = Overtaken({})

(* add_job, update_job_status: a finished_at that is given may lie in the  *)
(* past, and is kept when the job is updated again.  (What an archived job *)
(* is told no view shows.)                                                 *)
Finished(j, t) == IF jobs[j] = None THEN t ELSE OrElse(t, jobs[j].finished)

ReportJob(j, status, t) ==
  /\ ~Follows("evidence")
  /\ jobs[j] = None \/ Living(j)
  /\ t # None => j \in Dated /\ status \in Terminal /\ t <= now
  /\ jobs' = [jobs EXCEPT ![j] =
       [status |-> status, finished |-> Finished(j, t), touched |-> now, archived |-> FALSE]]
  /\ UNCHANGED <<evidenceVars, notes, debugs, Others>>
  /\ reviews' = MarkedReviews /\ commands' = Overtaken({})

ArchiveJob(j) ==
  /\ ~Follows("evidence") /\ Living(j)
  /\ jobs' = [jobs EXCEPT ![j].archived = TRUE]
  /\ UNCHANGED <<evidenceVars, notes, debugs, Others>>
  /\ reviews' = MarkedReviews /\ commands' = Overtaken({})

(* archive_run                                                             *)
ArchiveRun(r) ==
  /\ archivedRuns' = archivedRuns \cup {r}
  /\ UNCHANGED <<evidenceVars, jobs, notes, reviews, debugs, handoff, closed, commands>>

(* add_note, resolve_note and manifests write a note; archive_note takes   *)
(* it out of the activity, and of what a handoff is about.  (The status    *)
(* superseded takes it out of the first only, for either status.)          *)
WriteNote(n, at) ==
  /\ Follows("review") \/ Follows("handoff")
  /\ notes' = [notes EXCEPT ![n] = at]
  /\ UNCHANGED <<evidenceVars, jobs, debugs, Others>>
  /\ reviews' = MarkedReviews /\ commands' = Overtaken({})

(* The same of a debug note, by its status.                                *)
WriteDebug(d, status) ==
  /\ Follows("cleanup") /\ jobs[About[d]] # None
  /\ debugs' = [debugs EXCEPT ![d] = status]
  /\ commands' = Overtaken({})
  /\ UNCHANGED <<evidenceVars, jobs, notes, reviews, Others>>

-----------------------------------------------------------------------------
(* mark_experiment_reviewed: the dashboard is read, the note written after. *)
Count(g) ==
  /\ Follows("review") /\ commands[g].phase = "idle"
  /\ commands' = [commands EXCEPT ![g] =
       [phase |-> "counted",
        marker |-> [count |-> ActivityCount, known |-> Activity, changed |-> {}, lost |-> FALSE]]]
  /\ UNCHANGED <<evidenceVars, jobs, notes, reviews, debugs, Others>>

MarkReviewed(g) ==
  /\ commands[g].phase = "counted"
  /\ ~closed
  /\ Cardinality(reviews) < MaxReviews
  /\ \E rank \in ReviewRanks \ {r.rank : r \in reviews} :
       reviews' = reviews \cup {[at |-> now, rank |-> rank, marker |-> commands[g].marker]}
  /\ commands' = [commands EXCEPT ![g] = Idling]
  /\ UNCHANGED <<evidenceVars, jobs, notes, debugs, Others>>

(* archive_note, of a review note                                          *)
WithdrawReview(r) ==
  /\ reviews' = reviews \ {r}
  /\ UNCHANGED <<evidenceVars, jobs, notes, debugs, Others, commands>>

-----------------------------------------------------------------------------
(* checkpoint_experiment: freshness is read, the note is written, and then *)
(* the experiment is archived, if that was asked for.                      *)
Report(g, archive) ==
  /\ Follows("handoff") /\ commands[g].phase = "idle"
  /\ commands' = [commands EXCEPT ![g] = [phase |-> "reported", archive |-> archive]]
  /\ UNCHANGED <<evidenceVars, jobs, notes, reviews, debugs, Others>>

(* Only an erratum gets past the gate of an archived experiment; the       *)
(* second write of the command has no gate.                                *)
HandOff(g, errata) ==
  /\ commands[g].phase = "reported"
  /\ ~closed \/ errata
  /\ handoff' = now
  /\ commands' = [commands EXCEPT ![g] =
       IF @.archive THEN [@ EXCEPT !.phase = "noted"] ELSE Idling]
  /\ UNCHANGED <<evidenceVars, archivedRuns, jobs, notes, reviews, debugs, closed>>

ArchiveAfter(g) ==
  /\ commands[g].phase = "noted"
  /\ closed' = TRUE
  /\ commands' = [commands EXCEPT ![g] = Idling]
  /\ UNCHANGED <<evidenceVars, jobs, notes, reviews, debugs, archivedRuns, handoff>>

(* archive_experiment                                                      *)
ArchiveExperiment ==
  /\ Follows("handoff") \/ Follows("cleanup")
  /\ closed' = TRUE
  /\ UNCHANGED <<evidenceVars, jobs, notes, reviews, debugs, archivedRuns, handoff, commands>>

-----------------------------------------------------------------------------
(* cleanup_experiment: open debug notes on jobs of its own that recovered  *)
(* are planned, then all of the plan is resolved, then a checkpoint is     *)
(* written.  (The plan's other half is empty: the index of validations     *)
(* leaves one active row to a check, so that none has been superseded by   *)
(* another.)                                                               *)
Settled_Failed(d) == debugs[d] = "open" /\ About[d] \in OwnJobs /\ Failed(About[d])

Settled(d) == debugs[d] = "open" /\ About[d] \in OwnJobs /\ Recovered(About[d])

Plan(g) ==
  /\ Follows("cleanup") /\ commands[g].phase = "idle"
  /\ ~closed
  /\ LET found == {d \in Debugs : Settled(d)}
     IN  \E plan \in kSubset(IF Cardinality(found) < PlanLimit THEN Cardinality(found) ELSE PlanLimit, found) :
           commands' = [commands EXCEPT ![g] = [phase |-> "planned", plan |-> plan, stale |-> FALSE]]
  /\ UNCHANGED <<evidenceVars, jobs, notes, reviews, debugs, Others>>

(* UPDATE ... WHERE id: also notes that were resolved, archived or opened  *)
(* again since, and whatever has become of their job.                      *)
Resolve(g) ==
  /\ commands[g].phase = "planned"
  /\ debugs' = [d \in Debugs |->
       IF d \in commands[g].plan /\ debugs[d] = "open" THEN "resolved" ELSE debugs[d]]
  /\ commands' = [Overtaken({g}) EXCEPT ![g] =
       IF commands[g].plan = {} THEN Idling ELSE [commands[g] EXCEPT !.phase = "resolved"]]
  /\ UNCHANGED <<evidenceVars, jobs, notes, reviews, Others>>

RecordCleanup(g) ==
  /\ commands[g].phase = "resolved"
  /\ ~closed
  /\ handoff' = now
  /\ commands' = [commands EXCEPT ![g] = Idling]
  /\ UNCHANGED <<evidenceVars, archivedRuns, jobs, notes, reviews, debugs, closed>>

(* The database is locked, the gate of an archived experiment is shut, or  *)
(* the process dies: what is written stays, what comes next does not.      *)
GiveUp(g) ==
  /\ commands[g].phase # "idle"
  /\ commands' = [commands EXCEPT ![g] = Idling]
  /\ UNCHANGED <<evidenceVars, jobs, notes, reviews, debugs, Others>>

-----------------------------------------------------------------------------
Agent(g) ==
  \/ Count(g) \/ MarkReviewed(g)
  \/ \E archive \in BOOLEAN : Report(g, archive)
  \/ \E errata \in BOOLEAN : HandOff(g, errata)
  \/ ArchiveAfter(g)
  \/ Plan(g) \/ Resolve(g) \/ RecordCleanup(g) \/ GiveUp(g)

ReviewNext ==
  \/ EvidenceMoves
  \/ \E j \in Appearing(Jobs) :
       \/ \E status \in {"running"} \cup Terminal, t \in Time \cup {None} : ReportJob(j, status, t)
       \/ ArchiveJob(j)
  \/ \E r \in Appearing(RunIds) : ArchiveRun(r)
  \/ \E n \in Appearing(Notes) : WriteNote(n, now) \/ WriteNote(n, None)
  \/ \E d \in Appearing(Debugs), status \in {"open", "resolved", "archived"} : WriteDebug(d, status)
  \/ \E r \in reviews : WithdrawReview(r)
  \/ ArchiveExperiment
  \/ \E g \in Agents : Agent(g)

ReviewSpec == InitReview /\ [][ReviewNext]_reviewVars

-----------------------------------------------------------------------------
(* New activity brings an experiment back under review: one that is shown  *)
(* as open has nothing in it that its last review did not count.  The      *)
(* exceptions are activity that is dated no later than the note of the     *)
(* review, because it happened while the review was written or in the same *)
(* second, or because a job says that it finished long ago; and of that    *)
(* only what the review had counted in an earlier form, or what makes up   *)
(* for activity that has gone since.                                       *)
ActivityStaysPending ==
  LifecycleState = "open" =>
    /\ Activity # {} => reviews # {}
    /\ \A x \in Activity :
         LET marker == LastReview.marker
         IN  \/ x \in marker.known \ marker.changed
             \/ /\ ActivityAt(x) <= LastReview.at
                /\ x \in marker.known \/ marker.lost

(* Dashboard, workloop and doctor advise a handoff together, although the  *)
(* first works out its status apart from the others, but for these cases.  *)
(* In the second in which a handoff gets stale, only the others want one.  *)
(* So they do where there was none yet, and nothing is in the experiment   *)
(* but review notes, or artifacts of jobs and runs that are archived.  And *)
(* where there was none yet, and nothing is in it but jobs of archived     *)
(* runs that name it not themselves, only the dashboard wants one.         *)
HandoffAdviceAgrees ==
  LET shown == "handoff" \in AttentionCards
      advised == {"handoff" \in WorkloopActions} \cup (IF closed THEN {} ELSE {CheckpointIssues # {}})
  IN  advised # {shown} =>
        \/ handoff # None /\ ~shown /\ advised = {TRUE} /\ now = handoff + StaleAfter
        \/ /\ handoff = None /\ ~shown /\ advised = {TRUE}
           /\ \/ reviews # {}
              \/ \E a \in Arts : IsActive(a) /\ Reaches(Home[a])
                    /\ (Home[a] \in archivedRuns \/ (Home[a] \in Jobs /\ ~Living(Home[a])))
        \/ /\ handoff = None /\ shown /\ advised = {FALSE}
           /\ \E j \in Jobs \ OwnJobs : Living(j) /\ RunOf[j] \in linked \cap archivedRuns

(* A cleanup resolves no debug note of a job that still blocks, and none   *)
(* that is not open, unless something has happened since it planned.       *)
CleanupStaysInPlan ==
  [][\A g \in Agents, d \in Debugs :
       /\ commands[g].phase = "planned" /\ commands'[g].phase = "resolved"
       /\ d \in commands[g].plan
       => \/ debugs[d] = "open" /\ Failed(About[d]) /\ ~Blocking(About[d])
          \/ commands[g].stale]_reviewVars
=============================================================================
