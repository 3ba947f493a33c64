----------------------------- MODULE JobRecovery -----------------------------
(***************************************************************************)
(* What a Fieldbook ledger derives from the retry lineage: the recovery    *)
(* state of a failed job (v_jobs_with_recovery_v1), the readiness of an    *)
(* experiment (experiment_status) and doctor's search for retry cycles.    *)
(* The three read the jobs table of JobRetry and change nothing.           *)
(***************************************************************************)
EXTENDS JobRetry

CONSTANT MaxDepth   \* bound: the retry links the recovery view follows, 32

ASSUME DepthAssumption == MaxDepth \in Nat \ {0}

-----------------------------------------------------------------------------
(* retry_edges, the recursive part of the view: per depth, the jobs that   *)
(* retry the root over that many links, each with the jobs on its path.    *)
(* The first link is taken as it is, the others only off the path.         *)
Retries(j) == {d \in ActiveJobs : jobs[d].retryOf = j}

RetryEdges_NoPathCheck(root) ==
  LET at[n \in 1 .. MaxDepth] ==
        IF n = 1 THEN {[job |-> d, path |-> {root, d}] : d \in Retries(root)}
        ELSE UNION {{[job |-> d, path |-> e.path \cup {d}] : d \in Retries(e.job)} :
                    e \in at[n - 1]}
  IN  at

RetryEdges_OneDeeper(root) ==
  LET at[n \in 1 .. MaxDepth + 1] ==
        IF n = 1 THEN {[job |-> d, path |-> {root, d}] : d \in Retries(root)}
        ELSE UNION {{[job |-> d, path |-> e.path \cup {d}] : d \in Retries(e.job) \ e.path} :
                    e \in at[n - 1]}
  IN  at

RetryEdges(root) ==
  LET at[n \in 1 .. MaxDepth] ==
        IF n = 1 THEN {[job |-> d, path |-> {root, d}] : d \in Retries(root)}
        ELSE UNION {{[job |-> d, path |-> e.path \cup {d}] : d \in Retries(e.job) \ e.path} :
                    e \in at[n - 1]}
  IN  at

(* retry_summary and the recovery state of a failed job.                   *)
Descendants(j) ==
  LET at == RetryEdges(j)
  IN  {d \in ActiveJobs : \E n \in DOMAIN at : \E e \in at[n] : e.job = d}

RecoveringStatuses == {"submitting", "unknown_submit", "queued", "running"}

HasSuccess(j) == \E d \in Descendants(j) : jobs[d].status = "succeeded"
HasActive(j) == \E d \in Descendants(j) : jobs[d].status \in RecoveringStatuses

FailedJobs == {j \in ActiveJobs : jobs[j].status = "failed"}

RetryState(j) ==
  IF HasSuccess(j) THEN "recovered_failed"
  ELSE IF HasActive(j) THEN "recovery_in_progress" ELSE "blocking_failed"

-----------------------------------------------------------------------------
(* experiment_status: ready.is_ready, as far as jobs decide it.            *)
JobsOf(e) == {j \in ActiveJobs : jobs[j].experiment = e}

BlockingFailed(e) == {j \in JobsOf(e) \cap FailedJobs : RetryState(j) = "blocking_failed"}

ActiveJobStatuses_NoUncertain == {"queued", "running"}

ActiveJobStatuses == {"submitting", "unknown_submit", "queued", "running"}

ActiveJobCount(e) == Cardinality({j \in JobsOf(e) : jobs[j].status \in ActiveJobStatuses})

IsReady(e) == BlockingFailed(e) = {} /\ ActiveJobCount(e) = 0

-----------------------------------------------------------------------------
(* doctor's _retry_cycles: from every job, the links of the active jobs    *)
(* are followed until they end or meet a job seen before.                  *)
NextJob_AllRows(j) == IF Exists(j) THEN jobs[j].retryOf ELSE Null

NextJob(j) == IF Active(j) THEN jobs[j].retryOf ELSE Null

WalkFrom(start, last) ==
  LET at[n \in 0 .. last] ==
        IF n = 0 THEN start
        ELSE IF at[n - 1] = Null THEN Null ELSE NextJob(at[n - 1])
  IN  at

Walk(start) == WalkFrom(start, Cardinality(JobIds))

MeetsItself(start) ==
  LET at == Walk(start)
  IN  \E n \in DOMAIN at : at[n] # Null /\ \E k \in DOMAIN at : k < n /\ at[k] = at[n]

CycleFrom(start) ==
  LET at == Walk(start)
  IN  {j \in JobIds :
         \E k, i, n \in DOMAIN at : k <= i /\ i < n /\ at[i] = j /\ at[n] = at[k]}

RetryCycles == {CycleFrom(s) : s \in {s \in ActiveJobs : MeetsItself(s)}}

-----------------------------------------------------------------------------
(* doctor reports every cycle of the retry graph, whole, and nothing else: *)
(* a job is in a reported cycle exactly when its chain leads back to it.   *)
OnCycle(j) ==
  /\ Active(j)
  /\ jobs[j].retryOf # Null
  /\ RetryChainContains(jobs[j].retryOf, j)

DoctorReportsEveryCycle == UNION RetryCycles = {j \in JobIds : OnCycle(j)}

(* The recovery view knows the retries of a job whole: the jobs whose      *)
(* chain comes to it within the depth that the view follows, on whatever   *)
(* graph there is.  A job on a cycle is none of its own retries, but for   *)
(* one that retries itself.                                                *)
RecoverySeesChains ==
  \A j \in ActiveJobs :
    Descendants(j) =
      {d \in ActiveJobs :
         /\ d # j \/ jobs[j].retryOf = j
         /\ \E n \in 1 .. MaxDepth : WalkFrom(d, MaxDepth)[n] = j}

(* An experiment that is ready for analysis hides no failure: each failed  *)
(* job of it is the start of a chain of retries to a job that succeeded,   *)
(* or to one that another experiment is still running.                     *)
ReadyMeansRecovered ==
  \A e \in Experiments : \A j \in JobsOf(e) \cap FailedJobs :
    IsReady(e) =>
      \E d \in ActiveJobs \ {j} :
        /\ RetryChainContains(d, j)
        /\ \/ jobs[d].status = "succeeded"
           \/ jobs[d].status \in RecoveringStatuses /\ jobs[d].experiment # e

=============================================================================
