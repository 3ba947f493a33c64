\* A job, its retry and a run's job, artifacts of four homes, a validation; ids of reviews before and after a note's.
SPECIFICATION ReviewSpec
CONSTANTS
  r1 = r1
  j1 = j1
  j2 = j2
  j3 = j3
  a1 = a1
  a2 = a2
  a3 = a3
  a4 = a4
  c1 = c1
  n1 = n1
  d1 = d1
  d2 = d2
  Writers = {p1}
  Agents = {g1}
  RunIds = {r1}
  Jobs = {j1, j2, j3}
  OwnJobs = {j1, j2}
  RunOf <- MCRunOf
  Arts = {a1, a2, a3, a4}
  Home <- MCHome
  Here = Here
  Elsewhere = Elsewhere
  Checks = {c1}
  Stamps <- MCStamps
  MaxTime = 2
  Behaviours <- MCBehaviours
  Retries <- MCRetries
  Notes = {n1}
  Debugs = {d1, d2}
  About <- MCAbout
  Rank <- MCRank
  ReviewRanks = {4, 6}
  MaxReviews = 1
  Dated = {j1}
  PlanLimit = 1
  StaleAfter = 1
  None = None
INVARIANTS ChangedSourceIsReported ActivityStaysPending HandoffAdviceAgrees
PROPERTIES CleanupStaysInPlan
CHECK_DEADLOCK FALSE
