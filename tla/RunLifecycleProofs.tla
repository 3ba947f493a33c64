-------------------------- MODULE RunLifecycleProofs --------------------------
(***************************************************************************)
(* Proofs about runs, as commands change them (RunLifecycle) and as        *)
(* manifests do (Reconcile).                                               *)
(*                                                                         *)
(* The first part is about commands alone: types, that runs are linked to  *)
(* their homes, what an archived run still meets, and when an index        *)
(* refuses a command.                                                      *)
(*                                                                         *)
(* The second part follows one manifest: the rows that are planned (from   *)
(* LeastNatural), what is planned for a row (RunFits), what an operation   *)
(* does to a ledger (RunEffect), the course of a plan (Trace), what every  *)
(* course keeps (CourseSane), why a course breaks off (FailsAt, to DryRun) *)
(* and what its rows ask for after it (Turn, to SecondNoop).               *)
(*                                                                         *)
(* The last part is about behaviours in which both change the ledger.      *)
(***************************************************************************)
EXTENDS Reconcile, FiniteSetTheorems, WellFoundedInduction, TLAPS

Homes(d) ==
  \A r \in Runs : d.runs[r] # Null /\ d.runs[r].home # Null => <<d.runs[r].home, r>> \in d.links

EdgeOf(d, request) == d.edges[<<request.job, request.run>>]

(* What a command has found is there, since no row ever goes away.         *)
Sound(d, op) ==
  op.phase # "idle" =>
    /\ op.request \in Request
    /\ op.request.does = "add" /\ op.found # Null => d.runs[op.found] # Null
    /\ op.request.does = "link" => op.found = op.request.run /\ d.runs[op.found] # Null
    /\ op.request.does = "edge" /\ op.found # Null => EdgeOf(d, op.request) # Null

(* What a command has found is so, as long as nothing has changed.         *)
Fresh(d, op) ==
  op.phase # "idle" /\ ~op.stale =>
    /\ op.request.does = "create" =>
         \A e \in Experiments :
           op.request.key # Null /\ ActiveExperiment(d, e) => d.experiments[e].key # op.request.key
    /\ op.request.does = "add" =>
         /\ op.found = Null => WithExternal(d, op.request.external) = {}
         /\ op.found # Null => op.found \in WithExternal(d, op.request.external)
         /\ op.phase = "ready" => WithKey(d, op.request.exp, op.request.key) = {}
    /\ op.request.does = "edge" /\ op.found = Null => EdgeOf(d, op.request) = Null

OpInv == \A p \in Procs : Sound(db, ops[p]) /\ Fresh(db, ops[p])

IInv == TypeOK /\ HomeIsLinked /\ Indexed(db) /\ OpInv

(* No row of c is missing in d.                                            *)
Keeps(c, d) ==
  /\ \A r \in Runs : c.runs[r] # Null => d.runs[r] # Null
  /\ \A pair \in Jobs \X Runs : c.edges[pair] # Null => d.edges[pair] # Null

-----------------------------------------------------------------------------
LEMMA IdleType == Idle \in Op /\ Idle.phase = "idle"
  BY DEF Idle, Op

LEMMA RequestKinds ==
  ASSUME NEW r \in Request
  PROVE  /\ r # Null /\ r.does \in {"create", "add", "link", "edge"}
         /\ r.does = "create" => r.key \in Keys \cup {Null}
         /\ r.does = "add" =>
              /\ r.exp \in Experiments \cup {Null} /\ r.key \in Keys \cup {Null}
              /\ r.external \in Externals \cup {Null} /\ r.upsert \in BOOLEAN
         /\ r.does = "link" => r.exp \in Experiments /\ r.run \in Runs
         /\ r.does = "edge" =>
              r.job \in Jobs /\ r.run \in Runs /\ r.role \in Roles /\ r.status \in Statuses
  BY NullAssumption, BoundAssumption DEF Request, Creation, Addition, Linking, Hanging

LEMMA StaleKept ==
  ASSUME NEW op \in Op, NEW stale \in BOOLEAN
  PROVE  LET next == [op EXCEPT !.stale = stale] IN
         /\ next \in Op /\ next.phase = op.phase /\ next.request = op.request
         /\ next.found = op.found /\ next.stale = stale
  BY DEF Op

LEMMA InitSound == Init => IInv
<1> SUFFICES ASSUME Init PROVE IInv
  OBVIOUS
<1>1. TypeOK
  <2>1. PlainExperiment \in Experiment /\ NewRun(Null, Null, Null, {}) \in Run
    BY DEF PlainExperiment, Experiment, NewRun, Run
  <2>2. db.runs \in [Runs -> Run \cup {Null}] /\ db.experiments \in [Experiments -> Experiment \cup {Null}]
    BY <2>1 DEF Init, InitRuns, InitExperiment
  <2>3. db \in Ledger
    BY <2>2 DEF Init, Ledger
  <2> QED BY <2>3, IdleType DEF Init, TypeOK
<1>2. \A r \in Runs : db.runs[r] # Null =>
        db.runs[r].home = Null /\ db.runs[r].key = Null /\ db.runs[r].external = Null
  BY DEF Init, InitRuns, NewRun
<1>3. \A e \in Experiments : db.experiments[e] # Null => db.experiments[e].key = Null
  BY DEF Init, InitExperiment, PlainExperiment
<1>4. HomeIsLinked
  BY <1>2 DEF HomeIsLinked
<1>5. Indexed(db)
  BY <1>2, <1>3 DEF Indexed, ExperimentsIndexed, RunsIndexed, WithExternal, WithKey, IsActive
<1>6. OpInv
  BY IdleType DEF Init, OpInv, Sound, Fresh
<1> QED BY <1>1, <1>4, <1>5, <1>6 DEF IInv

(* What a command has found is so in any ledger in which it would find the *)
(* same.                                                                   *)
LEMMA SeenFresh ==
  ASSUME NEW c, NEW d, NEW op, op.phase # "idle" => op.request \in Request,
         Fresh(c, op), Seen(d, op) = Seen(c, op)
  PROVE  Fresh(d, op)
<1> SUFFICES ASSUME op.phase # "idle", ~op.stale PROVE Fresh(d, op)
  BY DEF Fresh
<1> DEFINE a == op.request
           Bearing(b) ==
             {e \in Experiments : ActiveExperiment(b, e) /\ a.key # Null /\ b.experiments[e].key = a.key}
<1>1. CASE a.does = "create"
  <2>1. Bearing(d) = Bearing(c)
    BY <1>1 DEF Seen
  <2>2. Bearing(c) = {}
    BY <1>1 DEF Fresh
  <2> QED BY <1>1, <2>1, <2>2 DEF Fresh
<1>2. CASE a.does = "add"
  <2>1. /\ WithExternal(d, a.external) = WithExternal(c, a.external)
        /\ op.phase = "ready" => WithKey(d, a.exp, a.key) = WithKey(c, a.exp, a.key)
    BY <1>2 DEF Seen
  <2> QED BY <1>2, <2>1 DEF Fresh
<1>3. CASE a.does = "edge"
  <2>1. EdgeOf(d, a) = EdgeOf(c, a)
    BY <1>3 DEF Seen, EdgeOf
  <2> QED BY <1>3, <2>1 DEF Fresh
<1>4. CASE a.does = "link"
  BY <1>4 DEF Fresh
<1> QED BY <1>1, <1>2, <1>3, <1>4, RequestKinds

(* A commit leaves a ledger d, in which every row of the old one is.       *)
LEMMA CommitStep ==
  ASSUME IInv, NEW d \in Ledger, NEW S \in SUBSET Procs,
         Commit(d, S), Homes(d), Keeps(db, d)
  PROVE  IInv'
<1>0. TypeOK /\ OpInv
  BY DEF IInv
<1>1. db' = d /\ follows' = follows /\ Indexed(d)
  BY DEF Commit
<1>2. ASSUME NEW q \in Procs
      PROVE  ops'[q] \in Op /\ Sound(d, ops'[q]) /\ Fresh(d, ops'[q])
  <2>0. ops[q] \in Op /\ Sound(db, ops[q]) /\ Fresh(db, ops[q])
    BY <1>0 DEF TypeOK, OpInv
  <2>1. CASE q \in S
    BY <2>1, IdleType DEF Commit, Sound, Fresh
  <2>2. CASE q \notin S /\ InFlight(q)
    <3> DEFINE stale == ops[q].stale \/ Seen(d, ops[q]) # Seen(db, ops[q])
               op == [ops[q] EXCEPT !.stale = stale]
    <3>1. ops'[q] = op
      BY <2>2 DEF Commit
    <3>2. stale \in BOOLEAN
      BY <2>0 DEF Op
    <3> HIDE DEF stale
    <3>3. /\ op \in Op /\ op.phase = ops[q].phase /\ op.request = ops[q].request
          /\ op.found = ops[q].found /\ op.stale = stale
      BY <2>0, <3>2, StaleKept
    <3> HIDE DEF op
    <3>4. Sound(d, op)
      <4> SUFFICES ASSUME op.phase # "idle" PROVE Sound(d, op)
        BY DEF Sound
      <4>1. op.request \in Request /\ op.found \in Runs \cup {Null}
        BY <2>0, <3>3 DEF Sound, Op
      <4>2. op.request.does = "edge" => <<op.request.job, op.request.run>> \in Jobs \X Runs
        BY <4>1, RequestKinds
      <4>3. op.request.does = "link" => op.request.run \in Runs
        BY <4>1, RequestKinds
      <4> QED BY <2>0, <3>3, <4>1, <4>2, <4>3 DEF Sound, Keeps, EdgeOf
    <3>5. Fresh(d, op)
      <4>1. ~stale => ~ops[q].stale /\ Seen(d, ops[q]) = Seen(db, ops[q])
        BY DEF stale
      <4>2. CASE ~stale
        <5>1. Fresh(d, ops[q])
          BY <2>0, <4>1, <4>2, SeenFresh DEF Sound
        <5> QED BY <3>3, <4>1, <4>2, <5>1 DEF Fresh
      <4>3. CASE stale
        BY <3>3, <4>3 DEF Fresh
      <4> QED BY <4>2, <4>3
    <3> QED BY <3>1, <3>3, <3>4, <3>5
  <2>3. CASE q \notin S /\ ~InFlight(q)
    BY <2>0, <2>3 DEF Commit, InFlight, Sound, Fresh
  <2> QED BY <2>1, <2>2, <2>3
<1>3. ops' \in [Procs -> Op]
  <2>1. ops' = [q \in Procs |-> ops'[q]]
    BY DEF Commit
  <2> QED BY <1>2, <2>1
<1>4. TypeOK'
  BY <1>0, <1>1, <1>3 DEF TypeOK
<1>5. HomeIsLinked' /\ Indexed(db)' /\ OpInv'
  BY <1>1, <1>2 DEF Homes, HomeIsLinked, OpInv
<1> QED BY <1>4, <1>5 DEF IInv

(* A step that only reads.                                                 *)
LEMMA ReadStep ==
  ASSUME IInv, NEW p \in Procs, NEW op \in Op, ops' = [ops EXCEPT ![p] = op],
         UNCHANGED <<follows, db>>, Sound(db, op), Fresh(db, op)
  PROVE  IInv'
<1>1. TypeOK'
  BY DEF IInv, TypeOK
<1>2. \A q \in Procs : ops'[q] = IF q = p THEN op ELSE ops[q]
  BY DEF IInv, TypeOK
<1>3. OpInv'
  <2>1. ASSUME NEW q \in Procs PROVE Sound(db, ops'[q]) /\ Fresh(db, ops'[q])
    BY <1>2 DEF IInv, OpInv
  <2> QED BY <2>1 DEF OpInv
<1>4. HomeIsLinked' /\ Indexed(db)'
  BY DEF IInv, HomeIsLinked
<1> QED BY <1>1, <1>3, <1>4 DEF IInv

-----------------------------------------------------------------------------
(* What the writes make of a ledger.                                       *)
Good(d) == d \in Ledger /\ Homes(d) /\ Keeps(db, d)

LEMMA Here == IInv => Good(db)
  BY DEF IInv, TypeOK, HomeIsLinked, Good, Homes, Keeps

LEMMA LedgerParts ==
  ASSUME NEW d \in Ledger
  PROVE  /\ d.experiments \in [Experiments -> Experiment \cup {Null}]
         /\ d.runs \in [Runs -> Run \cup {Null}]
         /\ d.links \in SUBSET (Experiments \X Runs)
         /\ d.edges \in [Jobs \X Runs -> Edge \cup {Null}]
         /\ d.syncs \in SUBSET SyncKeys
  BY DEF Ledger

(* A run written beside the link of e: its home is the old one, or e.      *)
LEMMA RunWritten ==
  ASSUME IInv, NEW r \in Runs, NEW row \in Run, NEW e \in Experiments \cup {Null},
         row.home \in {Null, e} \/ (db.runs[r] # Null /\ row.home = db.runs[r].home)
  PROVE  LET d == WithRun(db, r, row, e) IN
         /\ Good(d)
         /\ d.runs = [db.runs EXCEPT ![r] = row]
         /\ d.experiments = db.experiments /\ d.edges = db.edges
<1> DEFINE d == WithRun(db, r, row, e)
<1>1. db \in Ledger /\ Homes(db)
  BY Here DEF Good
<1>2. LinksWith(db, e, r) \in SUBSET (Experiments \X Runs) /\ db.links \subseteq LinksWith(db, e, r)
      /\ (e # Null => <<e, r>> \in LinksWith(db, e, r))
  BY <1>1, LedgerParts DEF LinksWith
<1>3. [db.runs EXCEPT ![r] = row] \in [Runs -> Run \cup {Null}]
  BY <1>1, LedgerParts
<1>4. /\ d \in Ledger
      /\ d.runs = [db.runs EXCEPT ![r] = row] /\ d.links = LinksWith(db, e, r)
      /\ d.experiments = db.experiments /\ d.edges = db.edges
  <2> HIDE DEF IInv
  <2> QED BY <1>1, <1>2, <1>3 DEF WithRun, Ledger
<1>5. row # Null
  BY NullAssumption
<1> HIDE DEF d
<1>6. Homes(d)
  <2> SUFFICES ASSUME NEW s \in Runs, d.runs[s] # Null, d.runs[s].home # Null
               PROVE  <<d.runs[s].home, s>> \in d.links
    BY DEF Homes
  <2>1. CASE s = r
    <3>1. d.runs[s] = row
      BY <1>1, <1>4, <2>1, LedgerParts
    <3> QED BY <1>1, <1>2, <1>4, <2>1, <3>1 DEF Homes
  <2>2. CASE s # r
    <3>1. d.runs[s] = db.runs[s]
      BY <1>1, <1>4, <2>2, LedgerParts
    <3> QED BY <1>1, <1>2, <1>4, <2>2, <3>1 DEF Homes
  <2> QED BY <2>1, <2>2
<1>7. Keeps(db, d)
  BY <1>1, <1>4, <1>5, LedgerParts DEF Keeps
<1> QED BY <1>4, <1>6, <1>7 DEF Good, d

LEMMA RunOfRow ==
  ASSUME NEW row \in Run
  PROVE  /\ row.home \in Experiments \cup {Null} /\ row.key \in Keys \cup {Null}
         /\ row.external \in Externals \cup {Null} /\ row.archived \in BOOLEAN
         /\ row.attrs \in SUBSET Attrs
  BY DEF Run

LEMMA NewRunType ==
  ASSUME NEW e \in Experiments \cup {Null}, NEW k \in Keys \cup {Null}, NEW x \in Externals \cup {Null}
  PROVE  LET row == NewRun(e, k, x, {}) IN
         row \in Run /\ row.home = e /\ row.key = k /\ row.external = x /\ ~row.archived
  BY DEF NewRun, Run

LEMMA LinkedRow ==
  ASSUME NEW old \in Run, NEW e \in Experiments
  PROVE  LET row == [old EXCEPT !.home = Either(@, e)] IN
         /\ row \in Run /\ row.home = Either(old.home, e) /\ row.key = old.key
         /\ row.external = old.external /\ row.archived = old.archived
  BY DEF Run, Either

LEMMA UpdatedRow ==
  ASSUME NEW old \in Run, NEW e \in Experiments \cup {Null}, NEW k \in Keys \cup {Null}
  PROVE  LET row == [UpdatedRun(old, e, k, Null, {}) EXCEPT !.status = "active"] IN
         /\ row \in Run /\ row.home = Either(e, old.home) /\ row.key = Either(k, old.key)
         /\ row.external = old.external /\ row.archived = old.archived
<1> DEFINE mid == UpdatedRun(old, e, k, Null, {})
<1>1. /\ mid \in Run /\ mid.home = Either(e, old.home) /\ mid.key = Either(k, old.key)
      /\ mid.external = old.external /\ mid.archived = old.archived
  BY DEF UpdatedRun, Run, Either
<1> HIDE DEF mid
<1>2. LET row == [mid EXCEPT !.status = "active"] IN
      /\ row \in Run /\ row.home = mid.home /\ row.key = mid.key
      /\ row.external = mid.external /\ row.archived = mid.archived
  BY <1>1 DEF Run
<1> QED BY <1>1, <1>2 DEF mid

LEMMA EdgeWritten ==
  ASSUME IInv, NEW pair \in Jobs \X Runs, NEW role \in Roles, NEW status \in Statuses
  PROVE  Good(WithEdge(db, pair, role, status))
<1> DEFINE edge == [role |-> role, status |-> status, archived |-> FALSE]
           d == [db EXCEPT !.edges[pair] = edge]
<1>1. edge \in Edge /\ edge # Null
  <2>1. edge \in Edge
    BY DEF Edge
  <2> QED BY <2>1, NullAssumption
<1> HIDE DEF edge
<1>2. db \in Ledger /\ Homes(db)
  BY Here DEF Good
<1>3. /\ d \in Ledger /\ d.runs = db.runs /\ d.links = db.links
      /\ d.edges = [db.edges EXCEPT ![pair] = edge]
  BY <1>1, <1>2 DEF Ledger
<1>4. Homes(d)
  BY <1>2, <1>3 DEF Homes
<1>5. Keeps(db, d)
  BY <1>1, <1>2, <1>3, LedgerParts DEF Keeps
<1> QED BY <1>3, <1>4, <1>5 DEF WithEdge, Good, edge

LEMMA OpOf ==
  ASSUME IInv, NEW p \in Procs
  PROVE  /\ ops[p] \in Op /\ Sound(db, ops[p]) /\ Fresh(db, ops[p])
         /\ InFlight(p) => Asked(p) \in Request
         /\ Found(p) \in Runs \cup {Null}
  BY DEF IInv, TypeOK, OpInv, Sound, InFlight, Asked, Found, Op

LEMMA FoundRun ==
  ASSUME IInv, NEW r \in Runs, db.runs[r] # Null
  PROVE  db.runs[r] \in Run
  BY Here, LedgerParts DEF Good

LEMMA CreatedGood ==
  ASSUME IInv, NEW p \in Procs, NEW e \in Experiments, Ready(p, "create")
  PROVE  LET d == WithCreated(db, Asked(p), e) IN
         /\ Good(d)
         /\ d.runs = db.runs
         /\ d.experiments = [db.experiments EXCEPT ![e] = [key |-> Asked(p).key, archived |-> FALSE]]
<1> DEFINE row == [key |-> Asked(p).key, archived |-> FALSE]
           d == [db EXCEPT !.experiments[e] = row]
<1>1. row \in Experiment
  <2>1. Asked(p).key \in Keys \cup {Null}
    BY OpOf, RequestKinds DEF Ready, InFlight
  <2> QED BY <2>1 DEF Experiment
<1> HIDE DEF row
<1>2. db \in Ledger /\ Homes(db)
  BY Here DEF Good
<1>3. /\ d \in Ledger /\ d.runs = db.runs /\ d.links = db.links /\ d.edges = db.edges
      /\ d.experiments = [db.experiments EXCEPT ![e] = row]
  BY <1>1, <1>2 DEF Ledger
<1> HIDE DEF d
<1>4. Good(d)
  BY <1>2, <1>3 DEF Good, Homes, Keeps
<1> QED BY <1>3, <1>4 DEF WithCreated, d, row

LEMMA AddedGood ==
  ASSUME IInv, NEW p \in Procs, NEW r \in Runs, Ready(p, "add")
  PROVE  LET d == WithAdded(db, Asked(p), r) IN
         /\ Good(d)
         /\ d.runs = [db.runs EXCEPT ![r] = NewRun(Asked(p).exp, Asked(p).key, Asked(p).external, {})]
         /\ d.experiments = db.experiments
<1>1. /\ Asked(p).exp \in Experiments \cup {Null} /\ Asked(p).key \in Keys \cup {Null}
      /\ Asked(p).external \in Externals \cup {Null}
  BY OpOf, RequestKinds DEF Ready, InFlight
<1> DEFINE row == NewRun(Asked(p).exp, Asked(p).key, Asked(p).external, {})
<1>2. row \in Run /\ row.home = Asked(p).exp
  BY <1>1, NewRunType
<1>3. WithAdded(db, Asked(p), r) = WithRun(db, r, row, Asked(p).exp)
  BY DEF WithAdded
<1> HIDE DEF row
<1>4. LET d == WithRun(db, r, row, Asked(p).exp) IN
      Good(d) /\ d.runs = [db.runs EXCEPT ![r] = row] /\ d.experiments = db.experiments
  BY <1>1, <1>2, RunWritten
<1> QED BY <1>3, <1>4 DEF row

LEMMA UpdatedGood ==
  ASSUME IInv, NEW p \in Procs, Ready(p, "add"), Found(p) # Null
  PROVE  LET d == WithUpdated(db, Asked(p), Found(p))
             old == db.runs[Found(p)]  row == d.runs[Found(p)]
         IN  /\ Good(d) /\ Found(p) \in Runs /\ old \in Run /\ row \in Run
             /\ d.runs = [db.runs EXCEPT ![Found(p)] = row] /\ d.experiments = db.experiments
             /\ row.home = Either(Asked(p).exp, old.home) /\ row.key = Either(Asked(p).key, old.key)
             /\ row.external = old.external /\ row.archived = old.archived
<1> DEFINE a == Asked(p)
           r == Found(p)
           old == db.runs[r]
           row == [UpdatedRun(old, a.exp, a.key, Null, {}) EXCEPT !.status = "active"]
           d == WithRun(db, r, row, a.exp)
<1>1. a.exp \in Experiments \cup {Null} /\ a.key \in Keys \cup {Null}
  BY OpOf, RequestKinds DEF Ready, InFlight
<1>2. r \in Runs /\ old # Null
  BY OpOf DEF Ready, Sound, Asked, Found
<1>3. old \in Run
  BY <1>2, FoundRun
<1>4. /\ row \in Run /\ row.home = Either(a.exp, old.home) /\ row.key = Either(a.key, old.key)
      /\ row.external = old.external /\ row.archived = old.archived
  BY <1>1, <1>3, UpdatedRow
<1>5. row.home \in {Null, a.exp} \/ row.home = old.home
  BY <1>4 DEF Either
<1> HIDE DEF row
<1>6. Good(d) /\ d.runs = [db.runs EXCEPT ![r] = row] /\ d.experiments = db.experiments
  BY <1>1, <1>2, <1>4, <1>5, RunWritten
<1> HIDE DEF d
<1>7. d.runs[r] = row
  BY <1>2, <1>6, Here, LedgerParts DEF Good
<1> QED BY <1>2, <1>3, <1>4, <1>6, <1>7 DEF WithUpdated, d, row

LEMMA LinkedGood ==
  ASSUME IInv, NEW p \in Procs, Ready(p, "link")
  PROVE  LET d == Linked(db, Asked(p).exp, Asked(p).run)
             old == db.runs[Found(p)]  row == d.runs[Found(p)]
         IN  /\ Good(d) /\ Found(p) \in Runs /\ Found(p) = Asked(p).run /\ old \in Run /\ row \in Run
             /\ d.runs = [db.runs EXCEPT ![Found(p)] = row] /\ d.experiments = db.experiments
             /\ old.home # Null => row.home = old.home
             /\ row.key = old.key /\ row.external = old.external /\ row.archived = old.archived
<1> DEFINE e == Asked(p).exp
           r == Found(p)
           old == db.runs[r]
           row == [old EXCEPT !.home = Either(@, e)]
           d == WithRun(db, r, row, e)
<1>1. e \in Experiments /\ r \in Runs /\ r = Asked(p).run /\ old # Null
  BY OpOf, RequestKinds DEF Ready, InFlight, Sound, Asked, Found
<1>2. old \in Run
  BY <1>1, FoundRun
<1>3. /\ row \in Run /\ row.home = Either(old.home, e) /\ row.key = old.key
      /\ row.external = old.external /\ row.archived = old.archived
  BY <1>1, <1>2, LinkedRow
<1>4. (row.home \in {Null, e} \/ row.home = old.home) /\ (old.home # Null => row.home = old.home)
  BY <1>3 DEF Either
<1> HIDE DEF row
<1>5. Good(d) /\ d.runs = [db.runs EXCEPT ![r] = row] /\ d.experiments = db.experiments
  BY <1>1, <1>3, <1>4, RunWritten
<1> HIDE DEF d
<1>6. d.runs[r] = row
  BY <1>1, <1>5, Here, LedgerParts DEF Good
<1> QED BY <1>1, <1>2, <1>3, <1>4, <1>5, <1>6 DEF Linked, d, row

LEMMA ArchivedGood ==
  ASSUME IInv
  PROVE  /\ \A e \in Experiments :
              db.experiments[e] # Null => Good([db EXCEPT !.experiments[e].archived = TRUE])
         /\ \A r \in Runs : db.runs[r] # Null => Good(ArchivedRun(db, r))
<1>0. db \in Ledger /\ Homes(db)
  BY Here DEF Good
<1>1. ASSUME NEW e \in Experiments, db.experiments[e] # Null
      PROVE  Good([db EXCEPT !.experiments[e].archived = TRUE])
  <2> DEFINE row == [db.experiments[e] EXCEPT !.archived = TRUE]
             d == [db EXCEPT !.experiments[e] = row]
  <2>1. row \in Experiment
    <3>1. db.experiments[e] \in Experiment
      BY <1>0, <1>1, LedgerParts
    <3> QED BY <3>1 DEF Experiment
  <2> HIDE DEF row
  <2>2. d \in Ledger /\ d.runs = db.runs /\ d.links = db.links /\ d.edges = db.edges
    BY <1>0, <2>1 DEF Ledger
  <2>3. d = [db EXCEPT !.experiments[e].archived = TRUE]
    BY DEF row
  <2> HIDE DEF d
  <2> QED BY <1>0, <2>2, <2>3 DEF Good, Homes, Keeps
<1>2. ASSUME NEW r \in Runs, db.runs[r] # Null
      PROVE  Good(ArchivedRun(db, r))
  <2> DEFINE old == db.runs[r]
             row == [old EXCEPT !.archived = TRUE, !.status = "archived"]
             d == [db EXCEPT !.runs[r] = row]
  <2>1. row \in Run /\ row.home = old.home
    BY <1>2, FoundRun DEF Run
  <2>2. row # Null
    BY <2>1, NullAssumption
  <2>3. d = ArchivedRun(db, r)
    BY <1>0, <1>2, LedgerParts DEF ArchivedRun, Ledger
  <2> HIDE DEF row
  <2>4. /\ d \in Ledger /\ d.runs = [db.runs EXCEPT ![r] = row]
        /\ d.links = db.links /\ d.edges = db.edges
    BY <1>0, <2>1 DEF Ledger
  <2> HIDE DEF d
  <2>5. Homes(d)
    BY <1>0, <1>2, <2>1, <2>4, LedgerParts DEF Homes
  <2>6. Keeps(db, d)
    BY <1>0, <2>2, <2>4, LedgerParts DEF Keeps
  <2> QED BY <2>3, <2>4, <2>5, <2>6 DEF Good
<1> QED BY <1>1, <1>2

-----------------------------------------------------------------------------
LEMMA BeginStep ==
  ASSUME IInv, NEW p \in Procs, NEW phase \in {"looked", "ready"}, NEW request \in Request,
         NEW r \in Runs \cup {Null}, Begin(p, phase, request, r),
         LET op == [phase |-> phase, request |-> request, found |-> r, stale |-> FALSE]
         IN  Sound(db, op) /\ Fresh(db, op)
  PROVE  IInv'
<1> DEFINE op == [phase |-> phase, request |-> request, found |-> r, stale |-> FALSE]
<1>1. op \in Op
  BY DEF Op
<1>2. ops' = [ops EXCEPT ![p] = op] /\ UNCHANGED <<follows, db>>
  BY DEF Begin
<1>3. Sound(db, op) /\ Fresh(db, op)
  OBVIOUS
<1> HIDE DEF op
<1> QED BY <1>1, <1>2, <1>3, ReadStep

LEMMA CreateReadStep ==
  ASSUME IInv, NEW p \in Procs, NEW k \in Keys \cup {Null}, CreateRead(p, k)
  PROVE  IInv'
<1> DEFINE a == [does |-> "create", key |-> k]
<1>1. a \in Request /\ a.does = "create" /\ a.key = k
  BY DEF Request, Creation
<1> HIDE DEF a
<1>2. Begin(p, "ready", a, Null)
  BY DEF CreateRead, a
<1>3. LET op == [phase |-> "ready", request |-> a, found |-> Null, stale |-> FALSE]
      IN  Sound(db, op) /\ Fresh(db, op)
  BY <1>1 DEF CreateRead, Sound, Fresh
<1> QED BY <1>1, <1>2, <1>3, BeginStep

LEMMA AddLookStep ==
  ASSUME IInv, NEW p \in Procs, NEW a \in Addition, AddLook(p, a)
  PROVE  IInv'
<1>1. a \in Request /\ a.does = "add"
  BY DEF Request, Addition
<1>2. PICK x \in Runs \cup {Null} :
        /\ Begin(p, "looked", a, x)
        /\ x = Null => WithExternal(db, a.external) = {}
        /\ x # Null => x \in WithExternal(db, a.external)
  BY NullAssumption DEF AddLook, WithExternal
<1>3. x # Null => db.runs[x] # Null
  BY <1>2 DEF WithExternal, IsActive
<1>4. LET op == [phase |-> "looked", request |-> a, found |-> x, stale |-> FALSE]
      IN  Sound(db, op) /\ Fresh(db, op)
  BY <1>1, <1>2, <1>3 DEF Sound, Fresh
<1> QED BY <1>1, <1>2, <1>4, BeginStep

LEMMA AddCheckStep ==
  ASSUME IInv, NEW p \in Procs, AddCheck(p)
  PROVE  IInv'
<1> DEFINE op == [ops[p] EXCEPT !.phase = "ready"]
<1>0. ops[p] \in Op /\ Sound(db, ops[p]) /\ Fresh(db, ops[p]) /\ ops[p].phase = "looked"
  BY OpOf DEF AddCheck
<1>1. CASE ops' = [ops EXCEPT ![p] = Idle]
  <2>1. Sound(db, Idle) /\ Fresh(db, Idle)
    BY IdleType DEF Sound, Fresh
  <2> QED BY <1>1, <2>1, IdleType, ReadStep DEF AddCheck
<1>2. CASE ops' = [ops EXCEPT ![p] = op] /\ WithKey(db, Asked(p).exp, Asked(p).key) = {}
  <2>1. /\ op \in Op /\ op.phase = "ready" /\ op.request = ops[p].request
        /\ op.found = ops[p].found /\ op.stale = ops[p].stale
    BY <1>0 DEF Op
  <2> HIDE DEF op
  <2>2. Sound(db, op) /\ Fresh(db, op)
    BY <1>0, <1>2, <2>1 DEF Sound, Fresh, Asked
  <2> QED BY <1>2, <2>1, <2>2, ReadStep DEF AddCheck
<1> QED BY <1>1, <1>2 DEF AddCheck

LEMMA LinkReadStep ==
  ASSUME IInv, NEW p \in Procs, NEW e \in Experiments, NEW r \in Runs, LinkRead(p, e, r)
  PROVE  IInv'
<1> DEFINE a == [does |-> "link", exp |-> e, run |-> r]
<1>1. a \in Request /\ a.does = "link" /\ a.run = r
  BY DEF Request, Linking
<1> HIDE DEF a
<1>2. Begin(p, "ready", a, r) /\ db.runs[r] # Null
  BY DEF LinkRead, a
<1>3. LET op == [phase |-> "ready", request |-> a, found |-> r, stale |-> FALSE]
      IN  Sound(db, op) /\ Fresh(db, op)
  BY <1>1, <1>2 DEF Sound, Fresh
<1> QED BY <1>1, <1>2, <1>3, BeginStep

LEMMA HangReadStep ==
  ASSUME IInv, NEW p \in Procs, NEW h \in Hanging, HangRead(p, h)
  PROVE  IInv'
<1> DEFINE r == IF EdgeOf(db, h) = Null THEN Null ELSE h.run
<1>1. h \in Request /\ h.does = "edge" /\ h.run \in Runs
  BY DEF Request, Hanging
<1>2. Begin(p, "ready", h, r) /\ r \in Runs \cup {Null}
  BY <1>1 DEF HangRead, EdgeOf
<1>3. (r = Null => EdgeOf(db, h) = Null) /\ (r # Null => EdgeOf(db, h) # Null)
  BY <1>1, NullAssumption
<1> HIDE DEF r
<1>4. LET op == [phase |-> "ready", request |-> h, found |-> r, stale |-> FALSE]
      IN  Sound(db, op) /\ Fresh(db, op)
  BY <1>1, <1>3 DEF Sound, Fresh
<1> QED BY <1>1, <1>2, <1>4, BeginStep

LEMMA WriteSteps ==
  ASSUME IInv, NEW p \in Procs,
         \/ \E e \in Experiments : Create(p, e)
         \/ \E r \in Runs : AddInsert(p, r)
         \/ AddUpdate(p) \/ Link(p) \/ HangInsert(p) \/ HangUpdate(p)
  PROVE  IInv'
<1>1. ASSUME NEW d, Good(d), Commit(d, {p}) PROVE IInv'
  BY <1>1, CommitStep DEF Good
<1>2. CASE \E e \in Experiments : Create(p, e)
  BY <1>1, <1>2, CreatedGood DEF Create
<1>3. CASE \E r \in Runs : AddInsert(p, r)
  BY <1>1, <1>3, AddedGood DEF AddInsert
<1>4. CASE AddUpdate(p)
  BY <1>1, <1>4, UpdatedGood DEF AddUpdate
<1>5. CASE Link(p)
  BY <1>1, <1>5, LinkedGood DEF Link
<1>6. ASSUME Ready(p, "edge")
      PROVE  /\ <<Asked(p).job, Asked(p).run>> \in Jobs \X Runs
             /\ Asked(p).role \in Roles /\ Asked(p).status \in Statuses
             /\ Found(p) # Null => db.edges[<<Asked(p).job, Asked(p).run>>] \in Edge
  <2>1. /\ <<Asked(p).job, Asked(p).run>> \in Jobs \X Runs
        /\ Asked(p).role \in Roles /\ Asked(p).status \in Statuses
    BY <1>6, OpOf, RequestKinds DEF Ready, InFlight
  <2>2. Found(p) # Null => db.edges[<<Asked(p).job, Asked(p).run>>] # Null
    BY <1>6, OpOf DEF Ready, Sound, EdgeOf, Found, Asked
  <2> QED BY <2>1, <2>2, Here, LedgerParts DEF Good
<1>7. CASE HangInsert(p)
  <2>1. Good(WithEdge(db, <<Asked(p).job, Asked(p).run>>, Asked(p).role, Asked(p).status))
    BY <1>6, <1>7, EdgeWritten DEF HangInsert
  <2> QED BY <1>1, <1>7, <2>1 DEF HangInsert
<1>8. CASE HangUpdate(p)
  <2>1. db.edges[<<Asked(p).job, Asked(p).run>>].role \in Roles
    BY <1>6, <1>8 DEF HangUpdate, Edge
  <2>2. Good(WithEdge(db, <<Asked(p).job, Asked(p).run>>, db.edges[<<Asked(p).job, Asked(p).run>>].role,
                      Asked(p).status))
    BY <1>6, <1>8, <2>1, EdgeWritten DEF HangUpdate
  <2> QED BY <1>1, <1>8, <2>2 DEF HangUpdate
<1> QED BY <1>2, <1>3, <1>4, <1>5, <1>7, <1>8

LEMMA OneStepSound ==
  ASSUME IInv, OneStep
  PROVE  IInv'
<1>1. ASSUME NEW d, Good(d), Commit(d, {}) PROVE IInv'
  BY <1>1, CommitStep DEF Good
<1>2. ASSUME NEW e \in Archivable, ArchiveExperiment(e) PROVE IInv'
  <2>1. Good([db EXCEPT !.experiments[e].archived = TRUE])
    BY <1>2, ArchivedGood, BoundAssumption DEF ArchiveExperiment
  <2> QED BY <1>1, <1>2, <2>1 DEF ArchiveExperiment
<1>3. ASSUME NEW r \in Runs, ArchiveRun(r) PROVE IInv'
  BY <1>1, <1>3, ArchivedGood DEF ArchiveRun
<1>4. ASSUME NEW j \in Jobs, NEW r \in Runs, NEW status \in Statuses, AddJob(j, r, status) PROVE IInv'
  <2>1. Good(WithEdge(db, <<j, r>>, Other, status))
    BY EdgeWritten, BoundAssumption
  <2> QED BY <1>1, <1>4, <2>1 DEF AddJob
<1> QED BY <1>2, <1>3, <1>4 DEF OneStep

LEMMA StepSound == IInv /\ [Next]_vars => IInv'
<1> SUFFICES ASSUME IInv, [Next]_vars PROVE IInv'
  OBVIOUS
<1>1. ASSUME NEW p \in Procs, Abort(p) PROVE IInv'
  <2>1. Sound(db, Idle) /\ Fresh(db, Idle)
    BY IdleType DEF Sound, Fresh
  <2> QED BY <1>1, <2>1, IdleType, ReadStep DEF Abort
<1>2. ASSUME NEW p \in Procs, Command(p) PROVE IInv'
  BY <1>1, <1>2, CreateReadStep, AddLookStep, AddCheckStep, LinkReadStep, HangReadStep, WriteSteps DEF Command
<1>3. CASE UNCHANGED vars
  BY <1>3 DEF vars, IInv, TypeOK, HomeIsLinked, OpInv
<1> QED BY <1>2, <1>3, OneStepSound DEF Next

-----------------------------------------------------------------------------
(* Who ends with a commit has made it.                                     *)
LEMMA CommitEnds ==
  ASSUME IInv, NEW d, NEW S \in SUBSET Procs, Commit(d, S), NEW q \in Procs, Ends(q)
  PROVE  q \in S
<1> SUFFICES ASSUME q \notin S PROVE FALSE
  OBVIOUS
<1>1. InFlight(q) /\ ops[q] \in Op /\ ops'[q].phase = "idle"
  BY OpOf DEF Ends, InFlight
<1>2. ops'[q] = [ops[q] EXCEPT !.stale = @ \/ Seen(d, ops[q]) # Seen(db, ops[q])]
  BY <1>1 DEF Commit
<1>3. ops'[q].phase = ops[q].phase
  BY <1>1, <1>2 DEF Op
<1> QED BY <1>1, <1>3 DEF InFlight

LEMMA RunsOf == IInv => db.runs \in [Runs -> Run \cup {Null}]
  BY Here, LedgerParts DEF Good

LEMMA RunChanged ==
  ASSUME IInv, NEW d, NEW x \in Runs, NEW row, d.runs = [db.runs EXCEPT ![x] = row],
         NEW r \in Runs, d.runs[r] # db.runs[r]
  PROVE  r = x /\ d.runs[r] = row
  BY RunsOf

LEMMA ArchivedAgain ==
  ASSUME IInv, NEW s \in Runs, ArchiveRun(s), NEW r \in Runs, db.runs[r] # Null, db.runs[r].archived,
         db'.runs[r] # db.runs[r]
  PROVE  Explained(r)
<1> DEFINE old == db.runs[s]
           row == [old EXCEPT !.archived = TRUE, !.status = "archived"]
           d == [db EXCEPT !.runs[s] = row]
<1>1. db \in Ledger /\ old \in Run
  BY Here, FoundRun DEF Good, ArchiveRun
<1>2. d = ArchivedRun(db, s) /\ d.runs = [db.runs EXCEPT ![s] = row]
  BY <1>1, LedgerParts DEF ArchivedRun, Ledger
<1>3. db' = d
  BY <1>2 DEF ArchiveRun, Commit
<1> HIDE DEF d, row
<1>4. r = s /\ db'.runs[r] = row
  BY <1>2, <1>3, RunChanged
<1>5. row \in Run /\ row.archived
  BY <1>1 DEF row, Run
<1>6. old.archived => row = [old EXCEPT !.status = "archived"]
  BY <1>1 DEF row, Run
<1>7. row # Null
  BY <1>5, NullAssumption
<1> QED BY <1>4, <1>5, <1>6, <1>7 DEF Explained

LEMMA ArchivedRest ==
  ASSUME IInv, Next, NEW r \in Runs, db.runs[r] # Null, db.runs[r].archived,
         db'.runs[r] # db.runs[r]
  PROVE  Explained(r)
<1>0. db.runs[r] \in Run
  BY FoundRun
<1>1. CASE OneStep
  <2>1. ASSUME NEW e \in Archivable, ArchiveExperiment(e) PROVE FALSE
    <3>1. db' = [db EXCEPT !.experiments[e].archived = TRUE]
      BY <2>1 DEF ArchiveExperiment, Commit
    <3> QED BY <3>1, Here DEF Good, Ledger
  <2>2. ASSUME NEW j \in Jobs, NEW s \in Runs, NEW status \in Statuses, AddJob(j, s, status) PROVE FALSE
    <3>1. db' = WithEdge(db, <<j, s>>, Other, status)
      BY <2>2 DEF AddJob, Commit
    <3> QED BY <3>1, Here DEF Good, Ledger, WithEdge
  <2> QED BY <1>1, <2>1, <2>2, ArchivedAgain DEF OneStep
<1>2. ASSUME NEW p \in Procs, Command(p)
      PROVE  Explained(r)
  <2>1. \A d : Commit(d, {p}) => db' = d /\ ops'[p] = Idle
    BY DEF Commit
  <2>2. ASSUME NEW e \in Experiments, Create(p, e) PROVE FALSE
    <3>1. WithCreated(db, Asked(p), e).runs = db.runs
      BY <2>2, CreatedGood DEF Create
    <3>2. db' = WithCreated(db, Asked(p), e)
      BY <2>1, <2>2 DEF Create
    <3> QED BY <3>1, <3>2
  <2>3. ASSUME NEW s \in Runs, AddInsert(p, s) PROVE FALSE
    <3> DEFINE row == NewRun(Asked(p).exp, Asked(p).key, Asked(p).external, {})
    <3>1. WithAdded(db, Asked(p), s).runs = [db.runs EXCEPT ![s] = row]
      BY <2>3, AddedGood DEF AddInsert
    <3>2. db' = WithAdded(db, Asked(p), s) /\ s # r
      BY <2>1, <2>3 DEF AddInsert
    <3> HIDE DEF row
    <3> QED BY <3>1, <3>2, RunsOf
  <2>4. CASE AddUpdate(p)
    <3> DEFINE d == WithUpdated(db, Asked(p), Found(p))
    <3>1. /\ Found(p) \in Runs /\ d.runs[Found(p)] \in Run
          /\ d.runs = [db.runs EXCEPT ![Found(p)] = d.runs[Found(p)]]
          /\ d.runs[Found(p)].archived = db.runs[Found(p)].archived
      BY <2>4, UpdatedGood DEF AddUpdate
    <3>2. db' = d /\ ops'[p] = Idle /\ Asked(p).does = "add" /\ ops[p].phase = "ready"
      BY <2>1, <2>4 DEF AddUpdate, Ready
    <3> HIDE DEF d
    <3>3. r = Found(p)
      BY <3>1, <3>2, RunChanged
    <3>4. ~ops[p].stale => Found(p) \in WithExternal(db, Asked(p).external)
      BY <2>4, OpOf DEF AddUpdate, Ready, Fresh, Found, Asked
    <3>5. ops[p].stale
      BY <3>3, <3>4 DEF WithExternal, IsActive
    <3>6. Writes(p, "add")
      BY <3>2, IdleType DEF Writes, Ends, InFlight
    <3> QED BY <3>1, <3>2, <3>3, <3>5, <3>6, NullAssumption DEF Explained, ByAdd
  <2>5. CASE Link(p)
    <3> DEFINE e == Asked(p).exp
               d == Linked(db, e, Asked(p).run)
               row == [db.runs[r] EXCEPT !.home = Either(@, e)]
    <3>1. /\ Found(p) \in Runs /\ Found(p) = Asked(p).run /\ d.runs[Found(p)] \in Run
          /\ d.runs = [db.runs EXCEPT ![Found(p)] = d.runs[Found(p)]]
          /\ d.runs[Found(p)].archived = db.runs[Found(p)].archived
      BY <2>5, LinkedGood DEF Link
    <3>2. db' = d /\ ops'[p] = Idle /\ Asked(p).does = "link" /\ ops[p].phase = "ready"
      BY <2>1, <2>5 DEF Link, Ready
    <3> HIDE DEF d
    <3>3. r = Found(p) /\ r = Asked(p).run
      BY <3>1, <3>2, RunChanged
    <3>4. d.runs[r] = row
      BY <3>3, Here DEF d, Linked, WithRun, Good, Ledger
    <3>5. db.runs[r].home = Null /\ row = [db.runs[r] EXCEPT !.home = e]
      <4>1. CASE db.runs[r].home = Null
        BY <4>1 DEF Either
      <4>2. CASE db.runs[r].home # Null
        <5>1. row = db.runs[r]
          BY <1>0, <4>2 DEF Either, Run
        <5> QED BY <3>2, <3>4, <5>1
      <4> QED BY <4>1, <4>2
    <3>6. Writes(p, "link")
      BY <3>2, IdleType DEF Writes, Ends, InFlight
    <3>7. ByLink(r)
      BY <3>2, <3>3, <3>4, <3>5, <3>6 DEF ByLink
    <3> QED BY <3>1, <3>2, <3>3, <3>7, NullAssumption DEF Explained
  <2>6. ASSUME HangInsert(p) \/ HangUpdate(p) PROVE FALSE
    <3>1. \A pair, role, status : WithEdge(db, pair, role, status).runs = db.runs
      BY Here DEF Good, Ledger, WithEdge
    <3> QED BY <2>1, <2>6, <3>1 DEF HangInsert, HangUpdate
  <2>7. CASE db' = db
    BY <2>7
  <2> QED BY <1>2, <2>2, <2>3, <2>4, <2>5, <2>6, <2>7
          DEF Command, CreateRead, AddLook, AddCheck, LinkRead, HangRead, Begin, Abort
<1> QED BY <1>1, <1>2 DEF Next

-----------------------------------------------------------------------------
LEMMA IndexParts ==
  ASSUME NEW d
  PROVE  /\ RunsIndexed(d) <=>
              \A r, s \in Runs :
                /\ IsActive(d.runs[r]) /\ IsActive(d.runs[s]) /\ r # s
                => /\ \A x \in Externals : x # Null => d.runs[r].external # x \/ d.runs[s].external # x
                   /\ \A e \in Experiments, k \in Keys : e # Null /\ k # Null =>
                        ~ (/\ d.runs[r].home = e /\ d.runs[s].home = e
                           /\ d.runs[r].key = k /\ d.runs[s].key = k)
  BY DEF RunsIndexed, WithExternal, WithKey

(* Two active runs share no external identifier, and no key in one home.   *)
Apart(a, b) ==
  /\ a.external # Null => a.external # b.external
  /\ a.home # Null /\ a.key # Null => a.home # b.home \/ a.key # b.key

LEMMA Indexes ==
  ASSUME NEW d \in Ledger
  PROVE  RunsIndexed(d) <=>
           \A r, s \in Runs :
             IsActive(d.runs[r]) /\ IsActive(d.runs[s]) /\ r # s => Apart(d.runs[r], d.runs[s])
<1>1. ASSUME NEW r \in Runs, IsActive(d.runs[r])
      PROVE  /\ d.runs[r].external \in Externals \cup {Null}
             /\ d.runs[r].home \in Experiments \cup {Null} /\ d.runs[r].key \in Keys \cup {Null}
  BY <1>1, LedgerParts, RunOfRow DEF IsActive
<1>2. Null \notin Externals /\ Null \notin Experiments /\ Null \notin Keys
  BY NullAssumption
<1> QED BY <1>1, <1>2, IndexParts DEF Apart

(* One row changes, and is apart from the others: the indexes still hold.  *)
LEMMA OneRow ==
  ASSUME IInv, NEW d \in Ledger, NEW r \in Runs, NEW row \in Run,
         d.runs = [db.runs EXCEPT ![r] = row], d.experiments = db.experiments,
         ~row.archived => \A s \in Runs \ {r} :
           IsActive(db.runs[s]) => Apart(row, db.runs[s]) /\ Apart(db.runs[s], row)
  PROVE  Indexed(d)
<1>1. db \in Ledger /\ RunsIndexed(db) /\ ExperimentsIndexed(db)
  BY Here DEF Good, IInv, Indexed
<1>2. \A s \in Runs : d.runs[s] = IF s = r THEN row ELSE db.runs[s]
  BY RunsOf
<1>3. RunsIndexed(d)
  <2> SUFFICES ASSUME NEW x \in Runs, NEW y \in Runs,
                      IsActive(d.runs[x]), IsActive(d.runs[y]), x # y
               PROVE  Apart(d.runs[x], d.runs[y])
    BY Indexes
  <2>1. CASE x = r
    BY <1>2, <2>1 DEF IsActive
  <2>2. CASE y = r
    BY <1>2, <2>2 DEF IsActive
  <2>3. CASE x # r /\ y # r
    BY <1>1, <1>2, <2>3, Indexes
  <2> QED BY <2>1, <2>2, <2>3
<1>4. ExperimentsIndexed(d)
  BY <1>1 DEF ExperimentsIndexed, IsActive
<1> QED BY <1>3, <1>4 DEF Indexed

LEMMA FreshFacts ==
  ASSUME IInv, NEW p \in Procs, InFlight(p), ~ops[p].stale
  PROVE  Fresh(db, ops[p]) /\ ops[p].phase # "idle" /\ Asked(p) \in Request
  BY OpOf DEF InFlight

LEMMA CreateFits ==
  ASSUME IInv, NEW p \in Procs, Ready(p, "create"), ~ops[p].stale, NEW e \in Experiments
  PROVE  Indexed(WithCreated(db, Asked(p), e))
<1> DEFINE d == WithCreated(db, Asked(p), e)
           row == [key |-> Asked(p).key, archived |-> FALSE]
<1>1. d.runs = db.runs /\ d.experiments = [db.experiments EXCEPT ![e] = row]
  BY CreatedGood
<1>2. row.key = Asked(p).key
  OBVIOUS
<1>3. \A f \in Experiments :
        Asked(p).key # Null /\ IsActive(db.experiments[f]) => db.experiments[f].key # Asked(p).key
  BY FreshFacts DEF Ready, InFlight, Fresh, Asked, ActiveExperiment
<1>4. RunsIndexed(db) /\ ExperimentsIndexed(db)
  BY DEF IInv, Indexed
<1>5. db.experiments \in [Experiments -> Experiment \cup {Null}]
  BY Here, LedgerParts DEF Good
<1> HIDE DEF d, row
<1>6. \A f \in Experiments : d.experiments[f] = IF f = e THEN row ELSE db.experiments[f]
  BY <1>1, <1>5
<1>7. ExperimentsIndexed(d)
  <2> SUFFICES ASSUME NEW f \in Experiments, NEW g \in Experiments,
                      IsActive(d.experiments[f]), IsActive(d.experiments[g]),
                      d.experiments[f].key = d.experiments[g].key, d.experiments[f].key # Null
               PROVE  f = g
    BY DEF ExperimentsIndexed
  <2>1. CASE f = e \/ g = e
    BY <1>2, <1>3, <1>6, <2>1
  <2>2. CASE f # e /\ g # e
    BY <1>4, <1>6, <2>2 DEF ExperimentsIndexed
  <2> QED BY <2>1, <2>2
<1>8. RunsIndexed(d)
  BY <1>1, <1>4 DEF RunsIndexed, WithExternal, WithKey
<1> QED BY <1>7, <1>8 DEF Indexed, d

LEMMA AddFits ==
  ASSUME IInv, NEW p \in Procs, Ready(p, "add"), Found(p) = Null, ~ops[p].stale, NEW r \in Runs
  PROVE  Indexed(WithAdded(db, Asked(p), r))
<1> DEFINE a == Asked(p)
           row == NewRun(a.exp, a.key, a.external, {})
           d == WithAdded(db, a, r)
<1>1. a.exp \in Experiments \cup {Null} /\ a.key \in Keys \cup {Null} /\ a.external \in Externals \cup {Null}
  BY OpOf, RequestKinds DEF Ready, InFlight
<1>2. row \in Run /\ row.home = a.exp /\ row.key = a.key /\ row.external = a.external
  BY <1>1, NewRunType
<1>3. d \in Ledger /\ d.runs = [db.runs EXCEPT ![r] = row] /\ d.experiments = db.experiments
  BY AddedGood DEF Good
<1>4. WithExternal(db, a.external) = {} /\ WithKey(db, a.exp, a.key) = {}
  BY FreshFacts DEF Ready, InFlight, Fresh, Asked, Found
<1> HIDE DEF a, row, d
<1>5. ASSUME NEW s \in Runs, IsActive(db.runs[s])
      PROVE  Apart(row, db.runs[s]) /\ Apart(db.runs[s], row)
  <2>1. a.external # Null => db.runs[s].external # a.external
    BY <1>4, <1>5 DEF WithExternal
  <2>2. a.exp # Null /\ a.key # Null => db.runs[s].home # a.exp \/ db.runs[s].key # a.key
    BY <1>4, <1>5 DEF WithKey
  <2> QED BY <1>2, <2>1, <2>2 DEF Apart
<1>6. Indexed(d)
  BY <1>2, <1>3, <1>5, OneRow
<1> QED BY <1>6 DEF d, a

(* An update by a command that has looked: the run it found is active.     *)
LEMMA UpdateFits ==
  ASSUME IInv, NEW p \in Procs, Ready(p, "add"), Found(p) # Null, ~ops[p].stale, ~Completes(p)
  PROVE  Indexed(WithUpdated(db, Asked(p), Found(p)))
<1> DEFINE a == Asked(p)
           r == Found(p)
           old == db.runs[r]
           d == WithUpdated(db, a, r)
           row == d.runs[r]
<1>1. /\ d \in Ledger /\ r \in Runs /\ old \in Run /\ row \in Run
      /\ d.runs = [db.runs EXCEPT ![r] = row] /\ d.experiments = db.experiments
      /\ row.home = Either(a.exp, old.home) /\ row.key = Either(a.key, old.key)
      /\ row.external = old.external
  BY UpdatedGood DEF Good
<1>2. r \in WithExternal(db, a.external) /\ WithKey(db, a.exp, a.key) = {}
  BY FreshFacts DEF Ready, InFlight, Fresh, Asked, Found
<1>3. IsActive(old)
  BY <1>2 DEF WithExternal
<1>4. (a.exp = Null) = (a.key = Null)
  BY DEF Completes, Ready
<1> HIDE DEF a, r, old, d, row
<1>5. ASSUME NEW s \in Runs \ {r}, IsActive(db.runs[s])
      PROVE  Apart(row, db.runs[s]) /\ Apart(db.runs[s], row)
  <2>1. Apart(old, db.runs[s]) /\ Apart(db.runs[s], old)
    <3>1. RunsIndexed(db) /\ db \in Ledger
      BY Here DEF Good, IInv, Indexed
    <3> QED BY <1>1, <1>3, <1>5, <3>1, Indexes DEF old
  <2>2. CASE a.exp = Null /\ a.key = Null
    BY <1>1, <2>1, <2>2 DEF Apart, Either
  <2>3. CASE a.exp # Null /\ a.key # Null
    <3>1. db.runs[s].home # a.exp \/ db.runs[s].key # a.key
      BY <1>2, <1>5, <2>3 DEF WithKey
    <3> QED BY <1>1, <2>1, <2>3, <3>1 DEF Apart, Either
  <2> QED BY <1>4, <2>2, <2>3
<1>6. Indexed(d)
  BY <1>1, <1>5, OneRow
<1> QED BY <1>6 DEF d, a, r

LEMMA LinkFits ==
  ASSUME IInv, NEW p \in Procs, Ready(p, "link"), ~Completes(p)
  PROVE  Indexed(Linked(db, Asked(p).exp, Asked(p).run))
<1> DEFINE r == Found(p)
           old == db.runs[r]
           d == Linked(db, Asked(p).exp, Asked(p).run)
           row == d.runs[r]
<1>1. /\ d \in Ledger /\ r \in Runs /\ old \in Run /\ row \in Run
      /\ d.runs = [db.runs EXCEPT ![r] = row] /\ d.experiments = db.experiments
      /\ old.home # Null => row.home = old.home
      /\ row.key = old.key /\ row.external = old.external /\ row.archived = old.archived
  BY LinkedGood DEF Good
<1>2. old.home # Null \/ old.key = Null
  BY <1>1, NullAssumption DEF Completes, Ready
<1> HIDE DEF r, old, d, row
<1>3. ASSUME NEW s \in Runs \ {r}, IsActive(db.runs[s]), ~row.archived
      PROVE  Apart(row, db.runs[s]) /\ Apart(db.runs[s], row)
  <2>1. IsActive(old) /\ old = db.runs[r]
    BY <1>1, <1>3, NullAssumption DEF IsActive, old
  <2>2. Apart(old, db.runs[s]) /\ Apart(db.runs[s], old)
    <3>1. RunsIndexed(db) /\ db \in Ledger
      BY Here DEF Good, IInv, Indexed
    <3> QED BY <1>1, <1>3, <2>1, <3>1, Indexes
  <2> QED BY <1>1, <1>2, <2>2 DEF Apart
<1>4. Indexed(d)
  BY <1>1, <1>3, OneRow
<1> QED BY <1>4 DEF d

LEMMA FreshCommandsFit == IInv => CollisionNeedsOverlap
<1> SUFFICES ASSUME IInv, NEW p \in Procs, InFlight(p), ~ops[p].stale, ~Completes(p)
             PROVE  /\ \A d \in Pending(p) : Indexed(d)
                    /\ Ready(p, "edge") /\ Found(p) = Null => db.edges[<<Asked(p).job, Asked(p).run>>] = Null
  BY DEF CollisionNeedsOverlap
<1>1. \A d \in Pending(p) : Indexed(d)
  BY CreateFits, AddFits, UpdateFits, LinkFits DEF Pending
<1>2. Ready(p, "edge") /\ Found(p) = Null => db.edges[<<Asked(p).job, Asked(p).run>>] = Null
  BY FreshFacts DEF Ready, Fresh, Found, Asked, EdgeOf
<1> QED BY <1>1, <1>2

-----------------------------------------------------------------------------
(* Sets of numbers, for what holds from step to step.                      *)
(* A set of numbers that is not empty has a least one.                     *)
LEMMA LeastNatural ==
  ASSUME NEW S, S \subseteq Nat, S # {}
  PROVE  \E n \in S : \A k \in S : n <= k
<1>1. IsWellFoundedOn(OpToRel(<, Nat), Nat)
  BY NatLessThanWellFounded
<1>2. PICK n \in S : \A k \in S : ~ (<<k, n>> \in OpToRel(<, Nat))
  <2> HIDE DEF OpToRel
  <2> QED BY <1>1, WFMin
<1>3. \A k \in S : ~(k < n)
  BY <1>2 DEF OpToRel
<1> QED BY <1>3

(* From a to b: what holds at a stage holds at the next one.               *)
LEMMA Stages ==
  ASSUME NEW G, NEW a \in Nat, NEW b \in Nat, a <= b, a \in G,
         \A n \in a + 1 .. b : n - 1 \in G => n \in G
  PROVE  b \in G
<1> DEFINE Out == {n \in a .. b : n \notin G}
<1> SUFFICES ASSUME Out # {} PROVE FALSE
  OBVIOUS
<1>1. PICK n \in Out : \A k \in Out : n <= k
  <2>1. Out \subseteq Nat
    OBVIOUS
  <2> HIDE DEF Out
  <2> QED BY <2>1, LeastNatural
<1>2. n \in a + 1 .. b /\ n - 1 \in a .. b /\ ~(n <= n - 1)
  OBVIOUS
<1>3. n - 1 \in G
  BY <1>1, <1>2
<1> QED BY <1>1, <1>2, <1>3

-----------------------------------------------------------------------------
(* The order of operations.                                                *)
Ordered(operations, N) ==
  /\ N \in Nat /\ DOMAIN operations = 1 .. N
  /\ \A i \in 1 .. N : operations[i].action \in DOMAIN Rank /\ operations[i].section \in DOMAIN Section

LEMMA BeforeIsOrder ==
  ASSUME NEW operations, NEW N, Ordered(operations, N)
  PROVE  /\ \A i, j \in 1 .. N : i # j => Before(operations, i, j) \/ Before(operations, j, i)
         /\ \A i, j \in 1 .. N : ~ (Before(operations, i, j) /\ Before(operations, j, i))
         /\ \A i, j, k \in 1 .. N :
              Before(operations, i, j) /\ Before(operations, j, k) => Before(operations, i, k)
<1> DEFINE rank == [i \in 1 .. N |-> Rank[operations[i].action]]
           section == [i \in 1 .. N |-> Section[operations[i].section]]
<1>1. ASSUME NEW i \in 1 .. N
      PROVE  rank[i] \in Int /\ section[i] \in Int
  BY DEF Ordered, Rank, Section
<1>2. \A i, j \in 1 .. N : operations[i].section = operations[j].section <=> section[i] = section[j]
  BY DEF Ordered, Section
<1>3. \A i, j \in 1 .. N :
        Before(operations, i, j) <=>
          \/ rank[i] < rank[j]
          \/ rank[i] = rank[j] /\ (section[i] < section[j] \/ (section[i] = section[j] /\ i < j))
  BY <1>2 DEF Before
<1>4. \A i \in 1 .. N : i \in Int
  OBVIOUS
<1> HIDE DEF rank, section
<1> QED BY <1>1, <1>3, <1>4

(* A function on 1 .. N in which different numbers are different hits all. *)
LEMMA OneToOne ==
  ASSUME NEW N \in Nat, NEW f \in [1 .. N -> 1 .. N],
         \A i, j \in 1 .. N : f[i] = f[j] => i = j
  PROVE  \A j \in 1 .. N : \E i \in 1 .. N : f[i] = j
<1>1. f \in Injection(1 .. N, 1 .. N)
  BY DEF Injection, IsInjective
<1>2. IsFiniteSet(1 .. N)
  BY FS_Interval
<1>3. f \in Surjection(1 .. N, 1 .. N)
  BY <1>1, <1>2, FS_Injection
<1> QED BY <1>3 DEF Surjection

(* There is a sorted order: each operation goes to the place that is the   *)
(* number of the operations up to it.                                      *)
LEMMA OrderExists ==
  ASSUME NEW operations, NEW N, Ordered(operations, N)
  PROVE  \E p \in [1 .. N -> 1 .. N] :
           \A i, j \in 1 .. N : i < j => Before(operations, p[i], p[j])
<1>0. N \in Nat /\ IsFiniteSet(1 .. N) /\ Cardinality(1 .. N) = N
  BY FS_Interval DEF Ordered
<1> DEFINE Upto(i) == {j \in 1 .. N : j = i \/ Before(operations, j, i)}
           c == [i \in 1 .. N |-> Cardinality(Upto(i))]
<1>1. ASSUME NEW i \in 1 .. N
      PROVE  IsFiniteSet(Upto(i)) /\ Upto(i) \subseteq 1 .. N /\ c[i] \in 1 .. N
  <2>1. Upto(i) \in SUBSET (1 .. N) /\ i \in Upto(i)
    OBVIOUS
  <2> HIDE DEF Upto
  <2>2. IsFiniteSet(Upto(i)) /\ Cardinality(Upto(i)) <= N
    BY <1>0, <2>1, FS_Subset
  <2>3. Cardinality(Upto(i)) \in Nat
    BY <2>2, FS_CardinalityType
  <2>4. Cardinality(Upto(i)) # 0
    BY <2>1, <2>2, FS_EmptySet
  <2> QED BY <2>1, <2>2, <2>3, <2>4, <1>0
<1>2. ASSUME NEW i \in 1 .. N, NEW j \in 1 .. N, Before(operations, i, j)
      PROVE  c[i] < c[j]
  <2>1. Upto(i) \in SUBSET Upto(j) /\ j \in Upto(j) /\ j \notin Upto(i)
    BY <1>2, BeforeIsOrder
  <2> HIDE DEF Upto
  <2>2. Cardinality(Upto(i)) <= Cardinality(Upto(j)) /\ Cardinality(Upto(i)) # Cardinality(Upto(j))
    BY <1>1, <2>1, FS_Subset
  <2> QED BY <1>1, <2>2
<1> HIDE DEF c
<1>3. c \in [1 .. N -> 1 .. N]
  BY <1>1 DEF c
<1>4. \A i, j \in 1 .. N : c[i] = c[j] => i = j
  BY <1>2, <1>3, BeforeIsOrder
<1>5. \A n \in 1 .. N : \E i \in 1 .. N : c[i] = n
  BY <1>0, <1>3, <1>4, OneToOne
<1> DEFINE p == [n \in 1 .. N |-> CHOOSE i \in 1 .. N : c[i] = n]
<1>6. p \in [1 .. N -> 1 .. N] /\ \A n \in 1 .. N : c[p[n]] = n
  BY <1>5
<1> HIDE DEF p
<1>7. ASSUME NEW m \in 1 .. N, NEW n \in 1 .. N, m < n PROVE Before(operations, p[m], p[n])
  <2>1. p[m] \in 1 .. N /\ p[n] \in 1 .. N /\ c[p[m]] = m /\ c[p[n]] = n
    BY <1>6
  <2>2. p[m] # p[n] /\ ~ (n < m)
    BY <1>7, <2>1
  <2> QED BY <1>2, <2>1, <2>2, BeforeIsOrder
<1> QED BY <1>6, <1>7

(* The operations in order are all of the operations.                      *)
LEMMA InOrderPlaces ==
  ASSUME NEW operations, NEW N, Ordered(operations, N)
  PROVE  \E place \in [1 .. N -> 1 .. N] :
           /\ InOrder(operations) = [i \in 1 .. N |-> operations[place[i]]]
           /\ \A i, j \in 1 .. N : i < j => Before(operations, place[i], place[j])
           /\ \A i, j \in 1 .. N : place[i] = place[j] => i = j
           /\ \A j \in 1 .. N : \E i \in 1 .. N : place[i] = j
<1> DEFINE Sorts(p) == \A i, j \in 1 .. N : i < j => Before(operations, p[i], p[j])
           place == CHOOSE p \in [1 .. N -> 1 .. N] : Sorts(p)
<1>0. N \in Nat /\ DOMAIN operations = 1 .. N
  BY DEF Ordered
<1>1. InOrder(operations) = [i \in 1 .. N |-> operations[place[i]]]
  BY <1>0 DEF InOrder
<1>2. place \in [1 .. N -> 1 .. N] /\ Sorts(place)
  BY OrderExists
<1> HIDE DEF place
<1>3. ASSUME NEW i \in 1 .. N, NEW j \in 1 .. N, place[i] = place[j] PROVE i = j
  <2>1. place[i] \in 1 .. N /\ ~ Before(operations, place[i], place[i])
    BY <1>2, BeforeIsOrder
  <2>2. ~ (i < j) /\ ~ (j < i)
    BY <1>2, <1>3, <2>1
  <2> QED BY <1>0, <2>2
<1>4. \A j \in 1 .. N : \E i \in 1 .. N : place[i] = j
  BY <1>0, <1>2, <1>3, OneToOne
<1> QED BY <1>1, <1>2, <1>3, <1>4

-----------------------------------------------------------------------------
(* Rows.                                                                   *)
LEMMA RowKinds ==
  ASSUME NEW row \in Row
  PROVE  /\ row.section \in {"runs", "job_runs", "custom_attributes", "sync_events"}
         /\ row.section = "runs" <=> row \in RunRow
         /\ row.section = "job_runs" <=> row \in EdgeRow
         /\ row.section = "custom_attributes" <=> row \in AttrsRow
         /\ row.section = "sync_events" <=> row \in SyncRow
  BY DEF Row, RunRow, EdgeRow, AttrsRow, SyncRow

LEMMA RunRowFields ==
  ASSUME NEW row \in RunRow
  PROVE  /\ row.section = "runs" /\ row.op \in {Null, "archive"} /\ row.id \in Runs \cup {Null}
         /\ row.exp \in Experiments \cup {Null} /\ row.key \in Keys \cup {Null}
         /\ row.external \in Externals \cup {Null} /\ row.attrs \in (SUBSET Attrs) \cup {Null}
  BY DEF RunRow

(* The later of two rows has the last word, and stays a row of a run.      *)
LEMMA OverriddenRow ==
  ASSUME NEW old \in RunRow, NEW new \in RunRow
  PROVE  /\ Overridden(old, new) \in RunRow
         /\ Overridden(old, new).id = Either(new.id, old.id)
         /\ Overridden(old, new).external = Either(new.external, old.external)
<1> DEFINE row == [section |-> Either(new.section, old.section), op |-> Either(new.op, old.op),
                   id |-> Either(new.id, old.id), exp |-> Either(new.exp, old.exp),
                   key |-> Either(new.key, old.key), external |-> Either(new.external, old.external),
                   attrs |-> Either(new.attrs, old.attrs)]
<1>1. Overridden(old, new) = row
  <2>1. DOMAIN old = {"section", "op", "id", "exp", "key", "external", "attrs"}
    BY DEF RunRow
  <2> QED BY <2>1 DEF Overridden
<1>2. row \in RunRow
  BY RunRowFields DEF RunRow, Either
<1> HIDE DEF row
<1>3. row.id = Either(new.id, old.id) /\ row.external = Either(new.external, old.external)
  BY DEF row
<1> QED BY <1>1, <1>2, <1>3

-----------------------------------------------------------------------------
(* Rows in which no two stand for one external identifier.                 *)
AllApart(rows) == \A i, j \in DOMAIN rows : i # j => ~ SameExternal(rows[i], rows[j])

LEMMA MergedRows ==
  ASSUME NEW rows \in Seq(Row), AllApart(rows), NEW row \in Row
  PROVE  Merged(rows, row) \in Seq(Row) /\ AllApart(Merged(rows, row))
<1> DEFINE same == {i \in DOMAIN rows : SameExternal(rows[i], row)}
           merged == [i \in DOMAIN rows |-> IF i \in same THEN Overridden(rows[i], row) ELSE rows[i]]
<1>0. Len(rows) \in Nat /\ DOMAIN rows = 1 .. Len(rows) /\ \A i \in DOMAIN rows : rows[i] \in Row
  OBVIOUS
<1>1. CASE same = {}
  <2>1. Merged(rows, row) = Append(rows, row)
    BY <1>1 DEF Merged
  <2>2. \A i \in 1 .. Len(rows) + 1 :
          Append(rows, row)[i] = IF i = Len(rows) + 1 THEN row ELSE rows[i]
    OBVIOUS
  <2>3. Append(rows, row) \in Seq(Row) /\ DOMAIN Append(rows, row) = 1 .. Len(rows) + 1
    OBVIOUS
  <2>4. \A i \in DOMAIN rows : ~ SameExternal(rows[i], row) /\ ~ SameExternal(row, rows[i])
    BY <1>1 DEF SameExternal
  <2>5. ASSUME NEW i \in 1 .. Len(rows) + 1, NEW j \in 1 .. Len(rows) + 1, i # j
        PROVE  ~ SameExternal(Append(rows, row)[i], Append(rows, row)[j])
    <3>1. CASE i = Len(rows) + 1
      <4>1. j \in DOMAIN rows
        BY <1>0, <2>5, <3>1
      <4> QED BY <2>2, <2>4, <2>5, <3>1, <4>1
    <3>2. CASE j = Len(rows) + 1
      <4>1. i \in DOMAIN rows
        BY <1>0, <2>5, <3>2
      <4> QED BY <2>2, <2>4, <2>5, <3>2, <4>1
    <3>3. CASE i # Len(rows) + 1 /\ j # Len(rows) + 1
      <4>1. i \in DOMAIN rows /\ j \in DOMAIN rows
        BY <1>0, <3>3
      <4> QED BY <2>2, <2>5, <3>3, <4>1 DEF AllApart
    <3> QED BY <3>1, <3>2, <3>3
  <2> QED BY <2>1, <2>3, <2>5 DEF AllApart
<1>2. CASE same # {}
  <2>1. Merged(rows, row) = merged
    BY <1>2 DEF Merged
  <2>2. ASSUME NEW i \in same
        PROVE  /\ merged[i] \in RunRow /\ merged[i].section = rows[i].section
               /\ merged[i].id = rows[i].id /\ merged[i].external = rows[i].external
    <3>1. i \in DOMAIN rows /\ SameExternal(rows[i], row) /\ rows[i] \in RunRow /\ row \in RunRow
      BY <1>0, <2>2, RowKinds DEF SameExternal
    <3>2. merged[i] = Overridden(rows[i], row)
      BY <3>1
    <3> QED BY <3>1, <3>2, OverriddenRow, RunRowFields DEF SameExternal, Either
  <2>3. ASSUME NEW i \in DOMAIN rows
        PROVE  /\ merged[i] \in Row /\ merged[i].section = rows[i].section
               /\ rows[i].section = "runs" =>
                    merged[i].id = rows[i].id /\ merged[i].external = rows[i].external
    <3>1. CASE i \in same
      BY <2>2, <3>1 DEF Row
    <3>2. CASE i \notin same
      BY <1>0, <3>2
    <3> QED BY <3>1, <3>2
  <2>4. DOMAIN merged = 1 .. Len(rows)
    BY <1>0
  <2> HIDE DEF merged
  <2>5. merged \in Seq(Row)
    <3>1. merged \in [1 .. Len(rows) -> Row]
      BY <1>0, <2>3, <2>4 DEF merged
    <3> QED BY <1>0, <3>1
  <2>6. AllApart(merged)
    BY <1>0, <2>3, <2>4 DEF AllApart, SameExternal
  <2> QED BY <2>1, <2>5, <2>6
<1> QED BY <1>1, <1>2

(* The function that Deduped defines.                                      *)
IsDeduped(first, rows, last) ==
  first = [n \in 0 .. last |-> IF n = 0 THEN <<>> ELSE Merged(first[n - 1], rows[n])]

LEMMA DedupedExists ==
  ASSUME NEW rows, NEW last \in Nat
  PROVE  \E first : IsDeduped(first, rows, last)
<1> DEFINE G == {n \in Nat : \E first : IsDeduped(first, rows, n)}
<1>1. 0 \in G
  <2>1. IsDeduped([n \in 0 .. 0 |-> <<>>], rows, 0)
    BY DEF IsDeduped
  <2> QED BY <2>1
<1>2. ASSUME NEW n \in 1 .. last, n - 1 \in G PROVE n \in G
  <2>1. PICK f : IsDeduped(f, rows, n - 1)
    BY <1>2
  <2> DEFINE g == [k \in 0 .. n |-> IF k = n THEN Merged(f[n - 1], rows[n]) ELSE f[k]]
  <2>2. ASSUME NEW k \in 0 .. n
        PROVE  g[k] = IF k = 0 THEN <<>> ELSE Merged(g[k - 1], rows[k])
    <3>1. CASE k = n
      BY <3>1
    <3>2. CASE k # n
      <4>1. k \in 0 .. n - 1 /\ g[k] = f[k] /\ (k # 0 => g[k - 1] = f[k - 1])
        BY <3>2
      <4> QED BY <2>1, <4>1 DEF IsDeduped
    <3> QED BY <3>1, <3>2
  <2>3. IsDeduped(g, rows, n)
    BY <2>2 DEF IsDeduped
  <2> QED BY <2>3
<1> HIDE DEF G
<1>3. last \in G
  BY <1>1, <1>2, Stages
<1> QED BY <1>3 DEF G

(* What is planned are rows, and no two of them are for one external       *)
(* identifier.                                                             *)
LEMMA DedupedRows ==
  ASSUME NEW rows \in Seq(Row)
  PROVE  Deduped(rows) \in Seq(Row) /\ AllApart(Deduped(rows))
<1> DEFINE N == Len(rows)
           first == CHOOSE f : IsDeduped(f, rows, N)
           G == {n \in 0 .. N : first[n] \in Seq(Row) /\ AllApart(first[n])}
<1>0. N \in Nat /\ \A n \in 1 .. N : rows[n] \in Row
  OBVIOUS
<1>1. Deduped(rows) = first[N]
  BY DEF Deduped, IsDeduped
<1>2. IsDeduped(first, rows, N)
  BY <1>0, DedupedExists
<1> HIDE DEF first, N
<1>3. first[0] = <<>> /\ \A n \in 1 .. N : first[n] = Merged(first[n - 1], rows[n])
  BY <1>0, <1>2 DEF IsDeduped
<1>4. 0 \in G
  <2>1. first[0] = <<>> /\ <<>> \in Seq(Row)
    BY <1>3
  <2>2. first[0] \in Seq(Row)
    BY <2>1
  <2>3. AllApart(first[0])
    BY <2>1 DEF AllApart
  <2>4. 0 \in 0 .. N
    BY <1>0
  <2> QED BY <2>2, <2>3, <2>4
<1>5. ASSUME NEW n \in 1 .. N, n - 1 \in G PROVE n \in G
  <2>1. first[n - 1] \in Seq(Row) /\ AllApart(first[n - 1]) /\ rows[n] \in Row
    BY <1>0, <1>5
  <2>2. Merged(first[n - 1], rows[n]) \in Seq(Row) /\ AllApart(Merged(first[n - 1], rows[n]))
    BY <2>1, MergedRows
  <2>3. n \in 0 .. N
    BY <1>0
  <2> QED BY <1>3, <2>2, <2>3
<1> HIDE DEF G
<1>6. N \in G
  BY <1>0, <1>4, <1>5, Stages
<1> QED BY <1>1, <1>6 DEF G

(* The rows of a manifest, each with its experiment.                       *)
LEMMA PlannedRowsFit ==
  ASSUME NEW m \in Manifest
  PROVE  /\ PlannedRows(m) \in Seq(Row)
         /\ AllApart(PlannedRows(m))
<1> DEFINE rows == Deduped(m.rows)
           row(i) == IF rows[i].section = "runs" THEN [rows[i] EXCEPT !.exp = Either(@, m.exp)] ELSE rows[i]
           planned == [i \in DOMAIN rows |-> row(i)]
<1>1. rows \in Seq(Row) /\ AllApart(rows) /\ m.exp \in Experiments \cup {Null}
  BY DedupedRows DEF Manifest
<1>2. PlannedRows(m) = planned
  BY DEF PlannedRows
<1> HIDE DEF rows
<1>3. ASSUME NEW i \in DOMAIN rows
      PROVE  /\ row(i) \in Row /\ row(i).section = rows[i].section
             /\ rows[i].section = "runs" => row(i).id = rows[i].id /\ row(i).external = rows[i].external
  <2>1. CASE rows[i].section = "runs"
    <3>1. rows[i] \in RunRow
      BY <1>1, <2>1, RowKinds
    <3>2. Either(rows[i].exp, m.exp) \in Experiments \cup {Null}
      BY <1>1, <3>1, RunRowFields DEF Either
    <3>3. /\ row(i) \in RunRow /\ row(i).section = rows[i].section
          /\ row(i).id = rows[i].id /\ row(i).external = rows[i].external
      BY <2>1, <3>1, <3>2 DEF RunRow
    <3> QED BY <3>3 DEF Row
  <2>2. CASE rows[i].section # "runs"
    BY <1>1, <2>2
  <2> QED BY <2>1, <2>2
<1> HIDE DEF row
<1>4. planned \in Seq(Row)
  <2>1. Len(rows) \in Nat /\ DOMAIN rows = 1 .. Len(rows)
    BY <1>1
  <2>2. planned \in [1 .. Len(rows) -> Row]
    BY <1>3, <2>1
  <2> QED BY <2>1, <2>2
<1>5. AllApart(planned)
  BY <1>1, <1>3 DEF AllApart, SameExternal
<1> QED BY <1>2, <1>4, <1>5

-----------------------------------------------------------------------------
(* What is planned for a row that is not refused.                          *)
Action(changes) == IF changes THEN "update" ELSE "noop"

RunFits(d, row, o) ==
  /\ o.section = "runs" /\ o.id \in Runs
  /\ row.op = "archive" =>
       /\ FindRun(d, row) = {o.id}
       /\ o.action = IF d.runs[o.id].archived THEN "noop" ELSE "archive"
  /\ row.op # "archive" =>
       /\ o.row \in RunRow
       /\ row.exp # Null => ActiveExperiment(d, row.exp)
       /\ o.row.exp = row.exp /\ o.row.key = row.key /\ o.row.external = row.external
       /\ \/ /\ FindRun(d, row) = {} /\ d.runs[o.id] = Null
             /\ row.id # Null => o.id = row.id
             /\ o.action = "insert" /\ o.row.attrs = Either(row.attrs, {})
          \/ /\ FindRun(d, row) = {o.id}
             /\ o.action = Action(RunDiffers(d, o.id, row))
             /\ o.row.attrs = Either(row.attrs, d.runs[o.id].attrs)

EdgeFits(d, row, o) ==
  /\ o.section = "job_runs" /\ o.id = row.pair /\ o.row = row
  /\ row.op = "archive" =>
       /\ d.edges[row.pair] # Null
       /\ o.action = IF d.edges[row.pair].archived THEN "noop" ELSE "archive"
  /\ row.op # "archive" =>
       \/ d.edges[row.pair] = Null /\ o.action = "insert"
       \/ /\ d.edges[row.pair] # Null /\ d.edges[row.pair].role = row.role
          /\ o.action = Action(d.edges[row.pair].status # row.status \/ d.edges[row.pair].archived)

AttrsFits(d, row, o) ==
  /\ o.section = "custom_attributes" /\ o.id = row.run /\ o.row = row /\ d.runs[row.run] # Null
  /\ o.action = Action(~ (row.attrs \subseteq d.runs[row.run].attrs))

SyncFits(d, row, o) ==
  /\ o.section = "sync_events" /\ o.row = row
  /\ o.action = IF row.key \in d.syncs THEN "noop" ELSE "sync_event"

OpFits(d, row, o) ==
  /\ row.section = "runs" => RunFits(d, row, o)
  /\ row.section = "job_runs" => EdgeFits(d, row, o)
  /\ row.section = "custom_attributes" => AttrsFits(d, row, o)
  /\ row.section = "sync_events" => SyncFits(d, row, o)

-----------------------------------------------------------------------------
(* A row finds at most one run, which is there.                            *)
LEMMA FoundOne ==
  ASSUME NEW d \in Ledger, RunsIndexed(d), NEW row \in RunRow
  PROVE  /\ FindRun(d, row) \subseteq {r \in Runs : d.runs[r] # Null}
         /\ \A r, s \in FindRun(d, row) : r = s
         /\ row.id = Null \/ d.runs[row.id] = Null => \A r \in FindRun(d, row) : IsActive(d.runs[r])
<1>1. /\ row.id \in Runs \cup {Null} /\ row.exp \in Experiments \cup {Null}
      /\ row.key \in Keys \cup {Null} /\ row.external \in Externals \cup {Null}
  BY RunRowFields
<1>2. CASE row.id # Null /\ d.runs[row.id] # Null
  BY <1>1, <1>2 DEF FindRun
<1>3. CASE ~ (row.id # Null /\ d.runs[row.id] # Null) /\ Null \notin {row.exp, row.key}
  <2>1. FindRun(d, row) = WithKey(d, row.exp, row.key)
    BY <1>3 DEF FindRun
  <2>2. row.exp \in Experiments /\ row.key \in Keys
    BY <1>1, <1>3
  <2> QED BY <1>3, <2>1, <2>2 DEF RunsIndexed, WithKey, IsActive
<1>4. CASE ~ (row.id # Null /\ d.runs[row.id] # Null) /\ ~ (Null \notin {row.exp, row.key})
  <2>1. FindRun(d, row) = WithExternal(d, row.external)
    BY <1>4 DEF FindRun
  <2>2. CASE row.external = Null
    BY <2>1, <2>2 DEF WithExternal
  <2>3. CASE row.external # Null
    <3>1. row.external \in Externals
      BY <1>1, <2>3
    <3> QED BY <1>4, <2>1, <3>1 DEF RunsIndexed, WithExternal, IsActive
  <2> QED BY <2>2, <2>3
<1> QED BY <1>2, <1>3, <1>4

LEMMA FilledRow ==
  ASSUME NEW row \in RunRow, NEW attrs \in SUBSET Attrs
  PROVE  /\ Filled(row, attrs) \in RunRow
         /\ Filled(row, attrs).exp = row.exp /\ Filled(row, attrs).key = row.key
         /\ Filled(row, attrs).external = row.external
         /\ Filled(row, attrs).attrs = Either(row.attrs, attrs)
<1>1. Either(row.attrs, attrs) \in (SUBSET Attrs) \cup {Null}
  BY RunRowFields DEF Either
<1> QED BY <1>1 DEF Filled, RunRow

LEMMA OperationFields ==
  ASSUME NEW section, NEW action, NEW id, NEW row
  PROVE  LET o == Operation(section, action, id, row) IN
         o.section = section /\ o.action = action /\ o.id = id /\ o.row = row
  BY DEF Operation

LEMMA RunOperationFits ==
  ASSUME NEW d \in Ledger, RunsIndexed(d), NEW row \in RunRow, NEW new,
         Unnamed(d, row) => new \in Runs /\ d.runs[new] = Null,
         RunOperation(d, row, new).action # "refused"
  PROVE  RunFits(d, row, RunOperation(d, row, new))
<1> DEFINE found == FindRun(d, row)
           known == found # {}
           r == IF known THEN CHOOSE s \in found : TRUE ELSE Either(row.id, new)
           planned == Filled(row, IF known THEN d.runs[r].attrs ELSE {})
           action == IF row.exp # Null /\ ~ActiveExperiment(d, row.exp) THEN "refused"
                     ELSE IF ~known THEN "insert"
                     ELSE IF RunDiffers(d, r, row) THEN "update" ELSE "noop"
           o == RunOperation(d, row, new)
<1>0. d.runs \in [Runs -> Run \cup {Null}] /\ o.action # "refused"
  BY DEF Ledger
<1> SUFFICES RunFits(d, row, o)
  OBVIOUS
<1> HIDE DEF o
<1>1. known => r \in Runs /\ d.runs[r] # Null /\ found = {r}
  BY FoundOne
<1>2. row.section = "runs" /\ row.op \in {Null, "archive"} /\ row.id \in Runs \cup {Null}
  BY RunRowFields
<1>3. CASE row.op = "archive"
  <2>1. o = ArchiveOperation(row, r, known, known /\ d.runs[r].archived)
    BY <1>3 DEF RunOperation, o
  <2>2. known
    BY <1>0, <2>1, OperationFields DEF ArchiveOperation
  <2> HIDE DEF known, r
  <2>3. o = Operation("runs", IF d.runs[r].archived THEN "noop" ELSE "archive", r, row)
    BY <1>2, <2>1, <2>2 DEF ArchiveOperation
  <2>4. o.section = "runs" /\ o.id = r /\ o.action = IF d.runs[r].archived THEN "noop" ELSE "archive"
    BY <2>3, OperationFields
  <2> QED BY <1>1, <1>3, <2>2, <2>4 DEF RunFits
<1>4. CASE row.op # "archive"
  <2>1. o = Operation("runs", action, r, planned)
    BY <1>4 DEF RunOperation, o
  <2>2. o.section = "runs" /\ o.action = action /\ o.id = r /\ o.row = planned
    BY <2>1, OperationFields
  <2>3. row.exp # Null => ActiveExperiment(d, row.exp)
    BY <1>0, <2>2
  <2>4. CASE known
    <3>1. d.runs[r].attrs \in SUBSET Attrs
      <4>1. d.runs[r] \in Run
        BY <1>0, <1>1, <2>4
      <4> QED BY <4>1 DEF Run
    <3>2. planned = Filled(row, d.runs[r].attrs)
      BY <2>4
    <3>3. action = Action(RunDiffers(d, r, row))
      BY <2>3, <2>4 DEF Action
    <3> HIDE DEF planned, action, known, r
    <3> QED BY <1>1, <1>4, <2>2, <2>3, <2>4, <3>1, <3>2, <3>3, FilledRow DEF RunFits
  <2>5. CASE ~known
    <3>1. r \in Runs /\ d.runs[r] = Null /\ (row.id # Null => r = row.id)
      <4>1. CASE row.id = Null
        <5>1. row.op = Null
          BY <1>2, <1>4
        <5> QED BY <1>2, <2>5, <4>1, <5>1 DEF Either, Unnamed
      <4>2. CASE row.id # Null
        BY <1>2, <2>5, <4>2 DEF FindRun, Either
      <4> QED BY <4>1, <4>2
    <3>2. planned = Filled(row, {}) /\ action = "insert" /\ found = {}
      BY <2>3, <2>5
    <3> HIDE DEF planned, action, known, r
    <3> QED BY <1>4, <2>2, <2>3, <3>1, <3>2, FilledRow DEF RunFits
  <2> QED BY <2>4, <2>5
<1> QED BY <1>3, <1>4

LEMMA RowOperationFits ==
  ASSUME NEW d \in Ledger, RunsIndexed(d), NEW row \in Row, NEW new,
         Unnamed(d, row) => new \in Runs /\ d.runs[new] = Null,
         PlanRow(d, row, new).action # "refused"
  PROVE  OpFits(d, row, PlanRow(d, row, new))
<1> DEFINE o == PlanRow(d, row, new)
<1>1. CASE row.section = "runs"
  BY <1>1, RunOperationFits, RowKinds DEF OpFits, PlanRow
<1>2. CASE row.section = "job_runs"
  <2>1. o = EdgeOperation(d, row)
    BY <1>2 DEF PlanRow
  <2>2. EdgeFits(d, row, o)
    BY <1>2, <2>1 DEF EdgeOperation, ArchiveOperation, Operation, EdgeFits, Action
  <2> QED BY <1>2, <2>2 DEF OpFits
<1>3. CASE row.section = "custom_attributes"
  <2>1. o = AttrsOperation(d, row)
    BY <1>3 DEF PlanRow
  <2>2. AttrsFits(d, row, o)
    BY <2>1 DEF AttrsOperation, Operation, AttrsFits, Action
  <2> QED BY <1>3, <2>2 DEF OpFits
<1>4. CASE row.section = "sync_events"
  <2>1. o = SyncOperation(d, row)
    BY <1>4 DEF PlanRow
  <2>2. SyncFits(d, row, o)
    BY <2>1, OperationFields DEF SyncOperation, SyncFits
  <2> QED BY <1>4, <2>2 DEF OpFits
<1> QED BY <1>1, <1>2, <1>3, <1>4, RowKinds

-----------------------------------------------------------------------------
(* What an operation may be, and what it needs.                            *)
OpType(o) ==
  \/ o.action = "noop"
  \/ /\ o.section = "runs" /\ o.id \in Runs
     /\ \/ o.action = "archive"
        \/ o.action \in {"insert", "update"} /\ o.row \in RunRow /\ o.row.attrs # Null
  \/ /\ o.section = "job_runs" /\ o.id \in Jobs \X Runs
     /\ \/ o.action = "archive"
        \/ o.action \in {"insert", "update"} /\ o.row \in EdgeRow
  \/ /\ o.section = "custom_attributes" /\ o.id \in Runs
     /\ o.action = "update" /\ o.row \in AttrsRow
  \/ o.section = "sync_events" /\ o.action = "sync_event" /\ o.row \in SyncRow

Needs(d, o) ==
  o.action \in {"update", "archive"} =>
    /\ o.section \in {"runs", "custom_attributes"} => d.runs[o.id] # Null
    /\ o.section = "job_runs" => d.edges[o.id] # Null

LEMMA FitsType ==
  ASSUME NEW d \in Ledger, RunsIndexed(d), NEW row \in Row, NEW o, OpFits(d, row, o)
  PROVE  OpType(o) /\ Needs(d, o)
<1>1. CASE row.section = "runs"
  <2>1. RunFits(d, row, o) /\ row \in RunRow
    BY <1>1, RowKinds DEF OpFits
  <2>2. o.section = "runs" /\ o.id \in Runs
    BY <2>1 DEF RunFits
  <2>3. FindRun(d, row) = {o.id} => d.runs[o.id] # Null /\ d.runs[o.id].attrs \in SUBSET Attrs
    <3>1. FindRun(d, row) = {o.id} => d.runs[o.id] # Null
      BY <2>1, FoundOne
    <3> QED BY <2>2, <3>1, LedgerParts DEF Run
  <2>4. row.attrs \in (SUBSET Attrs) \cup {Null} /\ Null \notin SUBSET Attrs
    BY <2>1, RunRowFields, NullFieldAssumption
  <2>5. CASE row.op = "archive"
    <3>1. FindRun(d, row) = {o.id} /\ o.action \in {"noop", "archive"}
      BY <2>1, <2>5 DEF RunFits
    <3> QED BY <2>2, <2>3, <3>1 DEF OpType, Needs
  <2>6. CASE row.op # "archive"
    <3>1. /\ o.row \in RunRow /\ o.action \in {"insert", "update", "noop"} /\ o.row.attrs # Null
          /\ o.action = "update" => d.runs[o.id] # Null
      BY <2>1, <2>3, <2>4, <2>6 DEF RunFits, Either, Action
    <3> QED BY <2>2, <3>1 DEF OpType, Needs
  <2> QED BY <2>5, <2>6
<1>2. CASE row.section = "job_runs"
  <2>1. EdgeFits(d, row, o) /\ row \in EdgeRow /\ row.pair \in Jobs \X Runs
    BY <1>2, RowKinds DEF OpFits, EdgeRow
  <2> QED BY <2>1 DEF EdgeFits, OpType, Needs, Action
<1>3. CASE row.section = "custom_attributes"
  <2>1. AttrsFits(d, row, o) /\ row \in AttrsRow /\ row.run \in Runs
    BY <1>3, RowKinds DEF OpFits, AttrsRow
  <2> QED BY <2>1 DEF AttrsFits, OpType, Needs, Action
<1>4. CASE row.section = "sync_events"
  <2>1. SyncFits(d, row, o) /\ row \in SyncRow
    BY <1>4, RowKinds DEF OpFits
  <2> QED BY <2>1 DEF SyncFits, OpType, Needs
<1> QED BY <1>1, <1>2, <1>3, <1>4, RowKinds

-----------------------------------------------------------------------------
(* A run written beside a link.                                            *)
LEMMA WithRunParts ==
  ASSUME NEW d \in Ledger, NEW r \in Runs, NEW row \in Run, NEW e \in Experiments \cup {Null}
  PROVE  LET next == WithRun(d, r, row, e) IN
         /\ next \in Ledger
         /\ next.runs = [d.runs EXCEPT ![r] = row] /\ next.links = LinksWith(d, e, r)
         /\ next.experiments = d.experiments /\ next.edges = d.edges /\ next.syncs = d.syncs
<1>1. LinksWith(d, e, r) \in SUBSET (Experiments \X Runs)
  BY LedgerParts DEF LinksWith
<1>2. [d.runs EXCEPT ![r] = row] \in [Runs -> Run \cup {Null}]
  BY LedgerParts
<1> QED BY <1>1, <1>2 DEF WithRun, Ledger

(* The run that an operation writes.                                       *)
WrittenRun(d, o) ==
  IF o.action = "insert" THEN NewRun(o.row.exp, o.row.key, o.row.external, o.row.attrs)
  ELSE UpdatedRun(d.runs[o.id], o.row.exp, o.row.key, o.row.external, o.row.attrs)

LEMMA NewRunFields ==
  ASSUME NEW e \in Experiments \cup {Null}, NEW k \in Keys \cup {Null},
         NEW x \in Externals \cup {Null}, NEW attrs \in SUBSET Attrs
  PROVE  LET run == NewRun(e, k, x, attrs) IN
         /\ run \in Run /\ run.home = e /\ run.key = k /\ run.external = x
         /\ run.attrs = attrs /\ run.archived = FALSE
  BY DEF NewRun, Run

LEMMA UpdatedRunFields ==
  ASSUME NEW old \in Run, NEW e \in Experiments \cup {Null}, NEW k \in Keys \cup {Null},
         NEW x \in Externals \cup {Null}, NEW attrs \in SUBSET Attrs
  PROVE  LET run == UpdatedRun(old, e, k, x, attrs) IN
         /\ run \in Run /\ run.home = Either(e, old.home) /\ run.key = Either(k, old.key)
         /\ run.external = Either(x, old.external)
         /\ run.attrs = attrs /\ run.archived = old.archived
  BY DEF UpdatedRun, Run, Either

LEMMA RunEffect ==
  ASSUME NEW d \in Ledger, NEW o, o.section = "runs", o.id \in Runs,
         o.action \in {"insert", "update"}, o.row \in RunRow, o.row.attrs # Null,
         Needs(d, o), NEW next, next = ApplyOperation(d, o), next # Null
  PROVE  /\ o.action = "insert" => d.runs[o.id] = Null
         /\ next \in Ledger
         /\ WrittenRun(d, o) \in Run
         /\ next.runs = [d.runs EXCEPT ![o.id] = WrittenRun(d, o)]
         /\ next.links = LinksWith(d, o.row.exp, o.id)
         /\ next.experiments = d.experiments /\ next.edges = d.edges /\ next.syncs = d.syncs
<1>1. /\ o.row.exp \in Experiments \cup {Null} /\ o.row.key \in Keys \cup {Null}
      /\ o.row.external \in Externals \cup {Null} /\ o.row.attrs \in SUBSET Attrs
  BY RunRowFields
<1>2. next = ApplyRun(d, o)
  BY DEF ApplyOperation
<1>3. WrittenRun(d, o) \in Run
  <2>1. CASE o.action = "insert"
    BY <1>1, <2>1, NewRunFields DEF WrittenRun
  <2>2. CASE o.action # "insert"
    <3>1. d.runs[o.id] \in Run
      BY <2>2, LedgerParts DEF Needs
    <3> QED BY <1>1, <2>2, <3>1, UpdatedRunFields DEF WrittenRun
  <2> QED BY <2>1, <2>2
<1>4. /\ o.action = "insert" => d.runs[o.id] = Null
      /\ next = WithRun(d, o.id, WrittenRun(d, o), o.row.exp)
  BY <1>2 DEF ApplyRun, WrittenRun
<1> QED BY <1>1, <1>3, <1>4, WithRunParts

(* The attributes of a run are added to, or it is archived.                *)
LEMMA RunKept ==
  ASSUME NEW d \in Ledger, NEW o, o.id \in Runs, d.runs[o.id] # Null,
         \/ o.section = "runs" /\ o.action = "archive"
         \/ o.section = "custom_attributes" /\ o.action = "update" /\ o.row \in AttrsRow,
         NEW next, next = ApplyOperation(d, o)
  PROVE  LET old == d.runs[o.id]  run == next.runs[o.id] IN
         /\ next \in Ledger /\ next # Null
         /\ next.runs = [d.runs EXCEPT ![o.id] = run] /\ run \in Run /\ old \in Run
         /\ run.home = old.home /\ run.key = old.key /\ run.external = old.external
         /\ o.section = "runs" => run.archived /\ run.attrs = old.attrs
         /\ o.section # "runs" => run.archived = old.archived /\ run.attrs = old.attrs \cup o.row.attrs
         /\ next.links = d.links
         /\ next.experiments = d.experiments /\ next.edges = d.edges /\ next.syncs = d.syncs
<1> DEFINE old == d.runs[o.id]
<1>1. old \in Run
  BY LedgerParts
<1>2. CASE o.section = "runs" /\ o.action = "archive"
  <2> DEFINE run == [old EXCEPT !.archived = TRUE, !.status = "archived"]
             e == [d EXCEPT !.runs[o.id] = run]
  <2>1. /\ run \in Run /\ run.home = old.home /\ run.key = old.key /\ run.external = old.external
        /\ run.archived /\ run.attrs = old.attrs
    BY <1>1 DEF Run
  <2>2. next = e
    <3>1. next = ArchivedRun(d, o.id)
      BY <1>2 DEF ApplyOperation, ApplyArchive
    <3> QED BY <1>1, <3>1, LedgerParts DEF ArchivedRun, Ledger
  <2> HIDE DEF run
  <2>3. /\ e \in Ledger /\ e.runs = [d.runs EXCEPT ![o.id] = run] /\ e.links = d.links
        /\ e.experiments = d.experiments /\ e.edges = d.edges /\ e.syncs = d.syncs
    BY <2>1 DEF Ledger
  <2> HIDE DEF e
  <2>4. e.runs[o.id] = run /\ e # Null
    BY <2>3, LedgerParts, NullFieldAssumption
  <2> QED BY <1>1, <1>2, <2>1, <2>2, <2>3, <2>4
<1>3. CASE o.section = "custom_attributes" /\ o.action = "update" /\ o.row \in AttrsRow
  <2> DEFINE attrs == old.attrs \cup o.row.attrs
             run == [old EXCEPT !.attrs = attrs]
             e == [d EXCEPT !.runs[o.id] = run]
  <2>0. attrs \in SUBSET Attrs
    BY <1>1, <1>3 DEF Run, AttrsRow
  <2>1. /\ run \in Run /\ run.home = old.home /\ run.key = old.key /\ run.external = old.external
        /\ run.archived = old.archived /\ run.attrs = attrs
    <3> HIDE DEF attrs
    <3> QED BY <1>1, <2>0 DEF Run
  <2>2. next = e
    <3>1. next = ApplyAttrs(d, o)
      BY <1>3 DEF ApplyOperation
    <3> QED BY <1>1, <3>1, LedgerParts DEF ApplyAttrs, Ledger
  <2> HIDE DEF run
  <2>3. /\ e \in Ledger /\ e.runs = [d.runs EXCEPT ![o.id] = run] /\ e.links = d.links
        /\ e.experiments = d.experiments /\ e.edges = d.edges /\ e.syncs = d.syncs
    BY <2>1 DEF Ledger
  <2> HIDE DEF e
  <2>4. e.runs[o.id] = run /\ e # Null
    BY <2>3, LedgerParts, NullFieldAssumption
  <2> QED BY <1>1, <1>3, <2>1, <2>2, <2>3, <2>4
<1> QED BY <1>2, <1>3

LEMMA EdgeEffect ==
  ASSUME NEW d \in Ledger, NEW o, o.section = "job_runs", o.id \in Jobs \X Runs,
         \/ o.action = "archive"
         \/ o.action \in {"insert", "update"} /\ o.row \in EdgeRow,
         Needs(d, o), NEW next, next = ApplyOperation(d, o), next # Null
  PROVE  LET old == d.edges[o.id]  edge == next.edges[o.id] IN
         /\ next \in Ledger
         /\ next.edges = [d.edges EXCEPT ![o.id] = edge] /\ edge \in Edge
         /\ o.action = "insert" => old = Null /\ edge.role = o.row.role
         /\ o.action # "insert" => edge.role = old.role
         /\ o.action = "archive" => edge.archived
         /\ o.action # "archive" => edge.status = o.row.status /\ ~edge.archived
         /\ next.runs = d.runs /\ next.links = d.links
         /\ next.experiments = d.experiments /\ next.syncs = d.syncs
<1> DEFINE old == d.edges[o.id]
<1>0. o.action # "insert" => old \in Edge
  BY LedgerParts DEF Needs
<1>1. ASSUME NEW edge \in Edge, next = [d EXCEPT !.edges[o.id] = edge]
      PROVE  /\ next \in Ledger /\ next.edges[o.id] = edge
             /\ next.edges = [d.edges EXCEPT ![o.id] = edge]
             /\ next.runs = d.runs /\ next.links = d.links
             /\ next.experiments = d.experiments /\ next.syncs = d.syncs
  <2>1. /\ next \in Ledger /\ next.edges = [d.edges EXCEPT ![o.id] = edge]
        /\ next.runs = d.runs /\ next.links = d.links
        /\ next.experiments = d.experiments /\ next.syncs = d.syncs
    BY <1>1, SMTT(30) DEF Ledger
  <2>2. d.edges \in [Jobs \X Runs -> Edge \cup {Null}] /\ o.id \in Jobs \X Runs
    BY LedgerParts
  <2>3. next.edges[o.id] = edge
    BY <2>1, <2>2
  <2> QED BY <2>1, <2>3
<1>2. CASE o.action = "archive"
  <2> DEFINE edge == [old EXCEPT !.archived = TRUE]
  <2>1. edge \in Edge /\ edge.role = old.role /\ edge.archived
    BY <1>0, <1>2 DEF Edge
  <2>2. next = [d EXCEPT !.edges[o.id] = edge]
    BY <1>2 DEF ApplyOperation, ApplyArchive
  <2> HIDE DEF edge
  <2> QED BY <1>1, <1>2, <2>1, <2>2
<1>3. CASE o.action \in {"insert", "update"} /\ o.row \in EdgeRow
  <2> DEFINE role == IF o.action = "insert" THEN o.row.role ELSE old.role
             edge == [role |-> role, status |-> o.row.status, archived |-> FALSE]
  <2>1. edge \in Edge /\ edge.role = role /\ edge.status = o.row.status /\ ~edge.archived
    BY <1>0, <1>3 DEF Edge, EdgeRow
  <2>2. next = ApplyEdge(d, o)
    BY <1>3 DEF ApplyOperation
  <2>3. next = [d EXCEPT !.edges[o.id] = edge] /\ (o.action = "insert" => old = Null)
    BY <1>3, <2>2 DEF ApplyEdge, WithEdge
  <2> HIDE DEF edge
  <2> QED BY <1>1, <1>3, <2>1, <2>3
<1> QED BY <1>2, <1>3

LEMMA SyncEffect ==
  ASSUME NEW d \in Ledger, NEW o, o.section = "sync_events", o.action = "sync_event", o.row \in SyncRow,
         NEW next, next = ApplyOperation(d, o), next # Null
  PROVE  /\ o.row.key \notin d.syncs /\ next \in Ledger
         /\ next.syncs = d.syncs \cup ({o.row.key} \ {Null})
         /\ next.runs = d.runs /\ next.links = d.links
         /\ next.experiments = d.experiments /\ next.edges = d.edges
<1>1. next = ApplySync(d, o)
  BY DEF ApplyOperation
<1> DEFINE syncs == d.syncs \cup ({o.row.key} \ {Null})
<1>2. o.row.key \notin d.syncs /\ next = [d EXCEPT !.syncs = syncs]
  BY <1>1 DEF ApplySync
<1>3. syncs \in SUBSET SyncKeys
  BY LedgerParts DEF SyncRow
<1> HIDE DEF syncs
<1> QED BY <1>2, <1>3 DEF Ledger, syncs

-----------------------------------------------------------------------------
(* d has come from c by operations: nothing that was there is missing, and *)
(* no archived run is active.                                              *)
Grows(c, d) ==
  /\ Keeps(c, d)
  /\ d.experiments = c.experiments /\ c.links \subseteq d.links /\ c.syncs \subseteq d.syncs
  /\ \A r \in Runs : c.runs[r] # Null /\ d.runs[r] # Null /\ c.runs[r].archived => d.runs[r].archived

LEMMA GrowsOn ==
  ASSUME NEW b, NEW c, NEW d, Grows(b, c), Grows(c, d)
  PROVE  Grows(b, d)
<1>1. Keeps(b, d)
  BY DEF Grows, Keeps
<1> QED BY <1>1 DEF Grows, Keeps

(* What an operation does not name stays as it is.                         *)
ForRun(o, r) == o.section \in {"runs", "custom_attributes"} /\ o.id = r
ForEdge(o, pair) == o.section = "job_runs" /\ o.id = pair

Frame(d, o, next) ==
  /\ \A r \in Runs : ~ ForRun(o, r) => next.runs[r] = d.runs[r]
  /\ \A pair \in Jobs \X Runs : ~ ForEdge(o, pair) => next.edges[pair] = d.edges[pair]
  /\ o.section # "sync_events" => next.syncs = d.syncs

(* One run is written.                                                     *)
LEMMA OneRunGrows ==
  ASSUME NEW d \in Ledger, NEW r \in Runs, NEW row \in Run, NEW next \in Ledger, Homes(d),
         next.runs = [d.runs EXCEPT ![r] = row],
         next.experiments = d.experiments, next.edges = d.edges, next.syncs = d.syncs,
         d.links \subseteq next.links,
         row.home # Null => <<row.home, r>> \in next.links,
         d.runs[r] # Null /\ d.runs[r].archived => row.archived
  PROVE  /\ Homes(next) /\ Grows(d, next)
         /\ \A s \in Runs \ {r} : next.runs[s] = d.runs[s]
         /\ next.runs[r] = row
<1>1. \A s \in Runs : next.runs[s] = IF s = r THEN row ELSE d.runs[s]
  BY LedgerParts
<1>2. row # Null
  BY NullAssumption
<1>3. Homes(next)
  BY <1>1 DEF Homes
<1>4. Keeps(d, next)
  BY <1>1, <1>2 DEF Keeps
<1>5. Grows(d, next)
  BY <1>1, <1>4 DEF Grows
<1> QED BY <1>1, <1>3, <1>5

(* Every operation lets the ledger grow, and writes what it names only.    *)
LEMMA OperationGrows ==
  ASSUME NEW d \in Ledger, Homes(d), NEW o, OpType(o), Needs(d, o),
         NEW next, next = ApplyOperation(d, o), next # Null
  PROVE  /\ next \in Ledger /\ Homes(next) /\ Grows(d, next) /\ Frame(d, o, next)
         /\ o.action = "noop" => next = d
<1>1. CASE o.action = "noop"
  <2>1. next = d
    BY <1>1 DEF ApplyOperation
  <2> QED BY <2>1 DEF Grows, Keeps, Frame
<1>2. CASE o.section = "runs" /\ o.action \in {"insert", "update"}
  <2>1. o.id \in Runs /\ o.row \in RunRow /\ o.row.attrs # Null
    BY <1>2 DEF OpType
  <2> DEFINE run == WrittenRun(d, o)
  <2>2. /\ o.action = "insert" => d.runs[o.id] = Null
        /\ next \in Ledger /\ run \in Run
        /\ next.runs = [d.runs EXCEPT ![o.id] = run] /\ next.links = LinksWith(d, o.row.exp, o.id)
        /\ next.experiments = d.experiments /\ next.edges = d.edges /\ next.syncs = d.syncs
    BY <1>2, <2>1, RunEffect
  <2>3. /\ o.row.exp \in Experiments \cup {Null} /\ o.row.key \in Keys \cup {Null}
        /\ o.row.external \in Externals \cup {Null} /\ o.row.attrs \in SUBSET Attrs
    BY <2>1, RunRowFields
  <2>4. CASE o.action = "insert"
    <3>0. run = NewRun(o.row.exp, o.row.key, o.row.external, o.row.attrs)
      BY <2>4 DEF WrittenRun
    <3> HIDE DEF run
    <3>1. run.home = o.row.exp
      BY <3>0 DEF NewRun
    <3>2. d.links \subseteq next.links /\ (run.home # Null => <<run.home, o.id>> \in next.links)
      BY <2>2, <3>1 DEF LinksWith
    <3>3. Homes(next) /\ Grows(d, next) /\ \A s \in Runs \ {o.id} : next.runs[s] = d.runs[s]
      BY <2>1, <2>2, <2>4, <3>2, OneRunGrows
    <3> QED BY <1>2, <2>2, <3>3 DEF Frame, ForRun
  <2>5. CASE o.action = "update"
    <3>0. d.runs[o.id] \in Run /\ d.runs[o.id] # Null
      BY <1>2, <2>1, <2>5, LedgerParts DEF Needs
    <3>3. run = UpdatedRun(d.runs[o.id], o.row.exp, o.row.key, o.row.external, o.row.attrs)
      BY <2>5 DEF WrittenRun
    <3> HIDE DEF run
    <3>1. run.home = Either(o.row.exp, d.runs[o.id].home) /\ run.archived = d.runs[o.id].archived
      BY <3>0, <3>3 DEF UpdatedRun, Run
    <3>2. d.links \subseteq next.links /\ (run.home # Null => <<run.home, o.id>> \in next.links)
      BY <2>1, <2>2, <3>0, <3>1 DEF LinksWith, Either, Homes
    <3>4. Homes(next) /\ Grows(d, next) /\ \A s \in Runs \ {o.id} : next.runs[s] = d.runs[s]
      BY <2>1, <2>2, <3>1, <3>2, OneRunGrows
    <3> QED BY <1>2, <2>2, <2>5, <3>4 DEF Frame, ForRun
  <2> QED BY <1>2, <2>4, <2>5
<1>3. CASE \/ o.section = "runs" /\ o.action = "archive"
           \/ o.section = "custom_attributes" /\ o.action = "update" /\ o.row \in AttrsRow
  <2>1. o.id \in Runs /\ d.runs[o.id] # Null
    BY <1>3 DEF OpType, Needs
  <2> DEFINE old == d.runs[o.id]  run == next.runs[o.id]
  <2>2. /\ next \in Ledger /\ next.runs = [d.runs EXCEPT ![o.id] = run] /\ run \in Run /\ old \in Run
        /\ run.home = old.home /\ (old.archived => run.archived)
        /\ next.links = d.links
        /\ next.experiments = d.experiments /\ next.edges = d.edges /\ next.syncs = d.syncs
    BY <1>3, <2>1, RunKept
  <2>3. run.home # Null => <<run.home, o.id>> \in next.links
    BY <2>1, <2>2 DEF Homes
  <2> HIDE DEF run
  <2>4. Homes(next) /\ Grows(d, next) /\ \A s \in Runs \ {o.id} : next.runs[s] = d.runs[s]
    BY <2>1, <2>2, <2>3, OneRunGrows
  <2> QED BY <1>3, <2>2, <2>4 DEF Frame, ForRun
<1>4. CASE o.section = "job_runs" /\ o.action # "noop"
  <2>1. /\ o.id \in Jobs \X Runs
        /\ o.action = "archive" \/ (o.action \in {"insert", "update"} /\ o.row \in EdgeRow)
    BY <1>4 DEF OpType
  <2>2. /\ next \in Ledger /\ next.edges = [d.edges EXCEPT ![o.id] = next.edges[o.id]]
        /\ next.edges[o.id] \in Edge
        /\ next.runs = d.runs /\ next.links = d.links
        /\ next.experiments = d.experiments /\ next.syncs = d.syncs
    BY <1>4, <2>1, EdgeEffect
  <2>3. \A pair \in Jobs \X Runs : pair # o.id => next.edges[pair] = d.edges[pair]
    BY <2>2, LedgerParts
  <2>4. next.edges[o.id] # Null
    BY <2>2, NullAssumption
  <2>5. Keeps(d, next)
    BY <2>2, <2>3, <2>4 DEF Keeps
  <2>6. Homes(next) /\ Grows(d, next)
    BY <2>2, <2>5 DEF Homes, Grows
  <2> QED BY <1>4, <2>2, <2>3, <2>6 DEF Frame, ForEdge
<1>5. CASE o.section = "sync_events" /\ o.action # "noop"
  <2>1. /\ next \in Ledger /\ d.syncs \subseteq next.syncs
        /\ next.runs = d.runs /\ next.links = d.links
        /\ next.experiments = d.experiments /\ next.edges = d.edges
    BY <1>5, SyncEffect DEF OpType
  <2> QED BY <1>5, <2>1 DEF Homes, Grows, Keeps, Frame
<1> QED BY <1>1, <1>2, <1>3, <1>4, <1>5 DEF OpType

-----------------------------------------------------------------------------
(* The ledgers that the first k operations of a plan lead to, one by one.  *)
Trace(L, d, plan, k) ==
  /\ L[0] = d
  /\ \A n \in 1 .. k : L[n] = Effect(L[n - 1], plan[n]) /\ L[n] # Null

(* The function that Applied defines.                                      *)
IsApplied(after, d, plan, last) ==
  after = [n \in 0 .. last |->
             IF n = 0 THEN d ELSE IF after[n - 1] = Null THEN Null ELSE Effect(after[n - 1], plan[n])]

LEMMA AppliedExists ==
  ASSUME NEW d, NEW plan, NEW last \in Nat
  PROVE  \E after : IsApplied(after, d, plan, last)
<1> DEFINE G == {n \in Nat : \E after : IsApplied(after, d, plan, n)}
           step(f, n) == IF f[n - 1] = Null THEN Null ELSE Effect(f[n - 1], plan[n])
<1>1. 0 \in G
  <2>1. IsApplied([n \in 0 .. 0 |-> d], d, plan, 0)
    BY DEF IsApplied
  <2> QED BY <2>1
<1>2. ASSUME NEW n \in 1 .. last, n - 1 \in G PROVE n \in G
  <2>1. PICK f : IsApplied(f, d, plan, n - 1)
    BY <1>2
  <2> DEFINE g == [k \in 0 .. n |-> IF k = n THEN step(f, n) ELSE f[k]]
  <2>2. ASSUME NEW k \in 0 .. n
        PROVE  g[k] = IF k = 0 THEN d ELSE step(g, k)
    <3>1. CASE k = n
      BY <3>1
    <3>2. CASE k # n
      <4>1. k \in 0 .. n - 1 /\ g[k] = f[k] /\ (k # 0 => g[k - 1] = f[k - 1])
        BY <3>2
      <4> QED BY <2>1, <4>1 DEF IsApplied
    <3> QED BY <3>1, <3>2
  <2>3. IsApplied(g, d, plan, n)
    BY <2>2 DEF IsApplied
  <2> QED BY <2>3
<1> HIDE DEF G
<1>3. last \in G
  BY <1>1, <1>2, Stages
<1> QED BY <1>3 DEF G

(* A plan is applied whole, or it fails at an operation after which        *)
(* nothing is done.                                                        *)
LEMMA AppliedTrace ==
  ASSUME NEW d, d # Null, NEW plan, Len(plan) \in Nat
  PROVE  \E L : \E k \in 0 .. Len(plan) :
           /\ Trace(L, d, plan, k)
           /\ Applied(d, plan) # Null => k = Len(plan) /\ Applied(d, plan) = L[k]
           /\ Applied(d, plan) = Null => k < Len(plan) /\ Effect(L[k], plan[k + 1]) = Null
<1> DEFINE N == Len(plan)
           after == CHOOSE f : IsApplied(f, d, plan, N)
           Failed == {n \in 0 .. N : after[n] = Null}
<1>1. Applied(d, plan) = after[N]
  BY DEF Applied, IsApplied
<1>2. IsApplied(after, d, plan, N)
  BY AppliedExists
<1> HIDE DEF after, N
<1>0. N \in Nat /\ N = Len(plan)
  BY DEF N
<1>3. /\ after[0] = d
      /\ \A n \in 1 .. N : after[n] = IF after[n - 1] = Null THEN Null ELSE Effect(after[n - 1], plan[n])
  BY <1>0, <1>2 DEF IsApplied
<1>4. CASE Failed = {}
  <2>1. \A n \in 0 .. N : after[n] # Null
    BY <1>4
  <2>2. Trace(after, d, plan, N)
    <3>1. \A n \in 1 .. N : n - 1 \in 0 .. N /\ n \in 0 .. N
      BY <1>0
    <3> QED BY <1>3, <2>1, <3>1 DEF Trace
  <2>3. N \in 0 .. N
    BY <1>0
  <2> QED BY <1>0, <1>1, <2>1, <2>2, <2>3
<1>5. CASE Failed # {}
  <2>1. PICK f \in Failed : \A n \in Failed : f <= n
    <3>1. Failed \subseteq Nat
      OBVIOUS
    <3> HIDE DEF Failed
    <3> QED BY <1>5, <3>1, LeastNatural
  <2>2. f \in 1 .. N /\ f - 1 \in 0 .. N /\ f - 1 < N /\ f - 1 + 1 = f
    BY <1>0, <1>3, <2>1
  <2>3. \A n \in 0 .. f - 1 : after[n] # Null
    BY <1>0, <2>1, <2>2
  <2>4. Trace(after, d, plan, f - 1)
    <3>1. \A n \in 1 .. f - 1 : n \in 1 .. N /\ n - 1 \in 0 .. f - 1 /\ n \in 0 .. f - 1
      BY <1>0, <2>2
    <3> QED BY <1>3, <2>3, <3>1 DEF Trace
  <2>5. after[f] = Null /\ after[f - 1] # Null /\ Effect(after[f - 1], plan[f]) = Null
    <3>1. f - 1 \in 0 .. f - 1
      BY <2>2
    <3> QED BY <1>3, <2>1, <2>2, <2>3, <3>1
  <2>6. after[N] = Null
    <3> DEFINE G == {n \in Nat : after[n] = Null}
    <3>1. f \in G /\ f <= N /\ f \in Nat
      BY <1>0, <2>2, <2>5
    <3>2. \A n \in f + 1 .. N : n - 1 \in G => n \in G
      <4>1. \A n \in f + 1 .. N : n \in 1 .. N /\ n \in Nat
        BY <1>0, <2>2
      <4> QED BY <1>3, <4>1
    <3> HIDE DEF G
    <3>3. N \in G
      BY <1>0, <3>1, <3>2, Stages
    <3> QED BY <3>3 DEF G
  <2> DEFINE k == f - 1
  <2>7. k \in 0 .. N /\ k < N /\ Trace(after, d, plan, k) /\ Effect(after[k], plan[k + 1]) = Null
    BY <2>2, <2>4, <2>5
  <2> HIDE DEF k
  <2> QED BY <1>0, <1>1, <2>6, <2>7
<1> QED BY <1>4, <1>5

-----------------------------------------------------------------------------
(* k operations of a plan that was made for ledger d have been applied.    *)
Course(L, d, plan, N, k) ==
  /\ d \in Ledger /\ Homes(d) /\ RunsIndexed(d)
  /\ N \in Nat /\ k \in 0 .. N
  /\ \A n \in 1 .. N : OpType(plan[n]) /\ Needs(d, plan[n])
  /\ Trace(L, d, plan, k)

Sane(d, e) == e \in Ledger /\ Homes(e) /\ RunsIndexed(e) /\ Grows(d, e)

LEMMA NeedsOn ==
  ASSUME NEW c, NEW d, Grows(c, d), NEW o, OpType(o), Needs(c, o)
  PROVE  Needs(d, o)
  BY DEF Grows, Keeps, OpType, Needs

LEMMA EffectIsOperation ==
  ASSUME NEW d, NEW o, NEW next, next = Effect(d, o), next # Null
  PROVE  next = ApplyOperation(d, o) /\ RunsIndexed(next)
  BY DEF Effect

LEMMA CourseSane ==
  ASSUME NEW L, NEW d, NEW plan, NEW N, NEW k, Course(L, d, plan, N, k)
  PROVE  /\ \A n \in 0 .. k : Sane(d, L[n])
         /\ \A n \in 1 .. k :
              /\ L[n] = ApplyOperation(L[n - 1], plan[n]) /\ L[n] # Null
              /\ Needs(L[n - 1], plan[n]) /\ OpType(plan[n])
              /\ Grows(L[n - 1], L[n]) /\ Frame(L[n - 1], plan[n], L[n])
<1>0. N \in Nat /\ k \in 0 .. N
  BY DEF Course
<1>1. Sane(d, L[0])
  BY DEF Course, Trace, Sane, Grows, Keeps
<1>2. ASSUME NEW n \in 1 .. k, Sane(d, L[n - 1])
      PROVE  /\ Sane(d, L[n])
             /\ L[n] = ApplyOperation(L[n - 1], plan[n]) /\ L[n] # Null
             /\ Needs(L[n - 1], plan[n]) /\ OpType(plan[n])
             /\ Grows(L[n - 1], L[n]) /\ Frame(L[n - 1], plan[n], L[n])
  <2>0. n \in 1 .. N
    BY <1>0
  <2>1. OpType(plan[n]) /\ Needs(L[n - 1], plan[n])
    BY <1>2, <2>0, NeedsOn DEF Course, Sane
  <2>2. L[n] = ApplyOperation(L[n - 1], plan[n]) /\ RunsIndexed(L[n]) /\ L[n] # Null
    BY EffectIsOperation DEF Course, Trace
  <2>3. /\ L[n] \in Ledger /\ Homes(L[n]) /\ Grows(L[n - 1], L[n])
        /\ Frame(L[n - 1], plan[n], L[n])
    BY <1>2, <2>1, <2>2, OperationGrows DEF Sane
  <2>4. Grows(d, L[n])
    BY <1>2, <2>3, GrowsOn DEF Sane
  <2> QED BY <2>1, <2>2, <2>3, <2>4 DEF Sane
<1>3. ASSUME NEW n \in 0 .. k PROVE Sane(d, L[n])
  <2> DEFINE G == {i \in 0 .. k : Sane(d, L[i])}
  <2>1. 0 \in G
    BY <1>0, <1>1
  <2>2. \A i \in 0 + 1 .. n : i - 1 \in G => i \in G
    <3>1. \A i \in 0 + 1 .. n : i \in 1 .. k /\ i \in 0 .. k
      BY <1>0
    <3> QED BY <1>2, <3>1
  <2> HIDE DEF G
  <2>3. n \in G
    BY <2>1, <2>2, Stages
  <2> QED BY <2>3 DEF G
<1>4. \A n \in 1 .. k : n - 1 \in 0 .. k
  BY <1>0
<1> QED BY <1>2, <1>3, <1>4

LEMMA CourseGrows ==
  ASSUME NEW L, NEW d, NEW plan, NEW N, NEW k, Course(L, d, plan, N, k),
         NEW a \in 0 .. k, NEW b \in 0 .. k, a <= b
  PROVE  Grows(L[a], L[b])
<1> DEFINE G == {n \in Nat : Grows(L[a], L[n])}
<1>0. k \in Nat /\ a \in Nat /\ b \in Nat
  BY DEF Course
<1>1. a \in G
  BY <1>0 DEF Grows, Keeps
<1>2. ASSUME NEW n \in a + 1 .. b, n - 1 \in G PROVE n \in G
  <2>1. n \in 1 .. k /\ n \in Nat
    BY <1>0
  <2>2. Grows(L[n - 1], L[n])
    BY <2>1, CourseSane
  <2> QED BY <1>2, <2>1, <2>2, GrowsOn
<1> HIDE DEF G
<1>3. b \in G
  BY <1>0, <1>1, <1>2, Stages
<1> QED BY <1>3 DEF G

-----------------------------------------------------------------------------
LEMMA PlanRowKind ==
  ASSUME NEW d, NEW row \in Row, NEW new
  PROVE  LET o == PlanRow(d, row, new) IN
         /\ o.action \in DOMAIN Rank /\ o.section = row.section /\ o.section \in DOMAIN Section
         /\ Unnamed(d, row) => o.id = new
<1> DEFINE o == PlanRow(d, row, new)
<1>1. row.section \in DOMAIN Section
  BY RowKinds DEF Section
<1>2. {"insert", "update", "sync_event", "noop", "archive", "refused"} = DOMAIN Rank
  BY DEF Rank
<1>3. CASE row.section = "runs"
  <2> DEFINE known == FindRun(d, row) # {}
             r == IF known THEN CHOOSE s \in FindRun(d, row) : TRUE ELSE Either(row.id, new)
             planned == Filled(row, IF known THEN d.runs[r].attrs ELSE {})
  <2>1. o = RunOperation(d, row, new)
    BY <1>3 DEF PlanRow
  <2>2. Unnamed(d, row) => r = new
    BY DEF Unnamed, Either
  <2>3. CASE row.op = "archive"
    <3>1. o = ArchiveOperation(row, r, known, known /\ d.runs[r].archived)
      BY <2>1, <2>3 DEF RunOperation
    <3> HIDE DEF o, known, r
    <3>2. o.section = row.section /\ o.id = r /\ o.action \in {"refused", "noop", "archive"}
      BY <3>1, OperationFields DEF ArchiveOperation
    <3> QED BY <1>1, <1>2, <2>2, <3>2 DEF o
  <2>4. CASE row.op # "archive"
    <3> DEFINE action == IF row.exp # Null /\ ~ActiveExperiment(d, row.exp) THEN "refused"
                         ELSE IF ~known THEN "insert"
                         ELSE IF RunDiffers(d, r, row) THEN "update" ELSE "noop"
    <3>1. o = Operation("runs", action, r, planned)
      BY <2>1, <2>4 DEF RunOperation
    <3>2. action \in {"refused", "insert", "update", "noop"}
      OBVIOUS
    <3> HIDE DEF o, known, r, planned, action
    <3>3. o.section = "runs" /\ o.id = r /\ o.action = action
      BY <3>1, OperationFields
    <3> QED BY <1>1, <1>2, <1>3, <2>2, <3>2, <3>3 DEF o
  <2> QED BY <2>3, <2>4
<1>4. CASE row.section = "job_runs"
  <2>1. o = EdgeOperation(d, row)
    BY <1>4 DEF PlanRow
  <2>2. o.section = row.section /\ o.action \in {"refused", "insert", "update", "noop", "archive"}
    BY <1>4, <2>1 DEF EdgeOperation, ArchiveOperation, Operation
  <2> QED BY <1>1, <1>2, <1>4, <2>2 DEF Unnamed
<1>5. CASE row.section = "custom_attributes"
  <2>1. o = AttrsOperation(d, row)
    BY <1>5 DEF PlanRow
  <2>2. o.section = row.section /\ o.action \in {"refused", "update", "noop"}
    BY <1>5, <2>1, OperationFields DEF AttrsOperation
  <2> QED BY <1>1, <1>2, <1>5, <2>2 DEF Unnamed
<1>6. CASE row.section = "sync_events"
  <2>1. o = SyncOperation(d, row)
    BY <1>6 DEF PlanRow
  <2>2. o.section = row.section /\ o.action \in {"sync_event", "noop"}
    BY <1>6, <2>1, OperationFields DEF SyncOperation
  <2> QED BY <1>1, <1>2, <1>6, <2>2 DEF Unnamed
<1> QED BY <1>3, <1>4, <1>5, <1>6, RowKinds

-----------------------------------------------------------------------------
(* Rows, the operation that is planned for each, and the operations in     *)
(* their order: no ids are new but those of runs, one for each.            *)
Planning(rows, operations, place, plan) ==
  LET N == Len(rows) IN
  /\ rows \in Seq(Row) /\ N \in Nat /\ DOMAIN rows = 1 .. N /\ AllApart(rows)
  /\ \A i \in 1 .. N : rows[i] \in Row /\ OpFits(db, rows[i], operations[i])
  /\ \A i, j \in 1 .. N :
       Unnamed(db, rows[i]) =>
         /\ rows[j].section = "runs" => rows[j].id # operations[i].id
         /\ Unnamed(db, rows[j]) /\ i # j => operations[j].id # operations[i].id
  /\ place \in [1 .. N -> 1 .. N]
  /\ \A i, j \in 1 .. N : i < j => Before(operations, place[i], place[j])
  /\ \A i, j \in 1 .. N : place[i] = place[j] => i = j
  /\ \A j \in 1 .. N : \E i \in 1 .. N : place[i] = j
  /\ plan = [n \in 1 .. N |-> operations[place[n]]]

(* Any outcome is that of a planning in which no row is refused.           *)
LEMMA OutcomePlan ==
  ASSUME db \in Ledger, RunsIndexed(db), NEW m \in Manifest, NEW d \in Outcomes(m)
  PROVE  \E operations, place, plan :
           Planning(PlannedRows(m), operations, place, plan) /\ d = Applied(db, plan)
<1> DEFINE rows == PlannedRows(m)
           N == Len(rows)
<1>1. rows \in Seq(Row) /\ AllApart(rows)
  BY PlannedRowsFit
<1> HIDE DEF rows
<1>2. N \in Nat /\ DOMAIN rows = 1 .. N /\ \A i \in 1 .. N : rows[i] \in Row
  BY <1>1
<1>3. PICK new \in NewIds(db, rows) : Accepted(Plan(db, rows, new)) /\ d = Applied(db, Plan(db, rows, new))
  BY DEF Outcomes, rows
<1> DEFINE ask(i) == IF i \in DOMAIN new THEN new[i] ELSE Null
           operations == [i \in DOMAIN rows |-> PlanRow(db, rows[i], ask(i))]
           unnamed == {i \in DOMAIN rows : Unnamed(db, rows[i])}
           fresh == {r \in Runs : db.runs[r] = Null /\ \A i \in DOMAIN rows :
                                rows[i].section = "runs" => rows[i].id # r}
<1>4. Plan(db, rows, new) = InOrder(operations)
  BY DEF Plan
<1>5. new \in [unnamed -> fresh] /\ \A i, j \in unnamed : new[i] = new[j] => i = j
  BY DEF NewIds
<1>6. \A i \in 1 .. N : i \in unnamed <=> Unnamed(db, rows[i])
  BY <1>2
<1>7. ASSUME NEW i \in 1 .. N, Unnamed(db, rows[i])
      PROVE  ask(i) \in fresh /\ ask(i) = new[i] /\ i \in unnamed
  BY <1>5, <1>6, <1>7
<1> HIDE DEF ask, unnamed
<1>8. \A i \in 1 .. N : operations[i] = PlanRow(db, rows[i], ask(i))
  BY <1>2
<1>9. DOMAIN operations = 1 .. N
  BY <1>2
<1> HIDE DEF operations, N
<1>10. ASSUME NEW i \in 1 .. N
       PROVE  /\ operations[i].action \in DOMAIN Rank /\ operations[i].section \in DOMAIN Section
              /\ Unnamed(db, rows[i]) => operations[i].id = ask(i)
  BY <1>2, <1>8, PlanRowKind
<1>11. Ordered(operations, N)
  BY <1>2, <1>9, <1>10 DEF Ordered
<1>12. PICK place \in [1 .. N -> 1 .. N] :
           /\ InOrder(operations) = [i \in 1 .. N |-> operations[place[i]]]
           /\ \A i, j \in 1 .. N : i < j => Before(operations, place[i], place[j])
           /\ \A i, j \in 1 .. N : place[i] = place[j] => i = j
           /\ \A j \in 1 .. N : \E i \in 1 .. N : place[i] = j
  BY <1>11, InOrderPlaces
<1> DEFINE plan == [i \in 1 .. N |-> operations[place[i]]]
<1>13. \A i \in 1 .. N : operations[i].action # "refused"
  <2>1. Actions(plan) = {operations[place[i]].action : i \in 1 .. N}
    BY DEF Actions
  <2>2. "refused" \notin Actions(plan)
    BY <1>3, <1>4, <1>12 DEF Accepted
  <2> HIDE DEF plan
  <2> QED BY <1>12, <2>1, <2>2
<1>14. ASSUME NEW i \in 1 .. N PROVE OpFits(db, rows[i], operations[i])
  <2>1. Unnamed(db, rows[i]) => ask(i) \in Runs /\ db.runs[ask(i)] = Null
    BY <1>7
  <2>2. PlanRow(db, rows[i], ask(i)).action # "refused" /\ rows[i] \in Row
    BY <1>2, <1>8, <1>13
  <2>3. OpFits(db, rows[i], PlanRow(db, rows[i], ask(i)))
    BY <2>1, <2>2, RowOperationFits
  <2> QED BY <1>8, <2>3
<1>15. ASSUME NEW i \in 1 .. N, NEW j \in 1 .. N, Unnamed(db, rows[i])
       PROVE  /\ rows[j].section = "runs" => rows[j].id # operations[i].id
              /\ Unnamed(db, rows[j]) /\ i # j => operations[j].id # operations[i].id
  <2>1. operations[i].id = ask(i) /\ ask(i) \in fresh /\ ask(i) = new[i] /\ i \in unnamed
    BY <1>7, <1>10, <1>15
  <2>2. Unnamed(db, rows[j]) => operations[j].id = new[j] /\ j \in unnamed
    BY <1>7, <1>10
  <2> QED BY <1>2, <1>5, <2>1, <2>2
<1>16. Planning(rows, operations, place, plan)
  BY <1>1, <1>2, <1>12, <1>14, <1>15 DEF Planning, N
<1>17. d = Applied(db, plan)
  BY <1>3, <1>4, <1>12
<1> QED BY <1>16, <1>17 DEF rows

(* The operation at place n of the plan.                                   *)
LEMMA PlanningParts ==
  ASSUME db \in Ledger, RunsIndexed(db), NEW rows, NEW operations, NEW place, NEW plan,
         Planning(rows, operations, place, plan)
  PROVE  /\ Len(rows) \in Nat /\ Len(plan) = Len(rows) /\ DOMAIN rows = 1 .. Len(rows)
         /\ \A n \in 1 .. Len(rows) :
              /\ place[n] \in 1 .. Len(rows) /\ plan[n] = operations[place[n]]
              /\ OpType(plan[n]) /\ Needs(db, plan[n])
         /\ \A i \in 1 .. Len(rows) : rows[i] \in Row /\ OpFits(db, rows[i], operations[i])
<1> DEFINE N == Len(rows)
<1>1. /\ N \in Nat /\ DOMAIN rows = 1 .. N /\ place \in [1 .. N -> 1 .. N]
      /\ plan = [n \in 1 .. N |-> operations[place[n]]]
      /\ \A i \in 1 .. N : rows[i] \in Row /\ OpFits(db, rows[i], operations[i])
  BY DEF Planning
<1> HIDE DEF N
<1>2. Len(plan) = N
  BY <1>1
<1>3. ASSUME NEW n \in 1 .. N
      PROVE  /\ place[n] \in 1 .. N /\ plan[n] = operations[place[n]]
             /\ OpType(plan[n]) /\ Needs(db, plan[n])
  <2>1. place[n] \in 1 .. N /\ plan[n] = operations[place[n]]
    BY <1>1
  <2>2. rows[place[n]] \in Row /\ OpFits(db, rows[place[n]], operations[place[n]])
    BY <1>1, <2>1
  <2> QED BY <2>1, <2>2, FitsType
<1> QED BY <1>1, <1>2, <1>3 DEF N

-----------------------------------------------------------------------------
LEMMA AttrsAdded ==
  ASSUME NEW d \in Ledger, NEW o, o.id \in Runs, d.runs[o.id] # Null,
         o.section = "custom_attributes", o.action = "update", o.row \in AttrsRow,
         NEW next, next = ApplyOperation(d, o)
  PROVE  LET old == d.runs[o.id]  run == next.runs[o.id] IN
         /\ run \in Run
         /\ run.home = old.home /\ run.key = old.key /\ run.external = old.external
         /\ run.archived = old.archived /\ run.attrs = old.attrs \cup o.row.attrs
<1>1. LET old == d.runs[o.id]  run == next.runs[o.id] IN
         /\ next \in Ledger /\ next # Null
         /\ next.runs = [d.runs EXCEPT ![o.id] = run] /\ run \in Run /\ old \in Run
         /\ run.home = old.home /\ run.key = old.key /\ run.external = old.external
         /\ o.section = "runs" => run.archived /\ run.attrs = old.attrs
         /\ o.section # "runs" => run.archived = old.archived /\ run.attrs = old.attrs \cup o.row.attrs
         /\ next.links = d.links
         /\ next.experiments = d.experiments /\ next.edges = d.edges /\ next.syncs = d.syncs
  BY RunKept
<1> QED BY <1>1

LEMMA OutcomeCourse ==
  ASSUME db \in Ledger, Homes(db), RunsIndexed(db), NEW m \in Manifest, NEW d \in Outcomes(m)
  PROVE  \E operations, place, plan, L : \E k \in 0 .. Len(PlannedRows(m)) :
           /\ Planning(PlannedRows(m), operations, place, plan)
           /\ Course(L, db, plan, Len(PlannedRows(m)), k)
           /\ d # Null => k = Len(PlannedRows(m)) /\ d = L[k]
           /\ d = Null => k < Len(PlannedRows(m)) /\ Effect(L[k], plan[k + 1]) = Null
<1> DEFINE rows == PlannedRows(m)
           N == Len(rows)
<1> HIDE DEF rows
<1>1. PICK operations, place, plan : Planning(rows, operations, place, plan) /\ d = Applied(db, plan)
  BY OutcomePlan DEF rows
<1>2. /\ N \in Nat /\ Len(plan) = N
      /\ \A n \in 1 .. N : OpType(plan[n]) /\ Needs(db, plan[n])
  BY <1>1, PlanningParts
<1>3. db # Null
  BY NullFieldAssumption
<1>4. PICK L : \E k \in 0 .. Len(plan) :
           /\ Trace(L, db, plan, k)
           /\ Applied(db, plan) # Null => k = Len(plan) /\ Applied(db, plan) = L[k]
           /\ Applied(db, plan) = Null => k < Len(plan) /\ Effect(L[k], plan[k + 1]) = Null
  BY <1>2, <1>3, AppliedTrace
<1>5. PICK k \in 0 .. N :
           /\ Trace(L, db, plan, k)
           /\ d # Null => k = N /\ d = L[k]
           /\ d = Null => k < N /\ Effect(L[k], plan[k + 1]) = Null
  BY <1>1, <1>2, <1>4
<1>6. Course(L, db, plan, N, k)
  BY <1>2, <1>5 DEF Course
<1> QED BY <1>1, <1>5, <1>6 DEF rows

(* Whatever a manifest makes of the ledger, it may be committed.           *)
LEMMA OutcomeSane ==
  ASSUME db \in Ledger, Homes(db), RunsIndexed(db), NEW m \in Manifest, NEW d \in Outcomes(m), d # Null
  PROVE  Sane(db, d)
<1>1. PICK operations, place, plan, L : \E k \in 0 .. Len(PlannedRows(m)) :
           /\ Planning(PlannedRows(m), operations, place, plan)
           /\ Course(L, db, plan, Len(PlannedRows(m)), k)
           /\ d # Null => k = Len(PlannedRows(m)) /\ d = L[k]
           /\ d = Null => k < Len(PlannedRows(m)) /\ Effect(L[k], plan[k + 1]) = Null
  BY OutcomeCourse
<1>2. PICK k \in 0 .. Len(PlannedRows(m)) : Course(L, db, plan, Len(PlannedRows(m)), k) /\ d = L[k]
  BY <1>1
<1>3. k \in 0 .. k
  BY <1>2 DEF Course
<1> QED BY <1>2, <1>3, CourseSane

-----------------------------------------------------------------------------
(* What no operation of a stretch of the plan is for stays as it is.       *)
LEMMA EdgeStays ==
  ASSUME NEW L, NEW d, NEW plan, NEW N, NEW k, Course(L, d, plan, N, k),
         NEW a \in 0 .. k, NEW b \in 0 .. k, a <= b, NEW pair \in Jobs \X Runs,
         \A n \in a + 1 .. b : ~ ForEdge(plan[n], pair)
  PROVE  L[b].edges[pair] = L[a].edges[pair]
<1> DEFINE G == {n \in Nat : L[n].edges[pair] = L[a].edges[pair]}
<1>0. k \in Nat /\ a \in Nat /\ b \in Nat /\ a \in G
  BY DEF Course
<1>1. ASSUME NEW n \in a + 1 .. b, n - 1 \in G PROVE n \in G
  <2>1. n \in 1 .. k /\ n \in Nat
    BY <1>0
  <2>2. Frame(L[n - 1], plan[n], L[n])
    BY <2>1, CourseSane
  <2> QED BY <1>1, <2>1, <2>2 DEF Frame
<1> HIDE DEF G
<1>2. b \in G
  BY <1>0, <1>1, Stages
<1> QED BY <1>2 DEF G

LEMMA RunStays ==
  ASSUME NEW L, NEW d, NEW plan, NEW N, NEW k, Course(L, d, plan, N, k),
         NEW a \in 0 .. k, NEW b \in 0 .. k, a <= b, NEW r \in Runs,
         \A n \in a + 1 .. b : ~ ForRun(plan[n], r)
  PROVE  L[b].runs[r] = L[a].runs[r]
<1> DEFINE G == {n \in Nat : L[n].runs[r] = L[a].runs[r]}
<1>0. k \in Nat /\ a \in Nat /\ b \in Nat /\ a \in G
  BY DEF Course
<1>1. ASSUME NEW n \in a + 1 .. b, n - 1 \in G PROVE n \in G
  <2>1. n \in 1 .. k /\ n \in Nat
    BY <1>0
  <2>2. Frame(L[n - 1], plan[n], L[n])
    BY <2>1, CourseSane
  <2> QED BY <1>1, <2>1, <2>2 DEF Frame
<1> HIDE DEF G
<1>2. b \in G
  BY <1>0, <1>1, Stages
<1> QED BY <1>2 DEF G

(* A run to which at most attributes have been added.                      *)
Alike(old, run) ==
  /\ run = Null <=> old = Null
  /\ old # Null =>
       /\ run.home = old.home /\ run.key = old.key /\ run.external = old.external
       /\ run.archived = old.archived /\ old.attrs \subseteq run.attrs

IsRunRow(o, r) == o.section = "runs" /\ o.id = r

LEMMA RunAlike ==
  ASSUME NEW L, NEW d, NEW plan, NEW N, NEW k, Course(L, d, plan, N, k),
         NEW a \in 0 .. k, NEW b \in 0 .. k, a <= b, NEW r \in Runs,
         \A n \in a + 1 .. b : ~ IsRunRow(plan[n], r)
  PROVE  Alike(L[a].runs[r], L[b].runs[r])
<1> DEFINE G == {n \in Nat : Alike(L[a].runs[r], L[n].runs[r])}
<1>0. k \in Nat /\ a \in Nat /\ b \in Nat
  BY DEF Course
<1>1. a \in G
  BY <1>0 DEF Alike
<1>2. ASSUME NEW n \in a + 1 .. b, n - 1 \in G PROVE n \in G
  <2> DEFINE o == plan[n]
             old == L[n - 1].runs[r]
             run == L[n].runs[r]
  <2>1. n \in 1 .. k /\ n - 1 \in 0 .. k /\ n \in Nat /\ ~ IsRunRow(o, r)
    BY <1>0
  <2>2. /\ Frame(L[n - 1], o, L[n]) /\ L[n - 1] \in Ledger /\ L[n] # Null
        /\ L[n] = ApplyOperation(L[n - 1], o) /\ OpType(o) /\ Needs(L[n - 1], o)
    BY <2>1, CourseSane DEF Sane
  <2>3. Alike(old, run)
    <3>1. CASE ~ ForRun(o, r)
      <4>1. run = old
        BY <2>2, <3>1 DEF Frame
      <4> QED BY <4>1 DEF Alike
    <3>2. CASE o.action = "noop"
      <4>1. L[n] = L[n - 1]
        BY <2>2, <3>2 DEF ApplyOperation
      <4> QED BY <4>1 DEF Alike
    <3>3. CASE ForRun(o, r) /\ o.action # "noop"
      <4>1. o.section = "custom_attributes" /\ o.id = r
        BY <2>1, <3>3 DEF ForRun, IsRunRow
      <4>2. o.action = "update" /\ o.row \in AttrsRow
        BY <2>2, <3>3, <4>1 DEF OpType
      <4>3. old # Null
        BY <2>2, <4>1, <4>2 DEF Needs
      <4>4. /\ run \in Run /\ run.home = old.home /\ run.key = old.key /\ run.external = old.external
            /\ run.archived = old.archived /\ run.attrs = old.attrs \cup o.row.attrs
        <5> DEFINE c == L[n - 1]  e == L[n]
        <5>1. c \in Ledger /\ e = ApplyOperation(c, o) /\ o.id \in Runs /\ c.runs[o.id] # Null
          BY <2>2, <4>1, <4>3
        <5> HIDE DEF c, e, o
        <5>2. LET was == c.runs[o.id]  is == e.runs[o.id] IN
              /\ is \in Run
              /\ is.home = was.home /\ is.key = was.key /\ is.external = was.external
              /\ is.archived = was.archived /\ is.attrs = was.attrs \cup o.row.attrs
          BY <4>1, <4>2, <5>1, AttrsAdded
        <5> QED BY <4>1, <5>2 DEF c, e
      <4>5. run # Null
        BY <4>4, NullAssumption
      <4> HIDE DEF old, run, o
      <4> QED BY <4>3, <4>4, <4>5 DEF Alike
    <3> QED BY <3>1, <3>2, <3>3
  <2>4. Alike(L[a].runs[r], old)
    BY <1>2
  <2> HIDE DEF old, run, o
  <2>5. Alike(L[a].runs[r], run)
    BY <2>3, <2>4 DEF Alike
  <2> QED BY <2>1, <2>5 DEF run
<1> HIDE DEF G
<1>3. b \in G
  BY <1>0, <1>1, <1>2, Stages
<1> QED BY <1>3 DEF G

(* A sync event is there because a row of the manifest brought it.         *)
LEMMA SyncStays ==
  ASSUME NEW L, NEW d, NEW plan, NEW N, NEW k, Course(L, d, plan, N, k), NEW key, key \notin d.syncs,
         \A n \in 1 .. k : plan[n].section = "sync_events" => plan[n].row.key # key
  PROVE  key \notin L[k].syncs
<1> DEFINE G == {n \in Nat : key \notin L[n].syncs}
<1>0. k \in Nat /\ 0 \in G
  BY DEF Course, Trace
<1>1. ASSUME NEW n \in 0 + 1 .. k, n - 1 \in G PROVE n \in G
  <2> DEFINE o == plan[n]
  <2>1. n \in 1 .. k /\ n - 1 \in 0 .. k /\ n \in Nat
    BY <1>0
  <2>2. /\ Frame(L[n - 1], o, L[n]) /\ L[n - 1] \in Ledger /\ L[n] # Null
        /\ L[n] = ApplyOperation(L[n - 1], o) /\ OpType(o)
    BY <2>1, CourseSane DEF Sane
  <2>3. CASE o.action = "noop"
    BY <1>1, <2>1, <2>2, <2>3 DEF ApplyOperation
  <2>4. CASE o.section # "sync_events"
    BY <1>1, <2>1, <2>2, <2>4 DEF Frame
  <2>5. CASE o.section = "sync_events" /\ o.action # "noop"
    <3>1. o.action = "sync_event" /\ o.row \in SyncRow /\ o.row.key # key
      BY <2>1, <2>2, <2>5 DEF OpType
    <3>2. L[n].syncs = L[n - 1].syncs \cup ({o.row.key} \ {Null})
      BY <2>2, <2>5, <3>1, SyncEffect
    <3> QED BY <1>1, <2>1, <3>1, <3>2
  <2> QED BY <2>3, <2>4, <2>5
<1> HIDE DEF G
<1>2. k \in G
  BY <1>0, <1>1, Stages
<1> QED BY <1>2 DEF G

-----------------------------------------------------------------------------
(* Why a statement fails.                                                  *)
LEMMA FailsAt ==
  ASSUME NEW d \in Ledger, NEW o, OpType(o), Needs(d, o), ApplyOperation(d, o) = Null
  PROVE  \/ o.section = "runs" /\ o.action = "insert" /\ d.runs[o.id] # Null
         \/ /\ o.section = "job_runs" /\ o.action = "insert"
            /\ d.edges[o.id] # Null \/ d.runs[o.id[2]] = Null
         \/ o.section = "sync_events" /\ o.action = "sync_event" /\ o.row.key \in d.syncs
<1> DEFINE next == ApplyOperation(d, o)
<1>0. d # Null /\ \A e \in Ledger : e # Null
  BY NullFieldAssumption
<1>1. CASE o.action = "noop"
  BY <1>0, <1>1 DEF ApplyOperation
<1>2. CASE o.section = "runs" /\ o.action = "insert"
  <2>1. next = ApplyRun(d, o) /\ o.row \in RunRow /\ o.row.attrs # Null /\ o.id \in Runs
    BY <1>2 DEF ApplyOperation, OpType
  <2>2. d.runs[o.id] = Null => next = WithRun(d, o.id, WrittenRun(d, o), o.row.exp)
    BY <1>2, <2>1 DEF ApplyRun, WrittenRun
  <2>3. /\ o.row.exp \in Experiments \cup {Null} /\ o.row.key \in Keys \cup {Null}
        /\ o.row.external \in Externals \cup {Null} /\ o.row.attrs \in SUBSET Attrs
    BY <2>1, RunRowFields
  <2>4. WrittenRun(d, o) \in Run
    <3>1. NewRun(o.row.exp, o.row.key, o.row.external, o.row.attrs) \in Run
      BY <2>3, NewRunFields
    <3> QED BY <1>2, <3>1 DEF WrittenRun
  <2>5. WithRun(d, o.id, WrittenRun(d, o), o.row.exp) \in Ledger
    BY <2>1, <2>3, <2>4, WithRunParts
  <2> QED BY <1>0, <1>2, <2>2, <2>5
<1>3. CASE o.section = "runs" /\ o.action = "update"
  <2>1. next = ApplyRun(d, o) /\ o.row \in RunRow /\ o.row.attrs # Null /\ o.id \in Runs
    BY <1>3 DEF ApplyOperation, OpType
  <2>2. next = WithRun(d, o.id, WrittenRun(d, o), o.row.exp)
    BY <1>3, <2>1 DEF ApplyRun, WrittenRun
  <2>3. /\ o.row.exp \in Experiments \cup {Null} /\ o.row.key \in Keys \cup {Null}
        /\ o.row.external \in Externals \cup {Null} /\ o.row.attrs \in SUBSET Attrs
    BY <2>1, RunRowFields
  <2>4. d.runs[o.id] \in Run
    BY <1>3, <2>1, LedgerParts DEF Needs
  <2>5. WrittenRun(d, o) \in Run
    BY <1>3, <2>3, <2>4, UpdatedRunFields DEF WrittenRun
  <2>6. WithRun(d, o.id, WrittenRun(d, o), o.row.exp) \in Ledger
    BY <2>1, <2>3, <2>5, WithRunParts
  <2> QED BY <1>0, <2>2, <2>6
<1>4. CASE \/ o.section = "runs" /\ o.action = "archive"
           \/ o.section = "custom_attributes" /\ o.action = "update" /\ o.row \in AttrsRow
  <2>1. o.id \in Runs /\ d.runs[o.id] # Null
    BY <1>4 DEF OpType, Needs
  <2>2. next # Null
    BY <1>4, <2>1, RunKept
  <2> QED BY <2>2
<1>5. CASE o.section = "job_runs" /\ o.action = "archive"
  <2>1. o.id \in Jobs \X Runs /\ d.edges[o.id] \in Edge
    BY <1>5, LedgerParts DEF OpType, Needs
  <2> DEFINE edge == [d.edges[o.id] EXCEPT !.archived = TRUE]
  <2>2. next = [d EXCEPT !.edges[o.id] = edge]
    BY <1>5 DEF ApplyOperation, ApplyArchive
  <2>3. edge \in Edge
    BY <2>1 DEF Edge
  <2> HIDE DEF edge
  <2>4. [d EXCEPT !.edges[o.id] = edge] \in Ledger
    BY <2>1, <2>3 DEF Ledger
  <2> QED BY <1>0, <2>2, <2>4
<1>6. CASE o.section = "job_runs" /\ o.action \in {"insert", "update"}
  <2>1. o.id \in Jobs \X Runs /\ o.row \in EdgeRow /\ (o.action = "update" => d.edges[o.id] \in Edge)
    BY <1>6, LedgerParts DEF OpType, Needs
  <2> DEFINE role == IF o.action = "insert" THEN o.row.role ELSE d.edges[o.id].role
             edge == [role |-> role, status |-> o.row.status, archived |-> FALSE]
  <2>2. edge \in Edge
    BY <1>6, <2>1 DEF Edge, EdgeRow
  <2>3. \/ next = [d EXCEPT !.edges[o.id] = edge]
        \/ o.action = "insert" /\ (d.edges[o.id] # Null \/ d.runs[o.id[2]] = Null)
    BY <1>6 DEF ApplyOperation, ApplyEdge, WithEdge
  <2> HIDE DEF edge
  <2>4. [d EXCEPT !.edges[o.id] = edge] \in Ledger
    BY <2>1, <2>2 DEF Ledger
  <2> QED BY <1>0, <1>6, <2>3, <2>4
<1>7. CASE o.section = "sync_events" /\ o.action = "sync_event"
  <2>1. next = ApplySync(d, o) /\ o.row \in SyncRow
    BY <1>7 DEF ApplyOperation, OpType
  <2> DEFINE syncs == d.syncs \cup ({o.row.key} \ {Null})
  <2>2. o.row.key \in d.syncs \/ next = [d EXCEPT !.syncs = syncs]
    BY <2>1 DEF ApplySync
  <2>3. syncs \in SUBSET SyncKeys
    BY <2>1, LedgerParts DEF SyncRow
  <2> HIDE DEF syncs
  <2>4. [d EXCEPT !.syncs = syncs] \in Ledger
    BY <2>3 DEF Ledger
  <2> QED BY <1>0, <1>7, <2>2, <2>4
<1> QED BY <1>1, <1>2, <1>3, <1>4, <1>5, <1>6, <1>7 DEF OpType

-----------------------------------------------------------------------------
(* A planning, of which k operations have been applied.                    *)
Underway(rows, operations, place, plan, L, k) ==
  Planning(rows, operations, place, plan) /\ Course(L, db, plan, Len(rows), k)

LEMMA UnderwayParts ==
  ASSUME NEW rows, NEW operations, NEW place, NEW plan, NEW L, NEW k,
         Underway(rows, operations, place, plan, L, k)
  PROVE  /\ db \in Ledger /\ Homes(db) /\ RunsIndexed(db) /\ L[0] = db
         /\ Len(rows) \in Nat /\ k \in 0 .. Len(rows) /\ DOMAIN rows = 1 .. Len(rows)
         /\ \A n \in 1 .. Len(rows) :
              /\ place[n] \in 1 .. Len(rows) /\ plan[n] = operations[place[n]]
              /\ OpType(plan[n]) /\ Needs(db, plan[n])
         /\ \A i \in 1 .. Len(rows) :
              /\ rows[i] \in Row /\ OpFits(db, rows[i], operations[i])
              /\ OpType(operations[i]) /\ Needs(db, operations[i])
              /\ operations[i].section = rows[i].section
         /\ \A n, q \in 1 .. Len(rows) : place[n] = place[q] => n = q
         /\ \A i \in 1 .. Len(rows) : \E n \in 1 .. Len(rows) : place[n] = i
         /\ \A n, q \in 1 .. Len(rows) : n < q => Before(operations, place[n], place[q])
<1>1. db \in Ledger /\ Homes(db) /\ RunsIndexed(db) /\ L[0] = db /\ k \in 0 .. Len(rows)
  BY DEF Underway, Course, Trace
<1>2. /\ Len(rows) \in Nat /\ DOMAIN rows = 1 .. Len(rows)
      /\ \A n \in 1 .. Len(rows) :
              /\ place[n] \in 1 .. Len(rows) /\ plan[n] = operations[place[n]]
              /\ OpType(plan[n]) /\ Needs(db, plan[n])
      /\ \A i \in 1 .. Len(rows) : rows[i] \in Row /\ OpFits(db, rows[i], operations[i])
  BY <1>1, PlanningParts DEF Underway
<1>3. /\ \A n, q \in 1 .. Len(rows) : place[n] = place[q] => n = q
      /\ \A i \in 1 .. Len(rows) : \E n \in 1 .. Len(rows) : place[n] = i
      /\ \A n, q \in 1 .. Len(rows) : n < q => Before(operations, place[n], place[q])
  BY DEF Underway, Planning
<1>4. ASSUME NEW i \in 1 .. Len(rows)
      PROVE  OpType(operations[i]) /\ Needs(db, operations[i]) /\ operations[i].section = rows[i].section
  <2>1. OpType(operations[i]) /\ Needs(db, operations[i])
    BY <1>1, <1>2, FitsType
  <2>2. operations[i].section = rows[i].section
    BY <1>2, RowKinds DEF OpFits, RunFits, EdgeFits, AttrsFits, SyncFits
  <2> QED BY <2>1, <2>2
<1> QED BY <1>1, <1>2, <1>3, <1>4

LEMMA UnderwayLedger ==
  ASSUME NEW rows, NEW operations, NEW place, NEW plan, NEW L, NEW k,
         Underway(rows, operations, place, plan, L, k)
  PROVE  /\ db \in Ledger /\ Homes(db) /\ RunsIndexed(db) /\ L[0] = db
         /\ Len(rows) \in Nat /\ k \in 0 .. Len(rows) /\ DOMAIN rows = 1 .. Len(rows)
<1>1. db \in Ledger /\ Homes(db) /\ RunsIndexed(db) /\ L[0] = db /\ k \in 0 .. Len(rows)
  BY DEF Underway, Course, Trace
<1>2. Len(rows) \in Nat /\ DOMAIN rows = 1 .. Len(rows)
  BY DEF Underway, Planning
<1> QED BY <1>1, <1>2

LEMMA UnderwayRow ==
  ASSUME NEW rows, NEW operations, NEW place, NEW plan, NEW L, NEW k,
         Underway(rows, operations, place, plan, L, k), NEW i \in 1 .. Len(rows)
  PROVE  /\ rows[i] \in Row /\ OpFits(db, rows[i], operations[i])
         /\ OpType(operations[i]) /\ Needs(db, operations[i])
         /\ operations[i].section = rows[i].section
<1>1. rows[i] \in Row /\ OpFits(db, rows[i], operations[i])
  BY DEF Underway, Planning
<1>2. OpType(operations[i]) /\ Needs(db, operations[i])
  BY <1>1, UnderwayLedger, FitsType
<1>3. operations[i].section = rows[i].section
  BY <1>1, RowKinds DEF OpFits, RunFits, EdgeFits, AttrsFits, SyncFits
<1> QED BY <1>1, <1>2, <1>3

LEMMA UnderwayPlace ==
  ASSUME NEW rows, NEW operations, NEW place, NEW plan, NEW L, NEW k,
         Underway(rows, operations, place, plan, L, k), NEW n \in 1 .. Len(rows)
  PROVE  /\ place[n] \in 1 .. Len(rows) /\ plan[n] = operations[place[n]]
         /\ \A q \in 1 .. Len(rows) : q # n => place[q] # place[n]
<1>1. place[n] \in 1 .. Len(rows) /\ plan[n] = operations[place[n]]
  BY DEF Underway, Planning
<1>2. \A q \in 1 .. Len(rows) : q # n => place[q] # place[n]
  BY DEF Underway, Planning
<1> QED BY <1>1, <1>2

(* The operation for a row of a run.                                       *)
RunPlanned(row, o) ==
  /\ row \in RunRow /\ row.section = "runs" /\ RunFits(db, row, o) /\ o.id \in Runs
  /\ FindRun(db, row) = {} \/ (FindRun(db, row) = {o.id} /\ db.runs[o.id] # Null)
  /\ FindRun(db, row) = {} <=> o.action = "insert"
  /\ o.action = "insert" => db.runs[o.id] = Null /\ row.op # "archive"
  /\ o.action = "update" => row.op # "archive"
  /\ Aim(row) \subseteq {o.id}
  /\ o.action # "insert" \/ row.id # Null => Aim(row) = {o.id}
  /\ o.action = "insert" /\ row.id # Null => row.id = o.id

LEMMA RunOperationOf ==
  ASSUME NEW rows, NEW operations, NEW place, NEW plan, NEW L, NEW k,
         Underway(rows, operations, place, plan, L, k),
         NEW i \in 1 .. Len(rows), operations[i].section = "runs"
  PROVE  RunPlanned(rows[i], operations[i])
<1> DEFINE row == rows[i]  o == operations[i]
<1>1. row \in RunRow /\ row.section = "runs" /\ RunFits(db, row, o) /\ db \in Ledger /\ RunsIndexed(db)
  BY UnderwayLedger, UnderwayRow, RowKinds DEF OpFits
<1> HIDE DEF row, o
<1>2. o.id \in Runs
  BY <1>1 DEF RunFits
<1>3. FindRun(db, row) = {o.id} => db.runs[o.id] # Null
  BY <1>1, FoundOne
<1>4. /\ FindRun(db, row) = {} \/ FindRun(db, row) = {o.id}
      /\ FindRun(db, row) = {} <=> o.action = "insert"
      /\ o.action = "insert" =>
           db.runs[o.id] = Null /\ row.op # "archive" /\ (row.id # Null => row.id = o.id)
      /\ o.action = "update" => row.op # "archive"
  BY <1>1 DEF RunFits, Action
<1>5. /\ Aim(row) \subseteq {o.id}
      /\ o.action # "insert" \/ row.id # Null => Aim(row) = {o.id}
  BY <1>4 DEF Aim
<1> QED BY <1>1, <1>2, <1>3, <1>4, <1>5 DEF RunPlanned, row, o

(* Two rows for one new run name it.                                       *)
LEMMA InsertedTwice ==
  ASSUME NEW rows, NEW operations, NEW place, NEW plan, NEW L, NEW k,
         Underway(rows, operations, place, plan, L, k),
         NEW i \in 1 .. Len(rows), NEW j \in 1 .. Len(rows), i # j,
         operations[i].section = "runs", operations[i].action = "insert",
         operations[j].section = "runs", operations[j].id = operations[i].id
  PROVE  /\ Upserts(rows[i]) /\ Upserts(rows[j]) /\ FindRun(db, rows[i]) = {}
         /\ rows[i].id = operations[i].id /\ rows[j].id = operations[i].id
         /\ Twice(rows[i], rows[j])
<1> DEFINE r == operations[i].id
<1>1. /\ rows[i] \in RunRow /\ rows[i].section = "runs" /\ rows[i].op # "archive"
      /\ FindRun(db, rows[i]) = {} /\ r \in Runs /\ db.runs[r] = Null
      /\ rows[i].id # Null => rows[i].id = r /\ Aim(rows[i]) = {r}
  <2>1. RunPlanned(rows[i], operations[i])
    BY RunOperationOf
  <2> QED BY <2>1 DEF RunPlanned
<1>2. /\ rows[j] \in RunRow /\ rows[j].section = "runs" /\ rows[j].op # "archive"
      /\ FindRun(db, rows[j]) = {}
      /\ rows[j].id # Null => rows[j].id = r /\ Aim(rows[j]) = {r}
  <2>1. RunPlanned(rows[j], operations[j])
    BY RunOperationOf
  <2> QED BY <1>1, <2>1 DEF RunPlanned
<1>3. rows[i].op = Null /\ rows[j].op = Null
  BY <1>1, <1>2, RunRowFields
<1>4. rows[i].id # Null
  <2> SUFFICES ASSUME rows[i].id = Null PROVE FALSE
    OBVIOUS
  <2>1. Unnamed(db, rows[i])
    BY <1>1, <1>3 DEF Unnamed
  <2>2. rows[j].id # r /\ (Unnamed(db, rows[j]) => operations[j].id # r)
    BY <1>2, <2>1 DEF Underway, Planning
  <2>3. rows[j].id = Null => Unnamed(db, rows[j])
    BY <1>2, <1>3 DEF Unnamed
  <2> QED BY <1>2, <2>2, <2>3
<1>5. rows[j].id # Null
  <2> SUFFICES ASSUME rows[j].id = Null PROVE FALSE
    OBVIOUS
  <2>1. Unnamed(db, rows[j])
    BY <1>2, <1>3 DEF Unnamed
  <2>2. rows[i].id # operations[j].id
    BY <1>1, <2>1 DEF Underway, Planning
  <2> QED BY <1>1, <1>4, <2>2
<1>6. Aim(rows[i]) \cap Aim(rows[j]) # {} /\ ~ SameExternal(rows[i], rows[j])
  BY <1>1, <1>2, <1>4, <1>5 DEF SameExternal
<1>7. Upserts(rows[i]) /\ Upserts(rows[j])
  BY <1>1, <1>2 DEF Upserts
<1>8. Twice(rows[i], rows[j])
  BY <1>1, <1>6, <1>7 DEF Twice
<1> QED BY <1>1, <1>2, <1>4, <1>5, <1>7, <1>8

-----------------------------------------------------------------------------
(* What the row of run r may have been: that of the ledger, and what each  *)
(* row of the manifest that is for r makes of it.                          *)
Sources(rows, operations, r) ==
  ({db.runs[r]} \cup
   {Becomes(rows[i]) : i \in {j \in 1 .. Len(rows) : Upserts(rows[j]) /\ operations[j].id = r}}) \ {Null}

(* What a run is known by comes from these.                                *)
KnownBy(rows, operations, r, run) ==
  run # Null =>
    /\ \E a \in Sources(rows, operations, r) : run.external = a.external
    /\ \E a \in Sources(rows, operations, r) : run.home = a.home /\ run.key = a.key

LEMMA BecomesFields ==
  ASSUME db \in Ledger, NEW row, NEW o, RunPlanned(row, o), Upserts(row)
  PROVE  LET b == Becomes(row)  old == db.runs[o.id] IN
         /\ b \in Run /\ b # Null
         /\ o.action = "insert" =>
              /\ b.home = row.exp /\ b.key = row.key /\ b.external = row.external /\ ~b.archived
              /\ old = Null
         /\ o.action # "insert" =>
              /\ b.home = Either(row.exp, old.home) /\ b.key = Either(row.key, old.key)
              /\ b.external = Either(row.external, old.external) /\ b.archived = old.archived
              /\ old # Null /\ old \in Run
<1> DEFINE old == db.runs[o.id]
<1>1. /\ row.exp \in Experiments \cup {Null} /\ row.key \in Keys \cup {Null}
      /\ row.external \in Externals \cup {Null} /\ o.id \in Runs
  BY RunRowFields DEF RunPlanned
<1>2. \A run \in Run : run # Null
  BY NullAssumption
<1>3. CASE o.action = "insert"
  <2>1. Becomes(row) = NewRun(row.exp, row.key, row.external, {}) /\ old = Null
    BY <1>3 DEF RunPlanned, Becomes
  <2>2. LET run == NewRun(row.exp, row.key, row.external, {}) IN
        /\ run \in Run /\ run.home = row.exp /\ run.key = row.key /\ run.external = row.external
        /\ run.archived = FALSE
    BY <1>1 DEF NewRun, Run
  <2> QED BY <1>2, <1>3, <2>1, <2>2
<1>4. CASE o.action # "insert"
  <2>1. FindRun(db, row) = {o.id} /\ old # Null /\ old \in Run
    BY <1>1, <1>4, LedgerParts DEF RunPlanned
  <2>2. Becomes(row) = UpdatedRun(old, row.exp, row.key, row.external, {})
    BY <2>1 DEF Becomes
  <2> HIDE DEF old
  <2>3. LET run == UpdatedRun(old, row.exp, row.key, row.external, {}) IN
        /\ run \in Run /\ run.home = Either(row.exp, old.home) /\ run.key = Either(row.key, old.key)
        /\ run.external = Either(row.external, old.external) /\ run.archived = old.archived
    BY <1>1, <2>1, UpdatedRunFields
  <2> QED BY <1>2, <1>4, <2>1, <2>2, <2>3 DEF old
<1> QED BY <1>3, <1>4

LEMMA BecomesSource ==
  ASSUME NEW rows, NEW operations, NEW place, NEW plan, NEW L, NEW k,
         Underway(rows, operations, place, plan, L, k),
         NEW i \in 1 .. Len(rows), operations[i].section = "runs", Upserts(rows[i])
  PROVE  Becomes(rows[i]) \in Sources(rows, operations, operations[i].id)
<1>1. Becomes(rows[i]) # Null
  <2>1. RunPlanned(rows[i], operations[i])
    BY RunOperationOf
  <2>2. db \in Ledger
    BY UnderwayLedger
  <2> QED BY <2>1, <2>2, BecomesFields
<1> QED BY <1>1 DEF Sources

(* What a run is written with, from the row of the manifest.               *)
LEMMA WrittenFields ==
  ASSUME NEW d \in Ledger, NEW row, NEW o, RunPlanned(row, o), o.action \in {"insert", "update"},
         o.row.attrs \in SUBSET Attrs, o.action = "update" => d.runs[o.id] # Null
  PROVE  LET run == WrittenRun(d, o)  old == d.runs[o.id] IN
         /\ o.action = "insert" =>
              /\ run.home = row.exp /\ run.key = row.key /\ run.external = row.external
              /\ run.archived = FALSE
         /\ o.action = "update" =>
              /\ run.home = Either(row.exp, old.home) /\ run.key = Either(row.key, old.key)
              /\ run.external = Either(row.external, old.external) /\ run.archived = old.archived
         /\ run.attrs = o.row.attrs
<1> DEFINE old == d.runs[o.id]
<1>1. /\ row.exp \in Experiments \cup {Null} /\ row.key \in Keys \cup {Null}
      /\ row.external \in Externals \cup {Null} /\ o.id \in Runs
  BY RunRowFields DEF RunPlanned
<1>2. o.row.exp = row.exp /\ o.row.key = row.key /\ o.row.external = row.external
  BY DEF RunPlanned, RunFits
<1>3. CASE o.action = "insert"
  <2>1. WrittenRun(d, o) = NewRun(row.exp, row.key, row.external, o.row.attrs)
    BY <1>2, <1>3 DEF WrittenRun
  <2>2. LET run == NewRun(row.exp, row.key, row.external, o.row.attrs) IN
        /\ run.home = row.exp /\ run.key = row.key /\ run.external = row.external
        /\ run.archived = FALSE /\ run.attrs = o.row.attrs
    BY <1>1 DEF NewRun, Run
  <2> QED BY <1>3, <2>1, <2>2
<1>4. CASE o.action = "update"
  <2>1. old \in Run
    BY <1>1, <1>4, LedgerParts
  <2>2. WrittenRun(d, o) = UpdatedRun(old, row.exp, row.key, row.external, o.row.attrs)
    BY <1>2, <1>4 DEF WrittenRun
  <2> HIDE DEF old
  <2>3. LET run == UpdatedRun(old, row.exp, row.key, row.external, o.row.attrs) IN
        /\ run.home = Either(row.exp, old.home) /\ run.key = Either(row.key, old.key)
        /\ run.external = Either(row.external, old.external) /\ run.archived = old.archived
        /\ run.attrs = o.row.attrs
    BY <1>1, <2>1, UpdatedRunFields
  <2> QED BY <1>4, <2>2, <2>3 DEF old
<1> QED BY <1>3, <1>4

LEMMA NamesKept ==
  ASSUME NEW d \in Ledger, NEW o, o.id \in Runs, d.runs[o.id] # Null,
         \/ o.section = "runs" /\ o.action = "archive"
         \/ o.section = "custom_attributes" /\ o.action = "update" /\ o.row \in AttrsRow,
         NEW next, next = ApplyOperation(d, o)
  PROVE  LET old == d.runs[o.id]  run == next.runs[o.id] IN
         run \in Run /\ run.home = old.home /\ run.key = old.key /\ run.external = old.external
<1>1. LET old == d.runs[o.id]  run == next.runs[o.id] IN
         /\ next \in Ledger /\ next # Null
         /\ next.runs = [d.runs EXCEPT ![o.id] = run] /\ run \in Run /\ old \in Run
         /\ run.home = old.home /\ run.key = old.key /\ run.external = old.external
         /\ o.section = "runs" => run.archived /\ run.attrs = old.attrs
         /\ o.section # "runs" => run.archived = old.archived /\ run.attrs = old.attrs \cup o.row.attrs
         /\ next.links = d.links
         /\ next.experiments = d.experiments /\ next.edges = d.edges /\ next.syncs = d.syncs
  BY RunKept
<1> QED BY <1>1

LEMMA EitherTwice ==
  ASSUME NEW x, NEW y
  PROVE  Either(x, Either(x, y)) = Either(x, y) /\ Either(Null, y) = y
  BY DEF Either

(* An update of a run takes what it is known by from a row of the          *)
(* manifest, or leaves it.                                                 *)
LEMMA UpdateKnown ==
  ASSUME NEW rows, NEW operations, NEW place, NEW plan, NEW L, NEW k,
         Underway(rows, operations, place, plan, L, k),
         \A i, j \in 1 .. Len(rows) : i # j => ~ Twice(rows[i], rows[j]),
         NEW i \in 1 .. Len(rows), operations[i].section = "runs", operations[i].action = "update",
         NEW old, NEW run, old # Null, run # Null, KnownBy(rows, operations, operations[i].id, old),
         run.home = Either(rows[i].exp, old.home), run.key = Either(rows[i].key, old.key),
         run.external = Either(rows[i].external, old.external)
  PROVE  KnownBy(rows, operations, operations[i].id, run)
<1> DEFINE row == rows[i]  o == operations[i]  r == o.id  b == Becomes(row)  was == db.runs[r]
           S == Sources(rows, operations, r)
<1>0. db \in Ledger
  BY UnderwayLedger
<1>1. RunPlanned(row, o)
  BY RunOperationOf
<1>2. Upserts(row)
  BY <1>1 DEF RunPlanned, Upserts
<1>3. b \in S
  BY <1>2, BecomesSource
<1>4. /\ b.home = Either(row.exp, was.home) /\ b.key = Either(row.key, was.key)
      /\ b.external = Either(row.external, was.external)
      /\ was # Null
  BY <1>0, <1>1, <1>2, BecomesFields
<1>5. PICK a \in S : old.external = a.external
  BY DEF KnownBy
<1>6. \E c \in S : run.external = c.external
  BY <1>3, <1>4, <1>5 DEF Either
<1>7. PICK c \in S : old.home = c.home /\ old.key = c.key
  BY DEF KnownBy
<1>8. run.home = Either(row.exp, c.home) /\ run.key = Either(row.key, c.key)
  BY <1>7
<1>9. c = was \/ \E j \in 1 .. Len(rows) : Upserts(rows[j]) /\ operations[j].id = r /\ c = Becomes(rows[j])
  BY DEF Sources
<1>10. \E e \in S : run.home = e.home /\ run.key = e.key
  <2>1. CASE c = was
    BY <1>3, <1>4, <1>8, <2>1
  <2>2. ASSUME NEW j \in 1 .. Len(rows), Upserts(rows[j]), operations[j].id = r, c = Becomes(rows[j])
        PROVE  \E e \in S : run.home = e.home /\ run.key = e.key
    <3> DEFINE other == rows[j]  u == operations[j]
    <3>1. RunPlanned(other, u)
      <4>1. u.section = "runs"
        BY <2>2, UnderwayRow DEF Upserts
      <4> QED BY <4>1, RunOperationOf
    <3>2. u.id = r /\ u.action # "insert"
      BY <1>4, <2>2, <3>1 DEF RunPlanned
    <3>3. c.home = Either(other.exp, was.home) /\ c.key = Either(other.key, was.key)
      BY <1>0, <2>2, <3>1, <3>2, BecomesFields
    <3>4. row.exp = other.exp
      <4>1. CASE i = j
        BY <4>1
      <4>2. CASE i # j
        <5>1. Aim(row) = {r} /\ Aim(other) = {r}
          BY <1>1, <3>1, <3>2 DEF RunPlanned
        <5>2. ~ SameExternal(row, other)
          BY <4>2, UnderwayLedger DEF Underway, Planning, AllApart
        <5>3. ~ Twice(row, other)
          BY <4>2
        <5>4. Aim(row) \cap Aim(other) # {}
          BY <5>1
        <5> HIDE DEF row, other
        <5> QED BY <1>2, <2>2, <5>2, <5>3, <5>4 DEF Twice, other
      <4> QED BY <4>1, <4>2
    <3>5. run.home = b.home /\ run.home = c.home
      BY <1>4, <1>8, <3>3, <3>4, EitherTwice
    <3>6. run.key = b.key \/ run.key = c.key
      BY <1>4, <1>8 DEF Either
    <3> QED BY <1>3, <3>5, <3>6
  <2> QED BY <1>9, <2>1, <2>2
<1> QED BY <1>6, <1>10 DEF KnownBy

LEMMA KnownStep ==
  ASSUME NEW rows, NEW operations, NEW place, NEW plan, NEW L, NEW k,
         Underway(rows, operations, place, plan, L, k),
         \A i, j \in 1 .. Len(rows) : i # j => ~ Twice(rows[i], rows[j]),
         NEW i \in 1 .. Len(rows), NEW d, Sane(db, d),
         NEW next, next = ApplyOperation(d, operations[i]), next # Null,
         NEW r \in Runs, KnownBy(rows, operations, r, d.runs[r])
  PROVE  KnownBy(rows, operations, r, next.runs[r])
<1> DEFINE o == operations[i]  old == d.runs[r]  run == next.runs[r]
<1>1. d \in Ledger /\ Homes(d) /\ OpType(o) /\ Needs(d, o)
  BY UnderwayLedger, UnderwayRow, NeedsOn DEF Sane
<1>2. Frame(d, o, next) /\ (o.action = "noop" => next = d)
  BY <1>1, OperationGrows
<1>3. CASE ~ ForRun(o, r) \/ o.action = "noop"
  BY <1>2, <1>3 DEF Frame
<1>4. CASE ForRun(o, r) /\ o.action # "noop" /\ ~ (o.section = "runs" /\ o.action \in {"insert", "update"})
  <2>1. /\ o.id = r
        /\ \/ o.section = "runs" /\ o.action = "archive"
           \/ o.section = "custom_attributes" /\ o.action = "update" /\ o.row \in AttrsRow
    BY <1>1, <1>4 DEF ForRun, OpType
  <2>2. d.runs[o.id] # Null /\ o.id \in Runs
    BY <1>1, <2>1 DEF Needs
  <2>3. LET was == d.runs[o.id]  is == next.runs[o.id] IN
        is \in Run /\ is.home = was.home /\ is.key = was.key /\ is.external = was.external
    BY <1>1, <2>1, <2>2, NamesKept
  <2> QED BY <2>1, <2>2, <2>3 DEF KnownBy
<1>5. CASE ForRun(o, r) /\ o.section = "runs" /\ o.action \in {"insert", "update"}
  <2>1. o.id = r /\ o.row \in RunRow /\ o.row.attrs # Null /\ o.row.attrs \in SUBSET Attrs
    <3>1. o.row \in RunRow /\ o.row.attrs # Null
      BY <1>1, <1>5 DEF OpType
    <3> QED BY <1>5, <3>1, RunRowFields DEF ForRun
  <2>2. run = WrittenRun(d, o) /\ run # Null
    <3>1. WrittenRun(d, o) \in Run /\ next.runs = [d.runs EXCEPT ![o.id] = WrittenRun(d, o)]
      BY <1>1, <1>5, <2>1, RunEffect
    <3> QED BY <1>1, <2>1, <3>1, LedgerParts, NullAssumption
  <2>3. RunPlanned(rows[i], o)
    BY <1>5, RunOperationOf
  <2>4. o.action = "update" => old # Null
    BY <1>1, <1>5, <2>1 DEF Needs
  <2>5. /\ o.action = "insert" =>
             /\ run.home = rows[i].exp /\ run.key = rows[i].key /\ run.external = rows[i].external
        /\ o.action = "update" =>
             /\ run.home = Either(rows[i].exp, old.home) /\ run.key = Either(rows[i].key, old.key)
             /\ run.external = Either(rows[i].external, old.external)
    <3> DEFINE row == rows[i]
    <3>1. RunPlanned(row, o) /\ o.action \in {"insert", "update"} /\ d \in Ledger
          /\ (o.action = "update" => d.runs[o.id] # Null)
      BY <1>1, <1>5, <2>1, <2>3, <2>4
    <3> HIDE DEF row, o
    <3>2. LET is == WrittenRun(d, o)  was == d.runs[o.id] IN
          /\ o.action = "insert" =>
               /\ is.home = row.exp /\ is.key = row.key /\ is.external = row.external
               /\ is.archived = FALSE
          /\ o.action = "update" =>
               /\ is.home = Either(row.exp, was.home) /\ is.key = Either(row.key, was.key)
               /\ is.external = Either(row.external, was.external) /\ is.archived = was.archived
          /\ is.attrs = o.row.attrs
      BY <2>1, <3>1, WrittenFields
    <3> QED BY <2>1, <2>2, <3>2 DEF row
  <2>6. CASE o.action = "insert"
    <3> DEFINE b == Becomes(rows[i])
    <3>1. Upserts(rows[i])
      BY <2>3, <2>6 DEF RunPlanned, Upserts
    <3>2. b.home = rows[i].exp /\ b.key = rows[i].key /\ b.external = rows[i].external
      BY <2>3, <2>6, <3>1, UnderwayLedger, BecomesFields
    <3>3. b \in Sources(rows, operations, r)
      BY <1>5, <2>1, <3>1, BecomesSource
    <3> HIDE DEF b, run
    <3> QED BY <2>5, <2>6, <3>2, <3>3 DEF KnownBy, run
  <2>7. CASE o.action = "update"
    BY <1>5, <2>1, <2>2, <2>4, <2>5, <2>7, UpdateKnown
  <2> QED BY <1>5, <2>6, <2>7
<1> QED BY <1>3, <1>4, <1>5

-----------------------------------------------------------------------------
LEMMA CourseKnown ==
  ASSUME NEW rows, NEW operations, NEW place, NEW plan, NEW L, NEW k,
         Underway(rows, operations, place, plan, L, k),
         \A i, j \in 1 .. Len(rows) : i # j => ~ Twice(rows[i], rows[j]),
         NEW r \in Runs
  PROVE  KnownBy(rows, operations, r, L[k].runs[r])
<1> DEFINE G == {n \in Nat : KnownBy(rows, operations, r, L[n].runs[r])}
<1>0. k \in 0 .. Len(rows) /\ Len(rows) \in Nat /\ k \in Nat /\ L[0] = db
  BY UnderwayLedger
<1>1. 0 \in G
  BY <1>0 DEF KnownBy, Sources
<1>2. ASSUME NEW n \in 0 + 1 .. k, n - 1 \in G PROVE n \in G
  <2>1. n \in 1 .. k /\ n \in 1 .. Len(rows) /\ n - 1 \in 0 .. k /\ n \in Nat
    BY <1>0
  <2>2. /\ L[n] = ApplyOperation(L[n - 1], plan[n]) /\ L[n] # Null /\ Sane(db, L[n - 1])
    BY <2>1, CourseSane DEF Underway
  <2>3. plan[n] = operations[place[n]] /\ place[n] \in 1 .. Len(rows)
    BY <2>1, UnderwayPlace
  <2>4. KnownBy(rows, operations, r, L[n - 1].runs[r])
    BY <1>2
  <2> DEFINE i == place[n]  d == L[n - 1]  next == L[n]
  <2>5. Sane(db, d) /\ next = ApplyOperation(d, operations[i]) /\ next # Null /\ i \in 1 .. Len(rows)
        /\ KnownBy(rows, operations, r, d.runs[r])
    BY <2>2, <2>3, <2>4
  <2> HIDE DEF i, d, next
  <2>6. KnownBy(rows, operations, r, next.runs[r])
    BY <2>5, KnownStep
  <2> QED BY <2>1, <2>6 DEF next
<1> HIDE DEF G
<1>3. k \in G
  BY <1>0, <1>1, <1>2, Stages
<1> QED BY <1>3 DEF G

(* Two sources of active runs are one another's only if a row takes what   *)
(* is another's, or two rows are for the same.                             *)
LEMMA SourcesApart ==
  ASSUME NEW rows, NEW operations, NEW place, NEW plan, NEW L, NEW k,
         Underway(rows, operations, place, plan, L, k),
         \A i, j \in 1 .. Len(rows) : i # j => ~ Twice(rows[i], rows[j]),
         \A i \in 1 .. Len(rows) : ~ Taken(rows[i]),
         NEW r \in Runs, NEW s \in Runs, r # s,
         db.runs[r] = Null \/ IsActive(db.runs[r]), db.runs[s] = Null \/ IsActive(db.runs[s]),
         NEW a \in Sources(rows, operations, r), NEW b \in Sources(rows, operations, s)
  PROVE  Apart(a, b)
<1>0. db \in Ledger /\ RunsIndexed(db)
  BY UnderwayLedger
<1>1. ASSUME NEW i \in 1 .. Len(rows), Upserts(rows[i])
      PROVE  RunPlanned(rows[i], operations[i])
  <2>1. operations[i].section = "runs"
    BY <1>1, UnderwayRow DEF Upserts
  <2> QED BY <2>1, RunOperationOf
<1>2. ASSUME NEW i \in 1 .. Len(rows), Upserts(rows[i]),
             db.runs[operations[i].id] = Null \/ IsActive(db.runs[operations[i].id])
      PROVE  IsActive(Becomes(rows[i]))
  BY <1>0, <1>1, <1>2, BecomesFields DEF IsActive
<1>3. a # Null /\ b # Null
  BY DEF Sources
<1>4. /\ a = db.runs[r] \/ \E i \in 1 .. Len(rows) : Upserts(rows[i]) /\ operations[i].id = r /\ a = Becomes(rows[i])
      /\ b = db.runs[s] \/ \E i \in 1 .. Len(rows) : Upserts(rows[i]) /\ operations[i].id = s /\ b = Becomes(rows[i])
  BY DEF Sources
<1>5. IsActive(a) /\ IsActive(b)
  BY <1>2, <1>3, <1>4 DEF IsActive
<1>6. SUFFICES ASSUME ~ Apart(a, b) PROVE FALSE
  OBVIOUS
<1>7. SameIdentity(a, b) /\ SameIdentity(b, a)
  BY <1>5, <1>6 DEF SameIdentity, Apart
<1>8. CASE a = db.runs[r] /\ b = db.runs[s]
  BY <1>0, <1>5, <1>6, <1>8, Indexes
<1>9. ASSUME NEW i \in 1 .. Len(rows), Upserts(rows[i]), operations[i].id = r, a = Becomes(rows[i]),
             b = db.runs[s]
      PROVE  FALSE
  <2>1. Aim(rows[i]) \subseteq {r}
    BY <1>1, <1>9 DEF RunPlanned
  <2>2. Taken(rows[i])
    BY <1>7, <1>9, <2>1 DEF Taken
  <2> QED BY <2>2
<1>10. ASSUME NEW i \in 1 .. Len(rows), Upserts(rows[i]), operations[i].id = s, b = Becomes(rows[i]),
              a = db.runs[r]
       PROVE  FALSE
  <2>1. Aim(rows[i]) \subseteq {s}
    BY <1>1, <1>10 DEF RunPlanned
  <2>2. Taken(rows[i])
    BY <1>7, <1>10, <2>1 DEF Taken
  <2> QED BY <2>2
<1>11. ASSUME NEW i \in 1 .. Len(rows), Upserts(rows[i]), operations[i].id = r, a = Becomes(rows[i]),
              NEW j \in 1 .. Len(rows), Upserts(rows[j]), operations[j].id = s, b = Becomes(rows[j])
       PROVE  FALSE
  <2>1. Aim(rows[i]) \subseteq {r} /\ Aim(rows[j]) \subseteq {s} /\ i # j
    BY <1>1, <1>11 DEF RunPlanned
  <2>2. ~ SameExternal(rows[i], rows[j])
    BY <2>1, UnderwayLedger DEF Underway, Planning, AllApart
  <2>3. Twice(rows[i], rows[j])
    BY <1>7, <1>11, <2>1, <2>2 DEF Twice
  <2> QED BY <2>1, <2>3
<1> QED BY <1>4, <1>8, <1>9, <1>10, <1>11

LEMMA KnownIndexed ==
  ASSUME NEW rows, NEW operations, NEW place, NEW plan, NEW L, NEW k,
         Underway(rows, operations, place, plan, L, k),
         \A i, j \in 1 .. Len(rows) : i # j => ~ Twice(rows[i], rows[j]),
         \A i \in 1 .. Len(rows) : ~ Taken(rows[i]),
         NEW d \in Ledger, Grows(db, d),
         \A r \in Runs : KnownBy(rows, operations, r, d.runs[r])
  PROVE  RunsIndexed(d)
<1> SUFFICES ASSUME NEW r \in Runs, NEW s \in Runs, IsActive(d.runs[r]), IsActive(d.runs[s]), r # s
             PROVE  Apart(d.runs[r], d.runs[s])
  BY Indexes
<1> DEFINE A == Sources(rows, operations, r)  B == Sources(rows, operations, s)
<1>1. /\ db.runs[r] = Null \/ IsActive(db.runs[r])
      /\ db.runs[s] = Null \/ IsActive(db.runs[s])
  BY DEF Grows, IsActive
<1>2. \A a \in A, b \in B : Apart(a, b)
  BY <1>1, SourcesApart
<1>3. KnownBy(rows, operations, r, d.runs[r]) /\ KnownBy(rows, operations, s, d.runs[s])
  OBVIOUS
<1>4. PICK a \in A, b \in B : d.runs[r].external = a.external /\ d.runs[s].external = b.external
  BY <1>3 DEF KnownBy, IsActive
<1>5. PICK u \in A, v \in B : /\ d.runs[r].home = u.home /\ d.runs[r].key = u.key
                              /\ d.runs[s].home = v.home /\ d.runs[s].key = v.key
  BY <1>3 DEF KnownBy, IsActive
<1>6. Apart(a, b) /\ Apart(u, v)
  BY <1>2
<1> QED BY <1>4, <1>5, <1>6 DEF Apart

-----------------------------------------------------------------------------
LEMMA UnderwayBasics ==
  ASSUME NEW rows, NEW operations, NEW place, NEW plan, NEW L, NEW k,
         Underway(rows, operations, place, plan, L, k)
  PROVE  /\ db \in Ledger /\ Homes(db) /\ RunsIndexed(db) /\ L[0] = db
         /\ Len(rows) \in Nat /\ DOMAIN rows = 1 .. Len(rows)
         /\ k \in Nat /\ k <= Len(rows) /\ k \in 0 .. k /\ 0 \in 0 .. k
         /\ k < Len(rows) => k + 1 \in 1 .. Len(rows)
         /\ Course(L, db, plan, Len(rows), k) /\ Sane(db, L[k])
<1>1. /\ db \in Ledger /\ Homes(db) /\ RunsIndexed(db) /\ L[0] = db
      /\ Len(rows) \in Nat /\ DOMAIN rows = 1 .. Len(rows) /\ k \in 0 .. Len(rows)
      /\ Course(L, db, plan, Len(rows), k)
  BY UnderwayLedger DEF Underway
<1>2. /\ k \in Nat /\ k <= Len(rows) /\ k \in 0 .. k /\ 0 \in 0 .. k
      /\ k < Len(rows) => k + 1 \in 1 .. Len(rows)
  BY <1>1
<1>3. Sane(db, L[k])
  BY <1>1, <1>2, CourseSane
<1> QED BY <1>1, <1>2, <1>3

(* A row and its operation.                                                *)
Fitting(row, o) ==
  row \in Row /\ OpFits(db, row, o) /\ OpType(o) /\ Needs(db, o) /\ o.section = row.section

LEMMA RowFits ==
  ASSUME NEW rows, NEW operations, NEW place, NEW plan, NEW L, NEW k,
         Underway(rows, operations, place, plan, L, k), NEW i \in 1 .. Len(rows)
  PROVE  Fitting(rows[i], operations[i])
<1>1. db \in Ledger /\ RunsIndexed(db) /\ rows[i] \in Row /\ OpFits(db, rows[i], operations[i])
  BY UnderwayBasics, PlanningParts DEF Underway
<1> DEFINE row == rows[i]  o == operations[i]
<1> HIDE DEF row, o
<1>2. OpType(o) /\ Needs(db, o)
  BY <1>1, FitsType DEF row, o
<1>3. o.section = row.section
  BY <1>1, RowKinds DEF OpFits, RunFits, EdgeFits, AttrsFits, SyncFits, row, o
<1> QED BY <1>1, <1>2, <1>3 DEF Fitting, row, o

LEMMA AtPlace ==
  ASSUME NEW rows, NEW operations, NEW place, NEW plan, NEW L, NEW k,
         Underway(rows, operations, place, plan, L, k), NEW n \in 1 .. Len(rows)
  PROVE  \E i \in 1 .. Len(rows) :
           /\ place[n] = i /\ plan[n] = operations[i] /\ Fitting(rows[i], operations[i])
           /\ \A q \in 1 .. Len(rows) : q # n => place[q] # i
<1>1. place[n] \in 1 .. Len(rows) /\ plan[n] = operations[place[n]]
  BY UnderwayPlace
<1>2. Fitting(rows[place[n]], operations[place[n]])
  BY <1>1, RowFits
<1>3. \A q \in 1 .. Len(rows) : q # n => place[q] # place[n]
  BY UnderwayPlace
<1> QED BY <1>1, <1>2, <1>3

(* An operation that has been done is that of another row.                 *)
LEMMA OtherRow ==
  ASSUME NEW rows, NEW operations, NEW place, NEW plan, NEW L, NEW k,
         Underway(rows, operations, place, plan, L, k), k < Len(rows),
         NEW i, place[k + 1] = i, NEW n \in 1 .. k
  PROVE  \E j \in 1 .. Len(rows) :
           j # i /\ plan[n] = operations[j] /\ Fitting(rows[j], operations[j])
<1>1. n \in 1 .. Len(rows) /\ n # k + 1 /\ k + 1 \in 1 .. Len(rows)
  BY UnderwayBasics
<1>2. PICK j \in 1 .. Len(rows) :
           /\ place[n] = j /\ plan[n] = operations[j] /\ Fitting(rows[j], operations[j])
           /\ \A q \in 1 .. Len(rows) : q # n => place[q] # j
  BY <1>1, AtPlace
<1> QED BY <1>1, <1>2

(* A new run that is there has been inserted for another row.              *)
LEMMA RunFails ==
  ASSUME NEW rows, NEW operations, NEW place, NEW plan, NEW L, NEW k,
         Underway(rows, operations, place, plan, L, k), k < Len(rows),
         NEW i \in 1 .. Len(rows), place[k + 1] = i,
         operations[i].section = "runs", operations[i].action = "insert",
         L[k].runs[operations[i].id] # Null
  PROVE  \E j \in 1 .. Len(rows) : i # j /\ Twice(rows[i], rows[j])
<1> DEFINE r == operations[i].id
<1>0. k \in Nat /\ L[0] = db /\ Course(L, db, plan, Len(rows), k) /\ 0 \in 0 .. k /\ k \in 0 .. k
  BY UnderwayBasics
<1>1. r \in Runs /\ db.runs[r] = Null
  <2>1. RunPlanned(rows[i], operations[i])
    BY RunOperationOf
  <2> QED BY <2>1 DEF RunPlanned
<1> HIDE DEF r
<1>2. PICK n \in 1 .. k : IsRunRow(plan[n], r)
  <2> SUFFICES ASSUME \A n \in 0 + 1 .. k : ~ IsRunRow(plan[n], r) PROVE FALSE
    BY <1>0
  <2>1. Alike(L[0].runs[r], L[k].runs[r])
    BY <1>0, <1>1, RunAlike
  <2> QED BY <1>0, <1>1, <2>1 DEF Alike, r
<1>3. PICK j \in 1 .. Len(rows) : j # i /\ plan[n] = operations[j]
  BY OtherRow
<1>4. operations[j].section = "runs" /\ operations[j].id = operations[i].id
  BY <1>2, <1>3 DEF IsRunRow, r
<1>5. Twice(rows[i], rows[j])
  BY <1>3, <1>4, InsertedTwice
<1> QED BY <1>3, <1>5

(* A run that a row of the manifest asks for is there before the edges.    *)
LEMMA RunsFirst ==
  ASSUME NEW rows, NEW operations, NEW place, NEW plan, NEW L, NEW k,
         Underway(rows, operations, place, plan, L, k), k < Len(rows),
         NEW i \in 1 .. Len(rows), place[k + 1] = i,
         operations[i].section = "job_runs", operations[i].action = "insert",
         NEW j \in 1 .. Len(rows), Upserts(rows[j]), NEW r \in Aim(rows[j])
  PROVE  L[k].runs[r] # Null
<1> DEFINE o == operations[j]
<1>0. /\ Len(rows) \in Nat /\ k \in Nat /\ k \in 0 .. k /\ k + 1 \in 1 .. Len(rows)
      /\ db \in Ledger /\ Course(L, db, plan, Len(rows), k) /\ Sane(db, L[k])
  BY UnderwayBasics
<1>1. o.section = "runs"
  BY RowFits DEF Upserts, Fitting
<1>2. RunPlanned(rows[j], o)
  BY <1>1, RunOperationOf
<1>3. o.id = r /\ r \in Runs
  BY <1>2 DEF RunPlanned
<1>4. CASE o.action # "insert"
  <2>1. db.runs[r] # Null
    BY <1>2, <1>3, <1>4 DEF RunPlanned
  <2> QED BY <1>0, <1>3, <2>1 DEF Sane, Grows, Keeps
<1>5. CASE o.action = "insert"
  <2>1. PICK n \in 1 .. Len(rows) : place[n] = j
    BY UnderwayParts
  <2>2. plan[n] = o
    <3>1. plan[n] = operations[place[n]]
      BY PlanningParts, UnderwayBasics DEF Underway
    <3> QED BY <2>1, <3>1
  <2>3. n # k + 1
    BY <1>1, <2>1
  <2>4. ~ (k + 1 < n)
    <3> SUFFICES ASSUME k + 1 < n PROVE FALSE
      OBVIOUS
    <3>1. Before(operations, place[k + 1], place[n])
      BY <1>0, UnderwayParts
    <3>2. Before(operations, i, j)
      BY <2>1, <3>1
    <3> QED BY <1>1, <1>5, <3>2 DEF Before, Rank, Section
  <2>5. n \in 1 .. k /\ n - 1 \in 0 .. k /\ n \in 0 .. k /\ n <= k
    BY <1>0, <2>3, <2>4
  <2>6. /\ L[n] = ApplyOperation(L[n - 1], o) /\ L[n] # Null
        /\ Needs(L[n - 1], o) /\ OpType(o) /\ L[n - 1] \in Ledger
    BY <1>0, <2>2, <2>5, CourseSane DEF Sane
  <2> DEFINE d == L[n - 1]  next == L[n]
  <2>7. d \in Ledger /\ next = ApplyOperation(d, o) /\ next # Null /\ Needs(d, o)
    BY <2>6
  <2>8. o.row \in RunRow /\ o.row.attrs # Null /\ o.id \in Runs
    BY <1>1, <1>3, <1>5, <2>6 DEF OpType
  <2> HIDE DEF d, next, o
  <2>9. WrittenRun(d, o) \in Run /\ next.runs = [d.runs EXCEPT ![o.id] = WrittenRun(d, o)]
    BY <1>1, <1>5, <2>7, <2>8, RunEffect
  <2>10. next.runs[r] # Null
    BY <1>3, <2>7, <2>9, LedgerParts, NullAssumption
  <2>11. Grows(L[n], L[k])
    BY <1>0, <2>5, CourseGrows
  <2> QED BY <1>3, <2>10, <2>11 DEF Grows, Keeps, next
<1> QED BY <1>4, <1>5

LEMMA EdgeFails ==
  ASSUME NEW rows, NEW operations, NEW place, NEW plan, NEW L, NEW k,
         Underway(rows, operations, place, plan, L, k), k < Len(rows),
         NEW i \in 1 .. Len(rows), place[k + 1] = i, Fitting(rows[i], operations[i]),
         operations[i].section = "job_runs", operations[i].action = "insert",
         L[k].edges[operations[i].id] # Null \/ L[k].runs[operations[i].id[2]] = Null
  PROVE  Dangling(rows[i], rows) \/ \E j \in 1 .. Len(rows) : i # j /\ Twice(rows[i], rows[j])
<1> DEFINE pair == operations[i].id
<1>0. /\ k \in Nat /\ L[0] = db /\ Course(L, db, plan, Len(rows), k) /\ 0 \in 0 .. k /\ k \in 0 .. k
      /\ DOMAIN rows = 1 .. Len(rows) /\ Sane(db, L[k])
  BY UnderwayBasics
<1>1. rows[i].section = "job_runs" /\ EdgeFits(db, rows[i], operations[i]) /\ rows[i] \in EdgeRow
  BY RowKinds DEF OpFits, Fitting
<1>2. pair = rows[i].pair /\ pair \in Jobs \X Runs /\ db.edges[pair] = Null
  BY <1>1 DEF EdgeFits, EdgeRow, Action
<1> HIDE DEF pair
<1>3. CASE L[k].edges[pair] # Null
  <2>1. PICK n \in 1 .. k : ForEdge(plan[n], pair)
    <3> SUFFICES ASSUME \A n \in 0 + 1 .. k : ~ ForEdge(plan[n], pair) PROVE FALSE
      BY <1>0
    <3>1. L[k].edges[pair] = L[0].edges[pair]
      BY <1>0, <1>2, EdgeStays
    <3> QED BY <1>0, <1>2, <1>3, <3>1
  <2>2. PICK j \in 1 .. Len(rows) : j # i /\ plan[n] = operations[j] /\ Fitting(rows[j], operations[j])
    BY OtherRow
  <2>3. rows[j].section = "job_runs" /\ rows[j].pair = pair
    BY <2>1, <2>2 DEF ForEdge, Fitting, OpFits, EdgeFits
  <2>4. Twice(rows[i], rows[j])
    BY <1>1, <1>2, <2>3 DEF Twice
  <2> QED BY <2>2, <2>4
<1>4. CASE L[k].runs[pair[2]] = Null
  <2>1. pair[2] \in Runs
    BY <1>2
  <2>2. db.runs[pair[2]] = Null
    BY <1>0, <1>4, <2>1 DEF Sane, Grows, Keeps
  <2>3. ASSUME NEW j \in DOMAIN rows, Upserts(rows[j]) PROVE pair[2] \notin Aim(rows[j])
    BY <1>0, <1>4, <2>3, RunsFirst
  <2>4. Dangling(rows[i], rows)
    BY <1>1, <1>2, <2>2, <2>3 DEF Dangling
  <2> QED BY <2>4
<1> QED BY <1>3, <1>4 DEF pair

LEMMA SyncFails ==
  ASSUME NEW rows, NEW operations, NEW place, NEW plan, NEW L, NEW k,
         Underway(rows, operations, place, plan, L, k), k < Len(rows),
         NEW i \in 1 .. Len(rows), place[k + 1] = i, Fitting(rows[i], operations[i]),
         operations[i].section = "sync_events", operations[i].action = "sync_event",
         operations[i].row.key \in L[k].syncs
  PROVE  \E j \in 1 .. Len(rows) : i # j /\ Twice(rows[i], rows[j])
<1> DEFINE key == operations[i].row.key
<1>0. Course(L, db, plan, Len(rows), k) /\ Sane(db, L[k])
  BY UnderwayBasics
<1>1. rows[i].section = "sync_events" /\ rows[i].key = key /\ key \notin db.syncs
  BY DEF Fitting, OpFits, SyncFits
<1> HIDE DEF key
<1>2. key # Null
  BY <1>0, LedgerParts, NullFieldAssumption DEF Sane, key
<1>3. PICK n \in 1 .. k : plan[n].section = "sync_events" /\ plan[n].row.key = key
  BY <1>0, <1>1, SyncStays DEF key
<1>4. PICK j \in 1 .. Len(rows) : j # i /\ plan[n] = operations[j] /\ Fitting(rows[j], operations[j])
  BY OtherRow
<1>5. rows[j].section = "sync_events" /\ rows[j].key = key
  BY <1>3, <1>4 DEF Fitting, OpFits, SyncFits
<1>6. Twice(rows[i], rows[j])
  BY <1>1, <1>2, <1>5 DEF Twice
<1> QED BY <1>4, <1>6

-----------------------------------------------------------------------------
(* A plan fails only where a row takes what another run is known by, hangs *)
(* a run that is not there, or is for what another row is for.             *)
LEMMA PlanFails ==
  ASSUME NEW rows, NEW operations, NEW place, NEW plan, NEW L, NEW k,
         Underway(rows, operations, place, plan, L, k), k < Len(rows),
         Effect(L[k], plan[k + 1]) = Null
  PROVE  \/ \E i \in 1 .. Len(rows) : Taken(rows[i]) \/ Dangling(rows[i], rows)
         \/ \E i, j \in 1 .. Len(rows) : i # j /\ Twice(rows[i], rows[j])
<1>0. k + 1 \in 1 .. Len(rows) /\ Sane(db, L[k])
  BY UnderwayBasics
<1>1. PICK i \in 1 .. Len(rows) :
           place[k + 1] = i /\ plan[k + 1] = operations[i] /\ Fitting(rows[i], operations[i])
  BY <1>0, AtPlace
<1> DEFINE d == L[k]  o == operations[i]  next == ApplyOperation(d, o)
<1>2. d \in Ledger /\ Homes(d) /\ Grows(db, d) /\ OpType(o) /\ Needs(d, o)
  BY <1>0, <1>1, NeedsOn DEF Sane, Fitting
<1>3. next = Null \/ ~ RunsIndexed(next)
  BY <1>1 DEF Effect
<1>4. CASE next = Null
  <2>1. \/ o.section = "runs" /\ o.action = "insert" /\ d.runs[o.id] # Null
        \/ /\ o.section = "job_runs" /\ o.action = "insert"
           /\ d.edges[o.id] # Null \/ d.runs[o.id[2]] = Null
        \/ o.section = "sync_events" /\ o.action = "sync_event" /\ o.row.key \in d.syncs
    BY <1>2, <1>4, FailsAt
  <2>2. CASE o.section = "runs" /\ o.action = "insert" /\ d.runs[o.id] # Null
    BY <1>1, <2>2, RunFails
  <2>3. CASE /\ o.section = "job_runs" /\ o.action = "insert"
             /\ d.edges[o.id] # Null \/ d.runs[o.id[2]] = Null
    BY <1>1, <2>3, EdgeFails
  <2>4. CASE o.section = "sync_events" /\ o.action = "sync_event" /\ o.row.key \in d.syncs
    BY <1>1, <2>4, SyncFails
  <2> QED BY <2>1, <2>2, <2>3, <2>4
<1>5. CASE next # Null /\ ~ RunsIndexed(next)
  <2> SUFFICES ASSUME \A j \in 1 .. Len(rows) : ~ Taken(rows[j]),
                      \A j, l \in 1 .. Len(rows) : j # l => ~ Twice(rows[j], rows[l])
               PROVE  FALSE
    OBVIOUS
  <2>1. \A r \in Runs : KnownBy(rows, operations, r, d.runs[r])
    BY CourseKnown
  <2> DEFINE e == next
  <2>2. next \in Ledger /\ Grows(d, next)
    BY <1>2, <1>5, OperationGrows
  <2>3. Grows(db, next)
    BY <1>2, <2>2, GrowsOn
  <2>4. e = ApplyOperation(d, operations[i]) /\ e # Null /\ e \in Ledger /\ Grows(db, e)
    BY <1>5, <2>2, <2>3
  <2> HIDE DEF d, next, e, o
  <2>5. \A r \in Runs : KnownBy(rows, operations, r, e.runs[r])
    BY <1>0, <2>1, <2>4, KnownStep DEF d
  <2>6. RunsIndexed(e)
    BY <2>4, <2>5, KnownIndexed
  <2> QED BY <1>5, <2>6 DEF e
<1> QED BY <1>3, <1>4, <1>5

LEMMA DryRun == db \in Ledger /\ Homes(db) /\ RunsIndexed(db) /\ follows \in Topics => DryRunPredicts
<1> SUFFICES ASSUME db \in Ledger, Homes(db), RunsIndexed(db), follows \in Topics,
                    NEW m \in Manifests[follows], Null \in Outcomes(m)
             PROVE  LET rows == PlannedRows(m) IN
                    \/ \E i \in DOMAIN rows : Taken(rows[i]) \/ Dangling(rows[i], rows)
                    \/ \E i, j \in DOMAIN rows : i # j /\ Twice(rows[i], rows[j])
  BY DEF DryRunPredicts
<1>1. m \in Manifest
  BY ManifestsAssumption
<1> DEFINE rows == PlannedRows(m)
<1>2. PICK operations, place, plan, L : \E k \in 0 .. Len(rows) :
           /\ Planning(rows, operations, place, plan)
           /\ Course(L, db, plan, Len(rows), k)
           /\ Null # Null => k = Len(rows) /\ Null = L[k]
           /\ Null = Null => k < Len(rows) /\ Effect(L[k], plan[k + 1]) = Null
  BY <1>1, OutcomeCourse
<1> HIDE DEF rows
<1>3. PICK k \in 0 .. Len(rows) :
           Underway(rows, operations, place, plan, L, k) /\ k < Len(rows)
           /\ Effect(L[k], plan[k + 1]) = Null
  BY <1>2 DEF Underway
<1>4. DOMAIN rows = 1 .. Len(rows)
  BY <1>3, UnderwayBasics
<1> QED BY <1>3, <1>4, PlanFails DEF rows

-----------------------------------------------------------------------------
(* Where the operation for row i is done.                                  *)
Turn(rows, operations, plan, L, i, n) ==
  /\ n \in 1 .. Len(rows) /\ n - 1 \in 0 .. Len(rows) /\ n \in 0 .. Len(rows)
  /\ Len(rows) \in 0 .. Len(rows) /\ 0 \in 0 .. Len(rows) /\ n <= Len(rows) /\ 0 <= n - 1
  /\ Len(rows) \in Nat
  /\ plan[n] = operations[i] /\ L[n] # Null /\ L[n] = ApplyOperation(L[n - 1], operations[i])
  /\ L[n - 1] \in Ledger /\ Needs(L[n - 1], operations[i])
  /\ \A q \in 1 .. Len(rows) : q # n =>
       \E j \in 1 .. Len(rows) :
         /\ j # i /\ plan[q] = operations[j] /\ Fitting(rows[j], operations[j])
         /\ n < q => Before(operations, i, j)

LEMMA HasTurn ==
  ASSUME NEW rows, NEW operations, NEW place, NEW plan, NEW L,
         Underway(rows, operations, place, plan, L, Len(rows)), NEW i \in 1 .. Len(rows)
  PROVE  \E n : Turn(rows, operations, plan, L, i, n)
<1>1. PICK n \in 1 .. Len(rows) : place[n] = i
  BY DEF Underway, Planning
<1>2. Len(rows) \in Nat /\ Course(L, db, plan, Len(rows), Len(rows))
  BY UnderwayBasics
<1>3. /\ n - 1 \in 0 .. Len(rows) /\ n \in 0 .. Len(rows) /\ Len(rows) \in 0 .. Len(rows)
      /\ 0 \in 0 .. Len(rows) /\ n <= Len(rows) /\ 0 <= n - 1
  BY <1>2
<1>4. plan[n] = operations[i]
  <2>1. plan[n] = operations[place[n]]
    BY PlanningParts, UnderwayBasics DEF Underway
  <2> QED BY <1>1, <2>1
<1>5. /\ L[n] = ApplyOperation(L[n - 1], operations[i]) /\ L[n] # Null
      /\ Needs(L[n - 1], operations[i]) /\ L[n - 1] \in Ledger
  BY <1>2, <1>3, <1>4, CourseSane DEF Sane
<1>6. ASSUME NEW q \in 1 .. Len(rows), q # n
      PROVE  \E j \in 1 .. Len(rows) :
               /\ j # i /\ plan[q] = operations[j] /\ Fitting(rows[j], operations[j])
               /\ n < q => Before(operations, i, j)
  <2>1. PICK j \in 1 .. Len(rows) :
           /\ place[q] = j /\ plan[q] = operations[j] /\ Fitting(rows[j], operations[j])
           /\ \A p \in 1 .. Len(rows) : p # q => place[p] # j
    BY AtPlace
  <2>2. j # i
    BY <1>1, <1>6, <2>1
  <2>3. n < q => Before(operations, place[n], place[q])
    BY DEF Underway, Planning
  <2> QED BY <1>1, <2>1, <2>2, <2>3
<1> QED BY <1>2, <1>3, <1>4, <1>5, <1>6 DEF Turn

-----------------------------------------------------------------------------
LEMMA SyncAgain ==
  ASSUME NEW rows, NEW operations, NEW place, NEW plan, NEW L,
         Underway(rows, operations, place, plan, L, Len(rows)),
         NEW i \in 1 .. Len(rows), rows[i].section = "sync_events", Recognised(rows[i]), NEW new
  PROVE  PlanRow(L[Len(rows)], rows[i], new).action = "noop"
<1> DEFINE row == rows[i]  o == operations[i]  d == L[Len(rows)]
<1>0. Course(L, db, plan, Len(rows), Len(rows)) /\ Sane(db, d)
  BY UnderwayBasics
<1>1. Fitting(row, o)
  BY RowFits
<1>2. row.key # Null /\ row \in SyncRow /\ o.row = row /\ o.section = "sync_events"
      /\ o.action = IF row.key \in db.syncs THEN "noop" ELSE "sync_event"
  BY <1>1, RowKinds DEF Recognised, Fitting, OpFits, SyncFits
<1>3. row.key \in d.syncs
  <2>1. CASE row.key \in db.syncs
    BY <1>0, <2>1 DEF Sane, Grows
  <2>2. CASE row.key \notin db.syncs
    <3>1. PICK n : Turn(rows, operations, plan, L, i, n)
      BY HasTurn
    <3> DEFINE was == L[n - 1]  is == L[n]
    <3>2. was \in Ledger /\ is = ApplyOperation(was, o) /\ is # Null /\ Grows(is, d)
      BY <1>0, <3>1, CourseGrows DEF Turn
    <3> HIDE DEF was, is, d, o, row
    <3>3. is.syncs = was.syncs \cup ({o.row.key} \ {Null})
      BY <1>2, <2>2, <3>2, SyncEffect
    <3> QED BY <1>2, <3>2, <3>3 DEF Grows
  <2> QED BY <2>1, <2>2
<1> HIDE DEF d, row
<1>4. PlanRow(d, row, new) = Operation("sync_events", "noop", row.key, row)
  BY <1>2, <1>3 DEF PlanRow, SyncOperation, SyncRow
<1> QED BY <1>4, OperationFields DEF d, row

LEMMA EdgeAgain ==
  ASSUME NEW rows, NEW operations, NEW place, NEW plan, NEW L,
         Underway(rows, operations, place, plan, L, Len(rows)),
         NEW i \in 1 .. Len(rows), rows[i].section = "job_runs",
         \A j \in 1 .. Len(rows) : i # j => ~ Contradict(rows[i], rows[j]), NEW new
  PROVE  PlanRow(L[Len(rows)], rows[i], new).action = "noop"
<1> DEFINE row == rows[i]  o == operations[i]  d == L[Len(rows)]  pair == row.pair
<1>0. Course(L, db, plan, Len(rows), Len(rows)) /\ L[0] = db /\ db \in Ledger
  BY UnderwayBasics
<1>1. Fitting(row, o)
  BY RowFits
<1>2. row \in EdgeRow /\ EdgeFits(db, row, o) /\ pair \in Jobs \X Runs /\ OpType(o)
      /\ row.section = "job_runs"
  BY <1>1, RowKinds DEF Fitting, OpFits, EdgeRow
<1>3. PICK n : Turn(rows, operations, plan, L, i, n)
  BY HasTurn
<1>4. ASSUME NEW q \in 1 .. Len(rows), q # n PROVE ~ ForEdge(plan[q], pair)
  <2>1. PICK j \in 1 .. Len(rows) :
          j # i /\ plan[q] = operations[j] /\ Fitting(rows[j], operations[j])
    BY <1>3, <1>4 DEF Turn
  <2>2. ForEdge(plan[q], pair) => rows[j].section = "job_runs" /\ rows[j].pair = pair
    BY <2>1 DEF ForEdge, Fitting, OpFits, EdgeFits
  <2>3. ~ Contradict(row, rows[j])
    BY <2>1
  <2> QED BY <1>2, <2>2, <2>3 DEF Contradict
<1> DEFINE was == L[n - 1]  is == L[n]
<1>5. was.edges[pair] = db.edges[pair]
  <2>1. n - 1 \in 0 .. Len(rows) /\ 0 \in 0 .. Len(rows) /\ 0 <= n - 1
        /\ \A q \in 0 + 1 .. n - 1 : q \in 1 .. Len(rows) /\ q # n
    BY <1>3 DEF Turn
  <2>2. L[n - 1].edges[pair] = L[0].edges[pair]
    BY <1>0, <1>2, <1>4, <2>1, EdgeStays
  <2> QED BY <1>0, <2>2
<1>6. d.edges[pair] = is.edges[pair]
  <2>1. Len(rows) \in 0 .. Len(rows) /\ n \in 0 .. Len(rows) /\ n <= Len(rows)
        /\ \A q \in n + 1 .. Len(rows) : q \in 1 .. Len(rows) /\ q # n
    BY <1>3 DEF Turn
  <2>2. L[Len(rows)].edges[pair] = L[n].edges[pair]
    BY <1>0, <1>2, <1>4, <2>1, EdgeStays
  <2> QED BY <2>2
<1>7. was \in Ledger /\ is = ApplyOperation(was, o) /\ is # Null /\ Needs(was, o)
  BY <1>3 DEF Turn
<1> HIDE DEF was, is, d, o, row, pair
<1>8. /\ d.edges[pair] # Null
      /\ row.op = "archive" => d.edges[pair].archived
      /\ row.op # "archive" =>
           d.edges[pair].role = row.role /\ d.edges[pair].status = row.status /\ ~ d.edges[pair].archived
  <2>0. o.section = "job_runs" /\ o.id = pair /\ o.row = row
    BY <1>2 DEF EdgeFits, pair
  <2>1. CASE o.action = "noop"
    <3>1. is = was
      BY <1>7, <2>1 DEF ApplyOperation
    <3>2. d.edges[pair] = db.edges[pair]
      BY <1>5, <1>6, <3>1
    <3>3. db.edges[pair] # Null => db.edges[pair].archived \in BOOLEAN
      BY <1>0, <1>2, LedgerParts DEF Edge
    <3> QED BY <1>2, <2>1, <3>2, <3>3 DEF EdgeFits, Action, pair
  <2>2. CASE o.action # "noop"
    <3>0. o.id \in Jobs \X Runs /\ (o.action = "archive" \/ (o.action \in {"insert", "update"} /\ o.row \in EdgeRow))
      BY <1>2, <2>0, <2>2 DEF OpType
    <3>1. LET old == was.edges[o.id]  edge == is.edges[o.id] IN
          /\ is \in Ledger
          /\ is.edges = [was.edges EXCEPT ![o.id] = edge] /\ edge \in Edge
          /\ o.action = "insert" => old = Null /\ edge.role = o.row.role
          /\ o.action # "insert" => edge.role = old.role
          /\ o.action = "archive" => edge.archived
          /\ o.action # "archive" => edge.status = o.row.status /\ ~edge.archived
          /\ is.runs = was.runs /\ is.links = was.links
          /\ is.experiments = was.experiments /\ is.syncs = was.syncs
      BY <1>7, <2>0, <3>0, EdgeEffect
    <3>2. \A edge \in Edge : edge # Null
      BY NullAssumption
    <3>3. /\ row.op = "archive" => o.action = "archive"
          /\ row.op # "archive" => o.action = "insert" \/ (o.action = "update" /\ db.edges[pair].role = row.role)
      BY <1>2, <2>2 DEF EdgeFits, Action, pair
    <3> QED BY <1>5, <1>6, <2>0, <3>1, <3>2, <3>3
  <2> QED BY <2>1, <2>2
<1>9. PlanRow(d, row, new) = Operation("job_runs", "noop", pair, row)
  BY <1>2, <1>8 DEF PlanRow, EdgeOperation, ArchiveOperation, pair
<1> QED BY <1>9, OperationFields DEF d, row

(* A run stays archived, and is found by its id.                           *)
LEMMA ArchiveAgain ==
  ASSUME NEW rows, NEW operations, NEW place, NEW plan, NEW L,
         Underway(rows, operations, place, plan, L, Len(rows)),
         NEW i \in 1 .. Len(rows), rows[i].section = "runs", rows[i].op = "archive",
         Recognised(rows[i]), NEW new
  PROVE  PlanRow(L[Len(rows)], rows[i], new).action = "noop"
<1> DEFINE row == rows[i]  o == operations[i]  d == L[Len(rows)]  r == row.id
<1>0. Course(L, db, plan, Len(rows), Len(rows)) /\ Sane(db, d) /\ db \in Ledger
  BY UnderwayBasics
<1>1. Fitting(row, o)
  BY RowFits
<1>2. /\ row.section = "runs" /\ row.op = "archive" /\ r # Null /\ db.runs[r] # Null
      /\ row \in RunRow /\ RunFits(db, row, o) /\ OpType(o)
  BY <1>1, RowKinds DEF Recognised, Fitting, OpFits
<1>3. r \in Runs
  BY <1>2, RunRowFields
<1>4. FindRun(db, row) = {r}
  BY <1>2 DEF FindRun
<1>5. o.section = "runs" /\ o.id = r /\ o.action = IF db.runs[r].archived THEN "noop" ELSE "archive"
  BY <1>2, <1>4 DEF RunFits
<1>6. d.runs[r] # Null
  BY <1>0, <1>2, <1>3 DEF Sane, Grows, Keeps
<1>7. d.runs[r].archived
  <2>1. CASE db.runs[r].archived
    BY <1>0, <1>2, <1>3, <1>6, <2>1 DEF Sane, Grows
  <2>2. CASE ~ db.runs[r].archived
    <3>1. PICK n : Turn(rows, operations, plan, L, i, n)
      BY HasTurn
    <3> DEFINE was == L[n - 1]  is == L[n]
    <3>2. was \in Ledger /\ is = ApplyOperation(was, o) /\ Needs(was, o) /\ Grows(is, d)
      BY <1>0, <3>1, CourseGrows DEF Turn
    <3> HIDE DEF was, is, d, o, row, r
    <3>3. o.id \in Runs /\ o.action = "archive" /\ was.runs[o.id] # Null
      BY <1>3, <1>5, <2>2, <3>2 DEF Needs
    <3>4. LET old == was.runs[o.id]  run == is.runs[o.id] IN
          /\ is \in Ledger /\ is # Null
          /\ is.runs = [was.runs EXCEPT ![o.id] = run] /\ run \in Run /\ old \in Run
          /\ run.home = old.home /\ run.key = old.key /\ run.external = old.external
          /\ o.section = "runs" => run.archived /\ run.attrs = old.attrs
          /\ o.section # "runs" => run.archived = old.archived /\ run.attrs = old.attrs \cup o.row.attrs
          /\ is.links = was.links
          /\ is.experiments = was.experiments /\ is.edges = was.edges /\ is.syncs = was.syncs
      BY <1>5, <3>2, <3>3, RunKept
    <3>5. is.runs[r] # Null /\ is.runs[r].archived
      BY <1>5, <3>4, NullAssumption
    <3> QED BY <1>3, <1>6, <3>2, <3>5 DEF Grows
  <2> QED BY <2>1, <2>2
<1> HIDE DEF d, row
<1>8. FindRun(d, row) = {r}
  BY <1>2, <1>6 DEF FindRun
<1>9. (CHOOSE s \in FindRun(d, row) : TRUE) = r
  BY <1>8
<1>10. PlanRow(d, row, new) = ArchiveOperation(row, r, TRUE, TRUE)
  BY <1>2, <1>7, <1>8, <1>9 DEF PlanRow, RunOperation
<1>11. PlanRow(d, row, new) = Operation(row.section, "noop", r, row)
  BY <1>10 DEF ArchiveOperation
<1> QED BY <1>11, OperationFields DEF d, row

-----------------------------------------------------------------------------
(* Attributes A of a run, and a stretch of the plan that drops none.       *)
Holds(plan, r, A, a, b) ==
  \A q \in a + 1 .. b :
    IsRunRow(plan[q], r) /\ plan[q].action \in {"insert", "update"} => A \subseteq plan[q].row.attrs

Carries(d, r, A) == d.runs[r] # Null /\ A \subseteq d.runs[r].attrs

LEMMA AttrsStay ==
  ASSUME NEW rows, NEW operations, NEW place, NEW plan, NEW L,
         Underway(rows, operations, place, plan, L, Len(rows)),
         NEW a \in 0 .. Len(rows), NEW b \in 0 .. Len(rows), a <= b, NEW r \in Runs, NEW A,
         Carries(L[a], r, A), Holds(plan, r, A, a, b)
  PROVE  Carries(L[b], r, A)
<1> USE DEF Carries, Holds
<1> DEFINE G == {q \in Nat : L[q].runs[r] # Null /\ A \subseteq L[q].runs[r].attrs}
<1>0. a \in Nat /\ b \in Nat /\ Len(rows) \in Nat /\ a \in G
      /\ Course(L, db, plan, Len(rows), Len(rows))
  BY UnderwayBasics
<1>1. ASSUME NEW q \in a + 1 .. b, q - 1 \in G PROVE q \in G
  <2> DEFINE o == plan[q]  was == L[q - 1]  is == L[q]
  <2>1. q \in 1 .. Len(rows) /\ q - 1 \in 0 .. Len(rows) /\ q \in Nat
    BY <1>0
  <2>2. /\ was \in Ledger /\ Homes(was) /\ is = ApplyOperation(was, o) /\ is # Null
        /\ OpType(o) /\ Needs(was, o) /\ Frame(was, o, is)
    BY <1>0, <2>1, CourseSane DEF Sane
  <2>3. was.runs[r] # Null /\ A \subseteq was.runs[r].attrs
    BY <1>1
  <2>4. IsRunRow(o, r) /\ o.action \in {"insert", "update"} => A \subseteq o.row.attrs
    OBVIOUS
  <2>5. \E i \in 1 .. Len(rows) : o = operations[i]
    BY <2>1, AtPlace
  <2> HIDE DEF o, was, is
  <2>6. is.runs[r] # Null /\ A \subseteq is.runs[r].attrs
    <3>1. CASE ~ ForRun(o, r) \/ o.action = "noop"
      <4>1. is.runs[r] = was.runs[r]
        BY <2>2, <3>1 DEF Frame, ApplyOperation
      <4> QED BY <2>3, <4>1
    <3>2. CASE ForRun(o, r) /\ o.action # "noop" /\ ~ (o.section = "runs" /\ o.action \in {"insert", "update"})
      <4>1. /\ o.id = r
            /\ \/ o.section = "runs" /\ o.action = "archive"
               \/ o.section = "custom_attributes" /\ o.action = "update" /\ o.row \in AttrsRow
        BY <2>2, <3>2 DEF ForRun, OpType
      <4>2. o.id \in Runs /\ was.runs[o.id] # Null
        BY <2>3, <4>1
      <4>3. LET old == was.runs[o.id]  run == is.runs[o.id] IN
            /\ is \in Ledger /\ is # Null
            /\ is.runs = [was.runs EXCEPT ![o.id] = run] /\ run \in Run /\ old \in Run
            /\ run.home = old.home /\ run.key = old.key /\ run.external = old.external
            /\ o.section = "runs" => run.archived /\ run.attrs = old.attrs
            /\ o.section # "runs" => run.archived = old.archived /\ run.attrs = old.attrs \cup o.row.attrs
            /\ is.links = was.links
            /\ is.experiments = was.experiments /\ is.edges = was.edges /\ is.syncs = was.syncs
        BY <2>2, <4>1, <4>2, RunKept
      <4> QED BY <2>3, <4>1, <4>3, NullAssumption
    <3>3. CASE ForRun(o, r) /\ o.section = "runs" /\ o.action \in {"insert", "update"}
      <4>1. o.id = r /\ o.row \in RunRow /\ o.row.attrs # Null /\ A \subseteq o.row.attrs
        BY <2>2, <2>4, <3>3 DEF ForRun, IsRunRow, OpType
      <4>2. WrittenRun(was, o) \in Run /\ is.runs = [was.runs EXCEPT ![o.id] = WrittenRun(was, o)]
        BY <2>2, <3>3, <4>1, RunEffect
      <4>3. is.runs[r] = WrittenRun(was, o) /\ is.runs[r] # Null
        BY <2>2, <4>1, <4>2, LedgerParts, NullAssumption
      <4>4. o.row.attrs \in SUBSET Attrs
        BY <4>1, RunRowFields
      <4>5. PICK i \in 1 .. Len(rows) : o = operations[i]
        BY <2>5
      <4>6. RunPlanned(rows[i], o)
        BY <3>3, <4>5, RunOperationOf
      <4> DEFINE row == rows[i]
      <4>7. RunPlanned(row, o) /\ (o.action = "update" => was.runs[o.id] # Null)
        BY <2>3, <4>1, <4>6
      <4> HIDE DEF row
      <4>8. LET run == WrittenRun(was, o)  old == was.runs[o.id] IN
            /\ o.action = "insert" =>
                 /\ run.home = row.exp /\ run.key = row.key /\ run.external = row.external
                 /\ run.archived = FALSE
            /\ o.action = "update" =>
                 /\ run.home = Either(row.exp, old.home) /\ run.key = Either(row.key, old.key)
                 /\ run.external = Either(row.external, old.external) /\ run.archived = old.archived
            /\ run.attrs = o.row.attrs
        BY <2>2, <3>3, <4>4, <4>7, WrittenFields
      <4> QED BY <4>1, <4>3, <4>8
    <3> QED BY <3>1, <3>2, <3>3
  <2> QED BY <2>1, <2>6 DEF is
<1> HIDE DEF G
<1>2. b \in G
  BY <1>0, <1>1, Stages
<1> QED BY <1>2 DEF G

(* The attributes of a row are there after it, and what comes later keeps  *)
(* them: updates of runs come first.                                       *)
LEMMA AttrsAgain ==
  ASSUME NEW rows, NEW operations, NEW place, NEW plan, NEW L,
         Underway(rows, operations, place, plan, L, Len(rows)),
         NEW i \in 1 .. Len(rows), rows[i].section = "custom_attributes",
         \A j \in 1 .. Len(rows) : i # j => ~ Contradict(rows[j], rows[i]), NEW new
  PROVE  PlanRow(L[Len(rows)], rows[i], new).action = "noop"
<1> DEFINE row == rows[i]  o == operations[i]  d == L[Len(rows)]  r == row.run
<1>0. /\ Course(L, db, plan, Len(rows), Len(rows)) /\ L[0] = db /\ db \in Ledger /\ Sane(db, d)
      /\ Len(rows) \in Nat
  BY UnderwayBasics
<1>1. Fitting(row, o)
  BY RowFits
<1>2. /\ row.section = "custom_attributes" /\ row \in AttrsRow /\ AttrsFits(db, row, o) /\ r \in Runs
      /\ db.runs[r] # Null /\ o.section = "custom_attributes" /\ o.id = r /\ o.row = row
      /\ o.action = Action(~ (row.attrs \subseteq db.runs[r].attrs)) /\ OpType(o)
  BY <1>1, RowKinds DEF Fitting, OpFits, AttrsRow, AttrsFits
<1>3. PICK n : Turn(rows, operations, plan, L, i, n)
  BY HasTurn
<1>4. ASSUME NEW q \in 1 .. Len(rows), IsRunRow(plan[q], r), plan[q].action \in {"insert", "update"}
      PROVE  /\ plan[q].action = "update" /\ db.runs[r].attrs \subseteq plan[q].row.attrs
             /\ n < q => o.action # "update"
  <2>1. q # n
    BY <1>2, <1>3, <1>4 DEF Turn, IsRunRow
  <2>2. PICK j \in 1 .. Len(rows) :
          /\ j # i /\ plan[q] = operations[j] /\ Fitting(rows[j], operations[j])
          /\ n < q => Before(operations, i, j)
    BY <1>3, <2>1 DEF Turn
  <2> DEFINE u == operations[j]  other == rows[j]
  <2>3. u.section = "runs" /\ u.id = r /\ u.action \in {"insert", "update"}
    BY <1>4, <2>2 DEF IsRunRow
  <2>4. RunPlanned(other, u)
    BY <2>3, RunOperationOf
  <2>5. ~ Contradict(other, row)
    BY <2>2
  <2>6. n < q => Before(operations, i, j)
    BY <2>2
  <2>7. n < q => o.action # "update"
    <3> SUFFICES ASSUME n < q, o.action = "update" PROVE FALSE
      OBVIOUS
    <3>1. Before(operations, i, j)
      BY <2>6
    <3>2. Rank[o.action] = 2 /\ Section[o.section] = 7
      BY <1>2 DEF Rank, Section
    <3>3. Rank[u.action] \in {0, 2} /\ Section[u.section] = 0 /\ o.section # u.section
      BY <1>2, <2>3 DEF Rank, Section
    <3> HIDE DEF o, u
    <3>4. \/ Rank[o.action] < Rank[u.action]
          \/ /\ Rank[o.action] = Rank[u.action]
             /\ Section[o.section] < Section[u.section] \/ (o.section = u.section /\ i < j)
      BY <3>1 DEF Before, o, u
    <3> QED BY <3>2, <3>3, <3>4
  <2> HIDE DEF u, other, row, o, d, r
  <2>8. FindRun(db, other) = {r} /\ u.action = "update" /\ other.section = "runs"
    BY <1>2, <2>3, <2>4 DEF RunPlanned
  <2>9. other.attrs = Null
    <3>1. r # Null
      BY <1>2, NullAssumption
    <3>2. r \in Named(other)
      BY <2>8, <3>1 DEF Named
    <3> QED BY <1>2, <2>5, <2>8, <3>2 DEF Contradict, r
  <2>10. u.row.attrs = db.runs[r].attrs
    BY <1>2, <2>3, <2>4, <2>8, <2>9 DEF RunPlanned, RunFits, Either
  <2> QED BY <2>2, <2>7, <2>8, <2>10 DEF u
<1>5. n \in 1 .. Len(rows) /\ n \in 0 .. Len(rows) /\ Len(rows) \in 0 .. Len(rows) /\ 0 \in 0 .. Len(rows)
      /\ n <= Len(rows) /\ 0 <= Len(rows)
  BY <1>3 DEF Turn
<1>6. row.attrs \subseteq d.runs[r].attrs
  <2>1. CASE o.action = "noop"
    <3>1. row.attrs \subseteq db.runs[r].attrs
      BY <1>2, <2>1 DEF Action
    <3>2. \A q \in 0 + 1 .. Len(rows) : q \in 1 .. Len(rows)
      BY <1>0
    <3> DEFINE A == db.runs[r].attrs
    <3>3. Holds(plan, r, A, 0, Len(rows))
      BY <1>4, <3>2 DEF Holds
    <3>4. Carries(L[0], r, A)
      BY <1>0, <1>2 DEF Carries
    <3> HIDE DEF A, r
    <3>5. Carries(L[Len(rows)], r, A)
      BY <1>2, <1>5, <3>3, <3>4, AttrsStay
    <3> QED BY <3>1, <3>5 DEF A, Carries
  <2>2. CASE o.action # "noop"
    <3>1. o.action = "update"
      BY <1>2, <2>2 DEF Action
    <3>2. \A q \in n + 1 .. Len(rows) : q \in 1 .. Len(rows) /\ n < q
      BY <1>5
    <3>3. L[n].runs[r] # Null /\ row.attrs \subseteq L[n].runs[r].attrs
      <4> DEFINE was == L[n - 1]  is == L[n]
      <4>1. was \in Ledger /\ is = ApplyOperation(was, o) /\ is # Null /\ Needs(was, o)
        BY <1>3 DEF Turn
      <4> HIDE DEF was, is, o, row, d, r
      <4>2. o.id \in Runs /\ was.runs[o.id] # Null
        BY <1>2, <3>1, <4>1 DEF Needs
      <4>3. LET old == was.runs[o.id]  run == is.runs[o.id] IN
            /\ run \in Run
            /\ run.home = old.home /\ run.key = old.key /\ run.external = old.external
            /\ run.archived = old.archived /\ run.attrs = old.attrs \cup o.row.attrs
        BY <1>2, <3>1, <4>1, <4>2, AttrsAdded, SMTT(30)
      <4> QED BY <1>2, <4>3, NullAssumption DEF is
    <3> DEFINE A == row.attrs
    <3>4. Holds(plan, r, A, n, Len(rows))
      BY <1>4, <3>1, <3>2 DEF Holds
    <3>5. Carries(L[n], r, A)
      BY <3>3 DEF Carries
    <3> HIDE DEF A, r
    <3>6. Carries(L[Len(rows)], r, A)
      BY <1>2, <1>5, <3>4, <3>5, AttrsStay
    <3> QED BY <3>6 DEF A, Carries
  <2> QED BY <2>1, <2>2
<1>7. d.runs[r] # Null
  BY <1>0, <1>2 DEF Sane, Grows, Keeps
<1> HIDE DEF d, row
<1>8. PlanRow(d, row, new) = Operation("custom_attributes", "noop", r, row)
  BY <1>2, <1>6, <1>7 DEF PlanRow, AttrsOperation
<1> QED BY <1>8, OperationFields DEF d, row

-----------------------------------------------------------------------------
(* A row for a run that no other row contradicts.                          *)
Uncontradicted(rows, i) ==
  \A j \in 1 .. Len(rows) : i # j => ~ Contradict(rows[i], rows[j]) /\ ~ Contradict(rows[j], rows[i])

(* What no other operation is for.                                         *)
OnlyRow(rows, operations, i) ==
  LET row == rows[i]  r == operations[i].id IN
  /\ \A j \in 1 .. Len(rows) : j # i =>
       /\ ~ IsRunRow(operations[j], r)
       /\ row.attrs # Null => ~ ForRun(operations[j], r)
       /\ row.id # Null /\ row.id # r => ~ ForRun(operations[j], row.id)
  /\ row.id # Null /\ row.id # r => db.runs[row.id] = Null

LEMMA RowAlone ==
  ASSUME NEW rows, NEW operations, NEW place, NEW plan, NEW L,
         Underway(rows, operations, place, plan, L, Len(rows)),
         NEW i \in 1 .. Len(rows), Upserts(rows[i]), Uncontradicted(rows, i)
  PROVE  OnlyRow(rows, operations, i)
<1> DEFINE row == rows[i]  o == operations[i]  r == o.id
<1>0. db \in Ledger /\ RunsIndexed(db)
  BY UnderwayBasics
<1>1. o.section = "runs" /\ RunPlanned(row, o) /\ row.section = "runs"
  <2>1. o.section = "runs"
    BY RowFits DEF Fitting, Upserts
  <2> QED BY <2>1, RunOperationOf DEF Upserts
<1>2. r \in Runs /\ r # Null
  BY <1>1, NullAssumption DEF RunPlanned
<1>3. row.id \in Runs \cup {Null}
  BY <1>1, RunRowFields DEF RunPlanned
<1>4. row.id # Null /\ row.id # r => db.runs[row.id] = Null /\ o.action # "insert"
  <2> HIDE DEF row, o
  <2>1. row.id # Null /\ db.runs[row.id] # Null => FindRun(db, row) = {row.id}
    BY DEF FindRun
  <2> QED BY <1>1, <2>1 DEF RunPlanned
<1>5. ASSUME NEW j \in 1 .. Len(rows), j # i
      PROVE  /\ ~ IsRunRow(operations[j], r)
             /\ row.attrs # Null => ~ ForRun(operations[j], r)
             /\ row.id # Null /\ row.id # r => ~ ForRun(operations[j], row.id)
  <2> DEFINE other == rows[j]  u == operations[j]
  <2>1. ~ Contradict(row, other) /\ ~ Contradict(other, row)
    BY <1>5 DEF Uncontradicted
  <2>2. Fitting(other, u)
    BY RowFits
  <2>3. u.section = "runs" => RunPlanned(other, u)
    BY RunOperationOf
  <2>4. u.section = "custom_attributes" =>
          /\ other.section = "custom_attributes" /\ other.run = u.id /\ db.runs[u.id] # Null
    BY <2>2 DEF Fitting, OpFits, AttrsFits
  <2>5. ~ IsRunRow(u, r)
    <3> SUFFICES ASSUME IsRunRow(u, r) PROVE FALSE
      OBVIOUS
    <3>1. u.section = "runs" /\ u.id = r /\ RunPlanned(other, u)
      BY <2>3 DEF IsRunRow
    <3>2. r \in Named(row) /\ r \in Named(other)
      <4>1. CASE o.action = "insert"
        <5>1. row.id = r /\ other.id = r
          BY <1>1, <1>5, <3>1, <4>1, InsertedTwice
        <5> QED BY <1>2, <5>1 DEF Named
      <4>2. CASE o.action # "insert"
        <5> HIDE DEF row, other, o, u
        <5>1. FindRun(db, row) = {r} /\ db.runs[r] # Null
          BY <1>1, <4>2 DEF RunPlanned
        <5>2. FindRun(db, other) = {r}
          BY <3>1, <5>1 DEF RunPlanned
        <5> QED BY <1>2, <5>1, <5>2 DEF Named
      <4> QED BY <4>1, <4>2
    <3>3. other.section = "runs"
      BY <3>1 DEF RunPlanned
    <3> HIDE DEF row, other
    <3> QED BY <1>1, <2>1, <3>2, <3>3 DEF Contradict
  <2>6. row.attrs # Null => ~ ForRun(u, r)
    <3> SUFFICES ASSUME row.attrs # Null, ForRun(u, r) PROVE FALSE
      OBVIOUS
    <3>1. u.section = "custom_attributes" /\ u.id = r
      BY <2>5 DEF ForRun, IsRunRow
    <3>2. other.section = "custom_attributes" /\ other.run = r /\ db.runs[r] # Null
      BY <2>4, <3>1
    <3> HIDE DEF row, other, o, u
    <3>3. FindRun(db, row) = {r}
      BY <1>1, <3>2 DEF RunPlanned
    <3>4. r \in Named(row)
      BY <1>2, <3>3 DEF Named
    <3> QED BY <1>1, <2>1, <3>2, <3>4 DEF Contradict
  <2>7. row.id # Null /\ row.id # r => ~ ForRun(u, row.id)
    <3> SUFFICES ASSUME row.id # Null, row.id # r, ForRun(u, row.id) PROVE FALSE
      OBVIOUS
    <3>1. db.runs[row.id] = Null
      BY <1>4
    <3>2. u.section = "runs" /\ u.id = row.id
      BY <2>4, <3>1 DEF ForRun
    <3>3. RunPlanned(other, u) /\ db.runs[u.id] = Null
      BY <2>3, <3>1, <3>2
    <3>4. other.section = "runs" /\ FindRun(db, other) = {} /\ other.op # "archive" /\ other \in RunRow
          /\ (other.id # Null => other.id = u.id)
      <4> HIDE DEF other, u, row
      <4> QED BY <3>3 DEF RunPlanned
    <3>5. CASE other.id # Null
      <4>1. row.id \in Named(other) /\ row.id \in Named(row)
        BY <3>2, <3>4, <3>5 DEF Named
      <4> HIDE DEF row, other
      <4> QED BY <1>1, <2>1, <3>4, <4>1 DEF Contradict
    <3>6. CASE other.id = Null
      <4>1. other.op = Null
        BY <3>4, RunRowFields
      <4>2. Unnamed(db, other)
        BY <3>4, <3>6, <4>1 DEF Unnamed
      <4>3. row.id # u.id
        BY <1>1, <4>2 DEF Underway, Planning
      <4> QED BY <3>2, <4>3
    <3> QED BY <3>5, <3>6
  <2> QED BY <2>5, <2>6, <2>7
<1> QED BY <1>4, <1>5 DEF OnlyRow

-----------------------------------------------------------------------------
(* Run r is as a row asks, and active if it was.                           *)
Matches(d, r, row) ==
  /\ d.runs[r] # Null /\ ~ RunDiffers(d, r, row)
  /\ d.runs[r].archived => db.runs[r] # Null /\ db.runs[r].archived

LEMMA MatchesOn ==
  ASSUME NEW c, NEW d, NEW r, NEW row, Matches(c, r, row), Alike(c.runs[r], d.runs[r]),
         row.attrs # Null => d.runs[r] = c.runs[r], c.links \subseteq d.links
  PROVE  Matches(d, r, row)
BY DEF Matches, Alike, RunDiffers

(* A run is as a row asks once the operation for it is done.               *)
LEMMA MatchesAfter ==
  ASSUME db \in Ledger, NEW row, NEW o, RunPlanned(row, o), row.op # "archive", OpType(o),
         o.section = "runs",
         row.exp = Null => \A r \in FindRun(db, row) : db.runs[r].home = Null,
         NEW was \in Ledger, Needs(was, o), NEW is, is = ApplyOperation(was, o), is # Null,
         Alike(db.runs[o.id], was.runs[o.id]), db.links \subseteq was.links,
         row.attrs # Null => was.runs[o.id] = db.runs[o.id]
  PROVE  Matches(is, o.id, row)
<1> DEFINE r == o.id  first == db.runs[r]  old == was.runs[r]  run == is.runs[r]
<1>0. r \in Runs /\ RunFits(db, row, o)
  BY DEF RunPlanned
<1>1. o.action \in {"insert", "update", "noop"} /\ o.row.exp = row.exp
      /\ (row.exp = Null /\ o.action # "insert" => first.home = Null)
      /\ (o.action # "insert" => first # Null /\ FindRun(db, row) = {r})
  BY <1>0 DEF RunPlanned, RunFits, Action
<1>2. CASE o.action = "noop"
  <2>1. is = was
    BY <1>2 DEF ApplyOperation
  <2>2. ~ RunDiffers(db, r, row) /\ first # Null
    <3>1. FindRun(db, row) # {} /\ o.action = Action(RunDiffers(db, r, row))
      BY <1>0, <1>2 DEF RunPlanned, RunFits
    <3> QED BY <1>1, <1>2, <3>1 DEF Action
  <2>3. Matches(db, r, row)
    BY <2>2 DEF Matches
  <2> QED BY <2>1, <2>3, MatchesOn
<1>3. CASE o.action # "noop"
  <2>0. o.action \in {"insert", "update"}
    BY <1>1, <1>3
  <2>1. o.row \in RunRow /\ o.row.attrs # Null /\ o.row.attrs \in SUBSET Attrs
    <3>1. o.row \in RunRow /\ o.row.attrs # Null
      BY <2>0 DEF OpType
    <3> QED BY <3>1, RunRowFields
  <2>2. /\ o.action = "insert" => was.runs[o.id] = Null
        /\ is \in Ledger
        /\ WrittenRun(was, o) \in Run
        /\ is.runs = [was.runs EXCEPT ![o.id] = WrittenRun(was, o)]
        /\ is.links = LinksWith(was, o.row.exp, o.id)
        /\ is.experiments = was.experiments /\ is.edges = was.edges /\ is.syncs = was.syncs
    BY <1>0, <2>0, <2>1, RunEffect
  <2>3. run = WrittenRun(was, o) /\ run # Null
    BY <1>0, <2>2, LedgerParts, NullAssumption
  <2>4. o.action = "update" => old # Null
    BY <1>0 DEF Needs
  <2>5. LET w == WrittenRun(was, o)  v == was.runs[o.id] IN
        /\ o.action = "insert" =>
             /\ w.home = row.exp /\ w.key = row.key /\ w.external = row.external
             /\ w.archived = FALSE
        /\ o.action = "update" =>
             /\ w.home = Either(row.exp, v.home) /\ w.key = Either(row.key, v.key)
             /\ w.external = Either(row.external, v.external) /\ w.archived = v.archived
        /\ w.attrs = o.row.attrs
    BY <2>0, <2>1, <2>4, WrittenFields, ZenonT(60)
  <2>6. row.attrs # Null => o.row.attrs = row.attrs
    BY <1>0, <2>0 DEF RunFits, Either
  <2>7. run.home = row.exp
    BY <1>1, <2>0, <2>3, <2>4, <2>5 DEF Alike, Either
  <2>8. /\ row.key # Null => run.key = row.key
        /\ row.external # Null => run.external = row.external
        /\ row.attrs # Null => run.attrs = row.attrs
    BY <2>0, <2>3, <2>5, <2>6 DEF Either
  <2>9. row.exp # Null => <<row.exp, r>> \in is.links
    BY <1>1, <2>2 DEF LinksWith
  <2>10. run.archived => first # Null /\ first.archived
    BY <1>1, <2>0, <2>3, <2>4, <2>5 DEF Alike
  <2> HIDE DEF run, first, r
  <2>11. ~ RunDiffers(is, r, row)
    BY <2>7, <2>8, <2>9 DEF RunDiffers, run
  <2> QED BY <2>3, <2>10, <2>11 DEF Matches, run, first, r
<1> QED BY <1>2, <1>3

(* A run that is as the row asks is the run that is found for it.          *)
LEMMA FoundAgain ==
  ASSUME db \in Ledger, RunsIndexed(db), NEW row, NEW o, RunPlanned(row, o), row.op # "archive",
         row.id # Null \/ row.external # Null \/ Null \notin {row.exp, row.key},
         NEW d \in Ledger, RunsIndexed(d), Matches(d, o.id, row),
         row.id # Null /\ row.id # o.id => d.runs[row.id] = Null /\ db.runs[row.id] = Null
  PROVE  FindRun(d, row) = {o.id}
<1> DEFINE r == o.id
<1>0. /\ r \in Runs /\ row \in RunRow
      /\ FindRun(db, row) = {} \/ (FindRun(db, row) = {r} /\ db.runs[r] # Null)
      /\ FindRun(db, row) = {} => db.runs[r] = Null
      /\ FindRun(db, row) = {} /\ row.id # Null => row.id = r
      /\ d.runs[r] # Null
  BY DEF RunPlanned, Matches
<1>1. /\ row.exp \in Experiments \cup {Null} /\ row.key \in Keys \cup {Null}
      /\ row.external \in Externals \cup {Null} /\ row.id \in Runs \cup {Null}
  BY <1>0, RunRowFields
<1>2. CASE row.id # Null /\ row.id = r
  BY <1>0, <1>2 DEF FindRun
<1>3. CASE row.id = Null \/ row.id # r
  <2>1. row.id # Null => d.runs[row.id] = Null /\ db.runs[row.id] = Null /\ FindRun(db, row) = {r}
    BY <1>0, <1>3
  <2>2. IsActive(d.runs[r])
    <3>1. db.runs[r] # Null => IsActive(db.runs[r])
      BY <1>0, <2>1, FoundOne
    <3> QED BY <3>1 DEF Matches, IsActive
  <2>3. ~ (row.id # Null /\ d.runs[row.id] # Null) /\ ~ (row.id # Null /\ db.runs[row.id] # Null)
    BY <2>1
  <2>4. CASE Null \notin {row.exp, row.key}
    <3>1. FindRun(d, row) = WithKey(d, row.exp, row.key)
      BY <2>3, <2>4 DEF FindRun
    <3>2. r \in WithKey(d, row.exp, row.key)
      BY <1>0, <2>2, <2>4 DEF WithKey, Matches, RunDiffers
    <3>3. \A s \in WithKey(d, row.exp, row.key) : s = r
      BY <1>1, <2>4, <3>2 DEF RunsIndexed
    <3> QED BY <3>1, <3>2, <3>3
  <2>5. CASE ~ (Null \notin {row.exp, row.key})
    <3>1. FindRun(d, row) = WithExternal(d, row.external) /\ FindRun(db, row) = WithExternal(db, row.external)
      BY <2>3, <2>5 DEF FindRun
    <3>2. row.external # Null
      <4>1. row.external = Null => FindRun(db, row) = {}
        BY <3>1 DEF WithExternal
      <4> QED BY <2>1, <2>5, <4>1
    <3>3. r \in WithExternal(d, row.external)
      BY <1>0, <2>2, <3>2 DEF WithExternal, Matches, RunDiffers
    <3>4. \A s \in WithExternal(d, row.external) : s = r
      BY <1>1, <3>2, <3>3 DEF RunsIndexed
    <3> QED BY <3>1, <3>3, <3>4
  <2> QED BY <2>4, <2>5
<1> QED BY <1>2, <1>3

-----------------------------------------------------------------------------
LEMMA RunAgain ==
  ASSUME NEW rows, NEW operations, NEW place, NEW plan, NEW L,
         Underway(rows, operations, place, plan, L, Len(rows)),
         NEW i \in 1 .. Len(rows), Upserts(rows[i]), Recognised(rows[i]), Uncontradicted(rows, i), NEW new
  PROVE  PlanRow(L[Len(rows)], rows[i], new).action = "noop"
<1> DEFINE row == rows[i]  o == operations[i]  d == L[Len(rows)]  r == o.id
<1>0. /\ Course(L, db, plan, Len(rows), Len(rows)) /\ L[0] = db /\ db \in Ledger /\ RunsIndexed(db)
      /\ d \in Ledger /\ RunsIndexed(d) /\ Grows(db, d) /\ Len(rows) \in Nat
  BY UnderwayBasics DEF Sane
<1>1. row.section = "runs" /\ row.op # "archive" /\ o.section = "runs" /\ RunPlanned(row, o) /\ OpType(o)
  <2>1. row.section = "runs" /\ row.op # "archive"
    BY DEF Upserts
  <2>2. o.section = "runs" /\ OpType(o)
    BY <2>1, RowFits DEF Fitting
  <2> QED BY <2>1, <2>2, RunOperationOf
<1>2. OnlyRow(rows, operations, i)
  BY RowAlone
<1>3. /\ row.id # Null \/ row.external # Null \/ Null \notin {row.exp, row.key}
      /\ row.exp = Null => \A s \in FindRun(db, row) : db.runs[s].home = Null
  <2> HIDE DEF row
  <2> QED BY <1>1 DEF Recognised, row
<1>4. r \in Runs /\ row.id \in Runs \cup {Null} /\ row.exp \in Experiments \cup {Null}
  BY <1>1, RunRowFields DEF RunPlanned
<1>5. PICK n : Turn(rows, operations, plan, L, i, n)
  BY HasTurn
<1> DEFINE was == L[n - 1]  is == L[n]
<1>6. /\ was \in Ledger /\ Needs(was, o) /\ is = ApplyOperation(was, o) /\ is # Null
      /\ n - 1 \in 0 .. Len(rows) /\ n \in 0 .. Len(rows) /\ Len(rows) \in 0 .. Len(rows)
      /\ 0 \in 0 .. Len(rows) /\ 0 <= n - 1 /\ n <= Len(rows) /\ n \in 1 .. Len(rows)
      /\ \A q \in 0 + 1 .. n - 1 : q \in 1 .. Len(rows) /\ q # n
      /\ \A q \in n + 1 .. Len(rows) : q \in 1 .. Len(rows) /\ q # n
  BY <1>5 DEF Turn
<1>7. ASSUME NEW q \in 1 .. Len(rows), q # n
      PROVE  /\ ~ IsRunRow(plan[q], r)
             /\ row.attrs # Null => ~ ForRun(plan[q], r)
             /\ row.id # Null /\ row.id # r => ~ ForRun(plan[q], row.id)
  <2>1. PICK j \in 1 .. Len(rows) : j # i /\ plan[q] = operations[j]
    BY <1>5, <1>7 DEF Turn
  <2>2. /\ ~ IsRunRow(operations[j], r)
        /\ row.attrs # Null => ~ ForRun(operations[j], r)
        /\ row.id # Null /\ row.id # r => ~ ForRun(operations[j], row.id)
    BY <1>2, <2>1 DEF OnlyRow
  <2> QED BY <2>1, <2>2
<1>8. /\ Alike(L[0].runs[r], L[n - 1].runs[r]) /\ Alike(L[n].runs[r], L[Len(rows)].runs[r])
      /\ row.attrs # Null => L[n - 1].runs[r] = L[0].runs[r] /\ L[Len(rows)].runs[r] = L[n].runs[r]
  <2> HIDE DEF r
  <2>1. Alike(L[0].runs[r], L[n - 1].runs[r])
    BY <1>0, <1>4, <1>6, <1>7, RunAlike
  <2>2. Alike(L[n].runs[r], L[Len(rows)].runs[r])
    BY <1>0, <1>4, <1>6, <1>7, RunAlike
  <2>3. row.attrs # Null => L[n - 1].runs[r] = L[0].runs[r]
    BY <1>0, <1>4, <1>6, <1>7, RunStays, SMTT(30)
  <2>4. row.attrs # Null => L[Len(rows)].runs[r] = L[n].runs[r]
    <3> SUFFICES ASSUME row.attrs # Null PROVE L[Len(rows)].runs[r] = L[n].runs[r]
      OBVIOUS
    <3>1. \A q \in n + 1 .. Len(rows) : ~ ForRun(plan[q], r)
      BY <1>6, <1>7
    <3> QED BY <1>0, <1>4, <1>6, <3>1, RunStays, SMTT(30)
  <2> QED BY <2>1, <2>2, <2>3, <2>4
<1>9. Grows(db, was) /\ Grows(is, d)
  <2>1. Grows(L[0], L[n - 1])
    BY <1>0, <1>6, CourseGrows
  <2>2. Grows(L[n], L[Len(rows)])
    BY <1>0, <1>6, CourseGrows
  <2> QED BY <1>0, <2>1, <2>2
<1>10. row.id # Null /\ row.id # r => d.runs[row.id] = Null /\ db.runs[row.id] = Null
  <2> SUFFICES ASSUME row.id # Null, row.id # r PROVE d.runs[row.id] = Null /\ db.runs[row.id] = Null
    OBVIOUS
  <2> DEFINE s == row.id
  <2>1. db.runs[s] = Null /\ s \in Runs
    BY <1>2, <1>4 DEF OnlyRow
  <2>2. \A q \in 1 .. Len(rows) : ~ ForRun(plan[q], s)
    <3>1. ~ ForRun(plan[n], s)
      BY <1>5 DEF Turn, ForRun
    <3> QED BY <1>7, <3>1
  <2>3. \A q \in 0 + 1 .. Len(rows) : ~ ForRun(plan[q], s)
    BY <2>2
  <2> HIDE DEF s
  <2>4. L[Len(rows)].runs[s] = L[0].runs[s]
    <3>1. 0 <= Len(rows)
      BY <1>0
    <3> QED BY <1>0, <1>6, <2>1, <2>3, <3>1, RunStays
  <2> QED BY <1>0, <2>1, <2>4 DEF s
<1> HIDE DEF was, is, d, row, o
<1>11. Matches(is, r, row)
  <2>1. Alike(db.runs[r], was.runs[r]) /\ db.links \subseteq was.links
        /\ (row.attrs # Null => was.runs[r] = db.runs[r])
    BY <1>0, <1>8, <1>9 DEF Grows, was
  <2> QED BY <1>0, <1>1, <1>3, <1>6, <2>1, MatchesAfter
<1>12. Matches(d, r, row)
  <2>1. Alike(is.runs[r], d.runs[r]) /\ is.links \subseteq d.links
        /\ (row.attrs # Null => d.runs[r] = is.runs[r])
    BY <1>8, <1>9 DEF Grows, is, d
  <2> HIDE DEF r
  <2> QED BY <1>11, <2>1, MatchesOn
<1>13. FindRun(d, row) = {r}
  BY <1>0, <1>1, <1>3, <1>10, <1>12, FoundAgain
<1>14. row.exp # Null => ActiveExperiment(d, row.exp)
  <2>1. row.exp # Null => ActiveExperiment(db, row.exp)
    BY <1>1 DEF RunPlanned, RunFits
  <2> QED BY <1>0, <2>1 DEF Grows, ActiveExperiment
<1>15. PlanRow(d, row, new).action = "noop"
  <2> HIDE DEF r
  <2>1. (CHOOSE s \in FindRun(d, row) : TRUE) = r
    BY <1>13
  <2>2. PlanRow(d, row, new) = Operation("runs", "noop", r, Filled(row, d.runs[r].attrs))
    BY <1>1, <1>12, <1>13, <1>14, <2>1 DEF PlanRow, RunOperation, Matches
  <2> QED BY <2>2, OperationFields
<1> QED BY <1>15 DEF d, row

-----------------------------------------------------------------------------
(* A row whose operation has been done asks for nothing more.              *)
LEMMA RowAgain ==
  ASSUME NEW rows, NEW operations, NEW place, NEW plan, NEW L,
         Underway(rows, operations, place, plan, L, Len(rows)),
         NEW i \in 1 .. Len(rows), Recognised(rows[i]), Uncontradicted(rows, i), NEW new
  PROVE  PlanRow(L[Len(rows)], rows[i], new).action = "noop"
<1>1. rows[i].section \in {"runs", "job_runs", "custom_attributes", "sync_events"}
  BY RowFits, RowKinds DEF Fitting
<1>2. \A j \in 1 .. Len(rows) : i # j => ~ Contradict(rows[i], rows[j])
  BY DEF Uncontradicted
<1>3. \A j \in 1 .. Len(rows) : i # j => ~ Contradict(rows[j], rows[i])
  BY DEF Uncontradicted
<1>4. CASE rows[i].section = "runs" /\ rows[i].op = "archive"
  BY <1>4, ArchiveAgain
<1>5. CASE Upserts(rows[i])
  BY <1>5, RunAgain
<1>6. CASE rows[i].section = "job_runs"
  BY <1>2, <1>6, EdgeAgain
<1>7. CASE rows[i].section = "custom_attributes"
  BY <1>3, <1>7, AttrsAgain
<1>8. CASE rows[i].section = "sync_events"
  BY <1>8, SyncAgain
<1> QED BY <1>1, <1>4, <1>5, <1>6, <1>7, <1>8 DEF Upserts

LEMMA SecondNoop ==
  ASSUME db \in Ledger, Homes(db), RunsIndexed(db), NEW m \in Manifest, NEW d \in Outcomes(m), d # Null,
         \A i \in DOMAIN PlannedRows(m) : Recognised(PlannedRows(m)[i]),
         \A i, j \in DOMAIN PlannedRows(m) :
           i # j => ~ Contradict(PlannedRows(m)[i], PlannedRows(m)[j])
  PROVE  Actions(Plan(d, PlannedRows(m), <<>>)) \subseteq {"noop"}
<1> DEFINE rows == PlannedRows(m)
           N == Len(rows)
<1>0. /\ \A i \in DOMAIN rows : Recognised(rows[i])
      /\ \A i, j \in DOMAIN rows : i # j => ~ Contradict(rows[i], rows[j])
  OBVIOUS
<1>1. PICK operations, place, plan, L : \E k \in 0 .. Len(PlannedRows(m)) :
           /\ Planning(PlannedRows(m), operations, place, plan)
           /\ Course(L, db, plan, Len(PlannedRows(m)), k)
           /\ d # Null => k = Len(PlannedRows(m)) /\ d = L[k]
           /\ d = Null => k < Len(PlannedRows(m)) /\ Effect(L[k], plan[k + 1]) = Null
  BY OutcomeCourse
<1>2. Underway(rows, operations, place, plan, L, N) /\ d = L[N]
  BY <1>1 DEF Underway
<1> HIDE DEF rows
<1>3. N \in Nat /\ DOMAIN rows = 1 .. N
  BY <1>2, UnderwayBasics
<1>4. ASSUME NEW i \in 1 .. N, NEW new PROVE PlanRow(d, rows[i], new).action = "noop"
  <2>1. Recognised(rows[i]) /\ Uncontradicted(rows, i)
    BY <1>0, <1>3 DEF Uncontradicted
  <2> QED BY <1>2, <2>1, RowAgain
<1> DEFINE again == [i \in DOMAIN rows |-> PlanRow(d, rows[i], IF i \in DOMAIN <<>> THEN <<>>[i] ELSE Null)]
<1>5. \A i \in 1 .. N : /\ again[i].action = "noop" /\ again[i].action \in DOMAIN Rank
                        /\ again[i].section \in DOMAIN Section
  <2> SUFFICES ASSUME NEW i \in 1 .. N
               PROVE  /\ again[i].action = "noop" /\ again[i].action \in DOMAIN Rank
                      /\ again[i].section \in DOMAIN Section
    OBVIOUS
  <2> DEFINE new == IF i \in DOMAIN <<>> THEN <<>>[i] ELSE Null
  <2>1. again[i] = PlanRow(d, rows[i], new)
    BY <1>3
  <2> HIDE DEF new, again
  <2>2. rows[i] \in Row
    BY <1>2, UnderwayRow
  <2> QED BY <1>4, <2>1, <2>2, PlanRowKind
<1>6. Ordered(again, N)
  BY <1>3, <1>5 DEF Ordered
<1>7. Plan(d, rows, <<>>) = InOrder(again)
  BY DEF Plan
<1> HIDE DEF again
<1>8. PICK p \in [1 .. N -> 1 .. N] : InOrder(again) = [i \in 1 .. N |-> again[p[i]]]
  BY <1>6, InOrderPlaces
<1>9. \A i \in 1 .. N : Plan(d, rows, <<>>)[i].action = "noop"
  BY <1>5, <1>7, <1>8
<1>10. DOMAIN Plan(d, rows, <<>>) = 1 .. N
  BY <1>7, <1>8
<1>11. Actions(Plan(d, rows, <<>>)) \subseteq {"noop"}
  BY <1>9, <1>10 DEF Actions
<1> QED BY <1>11 DEF rows

-----------------------------------------------------------------------------
(* A manifest that is applied.                                             *)
LEMMA ReconcileStep ==
  ASSUME IInv, NEW m \in Steps[follows], Reconcile(m)
  PROVE  IInv'
<1>1. follows \in Topics /\ db \in Ledger /\ Homes(db) /\ RunsIndexed(db)
  BY DEF IInv, TypeOK, Indexed, HomeIsLinked, Homes
<1>2. m \in Manifest
  BY <1>1, ManifestsAssumption
<1>3. PICK d \in Outcomes(m) : d # Null /\ Commit(d, {})
  BY DEF Reconcile
<1>4. Sane(db, d)
  BY <1>1, <1>2, <1>3, OutcomeSane
<1>5. d \in Ledger /\ Homes(d) /\ Keeps(db, d)
  BY <1>4 DEF Sane, Grows
<1> QED BY <1>3, <1>5, CommitStep

(* A row for an archived run says its id: what is looked for by key or     *)
(* external identifier is active.                                          *)
LEMMA FitNames ==
  ASSUME db \in Ledger, RunsIndexed(db), NEW row \in Row, NEW o, OpFits(db, row, o),
         NEW r \in Runs, ForRun(o, r), db.runs[r] # Null, db.runs[r].archived
  PROVE  NamesRun(row, r)
<1>1. CASE row.section = "runs"
  <2>1. row \in RunRow /\ RunFits(db, row, o)
    BY <1>1, RowKinds DEF OpFits
  <2>2. FindRun(db, row) = {r}
    BY <2>1 DEF RunFits, ForRun
  <2>3. row.id # Null /\ db.runs[row.id] # Null
    BY <2>1, <2>2, FoundOne DEF IsActive
  <2>4. FindRun(db, row) = {row.id}
    BY <2>3 DEF FindRun
  <2> QED BY <1>1, <2>2, <2>4 DEF NamesRun
<1>2. CASE row.section = "custom_attributes"
  BY <1>2 DEF OpFits, AttrsFits, ForRun, NamesRun
<1>3. CASE row.section = "job_runs"
  BY <1>3 DEF OpFits, EdgeFits, ForRun
<1>4. CASE row.section = "sync_events"
  BY <1>4 DEF OpFits, SyncFits, ForRun
<1> QED BY <1>1, <1>2, <1>3, <1>4, RowKinds

LEMMA ManifestRest ==
  ASSUME IInv, NEW m \in Steps[follows], Reconcile(m),
         NEW r \in Runs, db.runs[r] # Null, db.runs[r].archived, db'.runs[r] # db.runs[r]
  PROVE  Explained(r)
<1>1. follows \in Topics /\ db \in Ledger /\ Homes(db) /\ RunsIndexed(db)
  BY DEF IInv, TypeOK, Indexed, HomeIsLinked, Homes
<1>2. m \in Manifest
  BY <1>1, ManifestsAssumption
<1>3. PICK d \in Outcomes(m) : d # Null /\ db' = d
  BY DEF Reconcile, Commit
<1>4. Sane(db, d)
  BY <1>1, <1>2, <1>3, OutcomeSane
<1>5. d.runs[r] # Null /\ d.runs[r].archived
  BY <1>4 DEF Sane, Grows, Keeps
<1> DEFINE rows == PlannedRows(m)
           N == Len(rows)
<1>6. PICK operations, place, plan, L : \E k \in 0 .. N :
           /\ Planning(rows, operations, place, plan)
           /\ Course(L, db, plan, N, k)
           /\ d # Null => k = N /\ d = L[k]
           /\ d = Null => k < N /\ Effect(L[k], plan[k + 1]) = Null
  BY <1>1, <1>2, OutcomeCourse
<1> HIDE DEF rows
<1>7. Planning(rows, operations, place, plan) /\ Course(L, db, plan, N, N) /\ d = L[N] /\ N \in Nat
  BY <1>3, <1>6 DEF Course
<1>8. L[0] = db
  BY <1>7 DEF Course, Trace
<1>9. PICK n \in 1 .. N : ForRun(plan[n], r)
  <2> SUFFICES ASSUME \A n \in 1 .. N : ~ ForRun(plan[n], r) PROVE FALSE
    OBVIOUS
  <2>1. 0 \in 0 .. N /\ N \in 0 .. N /\ 0 <= N /\ 0 + 1 .. N = 1 .. N
    BY <1>7
  <2>2. L[N].runs[r] = L[0].runs[r]
    BY <1>7, <2>1, RunStays
  <2> QED BY <1>3, <1>7, <1>8, <2>2
<1>10. place[n] \in DOMAIN rows /\ rows[place[n]] \in Row /\ OpFits(db, rows[place[n]], plan[n])
  BY <1>1, <1>7, <1>9, PlanningParts
<1>11. NamesRun(rows[place[n]], r)
  BY <1>1, <1>9, <1>10, FitNames
<1>12. ByName(r)
  BY <1>10, <1>11 DEF ByName, rows
<1> QED BY <1>3, <1>5, <1>12 DEF Explained

LEMMA ReconcileStepSound == IInv /\ [ReconcileNext]_vars => IInv'
  BY StepSound, ReconcileStep DEF ReconcileNext

(* Commands and manifests together keep all of this.                       *)
THEOREM Invariance == ReconcileSpec => []IInv
  BY InitSound, ReconcileStepSound, PTL DEF ReconcileSpec

(* Commands alone are a case of it.                                        *)
THEOREM Alone == Spec => ReconcileSpec
<1>1. [Next]_vars => [ReconcileNext]_vars
  BY DEF ReconcileNext
<1> QED BY <1>1, PTL DEF Spec, ReconcileSpec

(* Rows, links, edges and commands under way keep their types.             *)
THEOREM TypeCorrect == ReconcileSpec => []TypeOK
  BY Invariance, PTL DEF IInv

(* Whatever order runs are added, updated, linked and archived in, by      *)
(* commands and manifests, each is linked to the experiment that its row   *)
(* names.                                                                  *)
THEOREM HomesLinked == ReconcileSpec => []HomeIsLinked
  BY Invariance, PTL DEF IInv

(* A run that has been archived stays archived, and its row is changed     *)
(* only by an update whose lookup is out of date, by the link that gives   *)
(* it a home, by a second archiving, or by a manifest that names its id.   *)
THEOREM Rest == ReconcileSpec => ArchivedRunsRest
<1>1. IInv /\ [ReconcileNext]_vars =>
        [\A r \in Runs :
           db.runs[r] # Null /\ db.runs[r].archived /\ db'.runs[r] # db.runs[r] => Explained(r)]_vars
  BY ArchivedRest, ManifestRest DEF ReconcileNext
<1> QED BY <1>1, Invariance, PTL DEF ReconcileSpec, ArchivedRunsRest

(* A command that has looked is refused by an index only if something has  *)
(* changed what it looked for since, or if it completes an identity, which *)
(* it does not look for: then it may collide alone.                        *)
THEOREM Collisions == ReconcileSpec => []CollisionNeedsOverlap
  BY FreshCommandsFit, Invariance, PTL

(* Whoever reconciles a manifest again, after it was applied and nothing   *)
(* has changed, plans nothing, whatever its rows are and in whatever order *)
(* their operations were done: if each row can be found again and no two   *)
(* contradict each other.                                                  *)
THEOREM Again == ReconcileSpec => []SecondApplicationIsNoop
<1>1. IInv => SecondApplicationIsNoop
  <2> SUFFICES ASSUME IInv, NEW m \in Manifests[follows],
                      \A i \in DOMAIN PlannedRows(m) : Recognised(PlannedRows(m)[i]),
                      \A i, j \in DOMAIN PlannedRows(m) :
                        i # j => ~Contradict(PlannedRows(m)[i], PlannedRows(m)[j]),
                      NEW d \in Outcomes(m) \ {Null}
               PROVE  Actions(Plan(d, PlannedRows(m), <<>>)) \subseteq {"noop"}
    BY DEF SecondApplicationIsNoop
  <2>1. follows \in Topics /\ db \in Ledger /\ Homes(db) /\ RunsIndexed(db)
    BY DEF IInv, TypeOK, Indexed, HomeIsLinked, Homes
  <2>2. m \in Manifest /\ d \in Outcomes(m) /\ d # Null
    BY <2>1, ManifestsAssumption
  <2> QED BY <2>1, <2>2, SecondNoop
<1> QED BY <1>1, Invariance, PTL

(* What a dry run announces is done, but for the conflicts between rows    *)
(* that the planner leaves to the indexes and foreign keys.                *)
THEOREM Announced == ReconcileSpec => []DryRunPredicts
<1>1. IInv => DryRunPredicts
  <2>1. IInv => follows \in Topics /\ db \in Ledger /\ Homes(db) /\ RunsIndexed(db)
    BY DEF IInv, TypeOK, Indexed, HomeIsLinked, Homes
  <2> QED BY <2>1, DryRun
<1> QED BY <1>1, Invariance, PTL
=============================================================================
