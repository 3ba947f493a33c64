------------------------------ MODULE MCReconcile ------------------------------
EXTENDS Reconcile, TLC

RowOf(op, id, key, external) ==
  [section |-> "runs", op |-> op, id |-> id, exp |-> Null, key |-> key,
   external |-> external, attrs |-> Null]

(* Rows of one run: all of those without an experiment of their own, but   *)
(* for archiving what is not named.                                        *)
SingleRuns ==
  {RowOf(op, id, k, x) : op \in {Null, "archive"}, id \in Runs \cup {Null},
                         k \in Keys \cup {Null}, x \in Externals \cup {Null}}

(* Rows that meet others: one identity each.                               *)
PairedRuns ==
  {row \in SingleRuns : Cardinality({f \in {"id", "key", "external"} : row[f] # Null}) = 1}

(* Rows about the edges and attributes of runs, and sync events.           *)
EdgeTopics ==
  {row \in EdgeRow : row.op = "archive" => row.role = Other /\ row.status = "planned"}
  \cup SyncRow
  \cup {row \in AttrsRow : row.attrs # {}}
  \cup {[RowOf(Null, r, Null, Null) EXCEPT !.attrs = a] : r \in Runs, a \in (SUBSET Attrs) \cup {Null}}

InSections(rows) == \A i, j \in DOMAIN rows : i < j => Section[rows[i].section] <= Section[rows[j].section]

(* Those of them that meet others.                                         *)
PairedEdges ==
  {row \in EdgeTopics :
     /\ row.section = "job_runs" => row.role = Other
     /\ row.section = "runs" => row.attrs # {}}

Pairs(rows) == {pair \in rows \X rows : InSections(pair)}
Singles(rows) == {<<row>> : row \in rows}

SomeManifests ==
  [topic \in Topics |->
     IF topic = "runs" THEN
       [rows : Singles(SingleRuns), exp : Aims \cup {Null}] \cup [rows : Pairs(PairedRuns), exp : Aims]
     ELSE IF topic = "edges" THEN [rows : Singles(EdgeTopics) \cup Pairs(PairedEdges), exp : {Null}]
     ELSE {}]

SomeSteps ==
  [topic \in Topics |->
     {m \in SomeManifests[topic] :
        /\ Len(m.rows) = 1
        /\ m.rows[1] \in PairedRuns \cup EdgeTopics}]

(* Two commands race to create an experiment, one with all manifests.      *)
SomeWorking ==
  LET one == CHOOSE p \in Procs : TRUE
  IN  [topic \in Topics |-> IF topic = "experiments" THEN Procs ELSE {one}]

Symmetry == Permutations(Runs) \cup Permutations(Experiments \ Aims)
=============================================================================
