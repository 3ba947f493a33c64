------------------------------ MODULE MCEvidence ------------------------------
EXTENDS Evidence, TLC

(* An experiment that has no runs, or a run of another; artifacts get both *)
(* by updates.                                                             *)
SingleAims == [exp: Experiments \ Linkable, run: {Null}] \cup OnRun

(* Commands, runs and rows are interchangeable.                            *)
Symmetry == Permutations(Procs) \cup Permutations(Runs) \cup Permutations(Ids)
=============================================================================
