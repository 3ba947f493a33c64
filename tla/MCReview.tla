------------------------------- MODULE MCReview -------------------------------
EXTENDS Review

(* A file is rewritten in place, or by another one of its size or time.    *)
MCStamps == {[mtime |-> 1, size |-> 1], [mtime |-> 1, size |-> 2], [mtime |-> 2, size |-> 1]}

CONSTANTS r1, j1, j2, j3, a1, a2, a3, a4, c1, n1, d1, d2

(* A validation and its source, here, elsewhere and on a run; a job and    *)
(* its retry; ids before and after those of review notes; handoffs of an   *)
(* experiment with an artifact on a job, with a run's job or artifact, and *)
(* with reviews; a review of a run's job; a cleanup.                       *)
For(topics, casts) == [topics: {topics}, cast: casts, until: {2}]

MCBehaviours ==
  For({"evidence"}, {{a1, c1}})
    \cup For({"review"}, {{j1}, {a1, n1}, {n1, c1}})
    \cup [topics: {{"review"}}, cast: {{j1, j2}, {r1, j3}}, until: {1}]
    \cup [topics: {{"evidence"}}, cast: {{a3, c1}, {r1, a4, c1}}, until: {1}]
    \cup For({"handoff"}, {{j1, a2}, {r1, j3}, {r1, a4}})
    \cup For({"review", "handoff"}, {{n1}})
    \cup For({"cleanup"}, {{j1, j2, d1, d2}})

MCRunOf == [j \in Jobs |-> IF j = j3 THEN r1 ELSE None]
MCHome == [a \in Arts |-> CASE a = a1 -> Here [] a = a2 -> j1 [] a = a3 -> Elsewhere [] a = a4 -> r1]
MCRetries == {<<j2, j1>>}
MCAbout == [d \in Debugs |-> j1]

MCRank == [x \in Subjects |->
  CASE x = j1 -> 1 [] x = j2 -> 2 [] x = j3 -> 1
    [] x = a1 -> 0 [] x \in {a2, a3, a4} -> 3 [] x = n1 -> 5 [] x = c1 -> 9]
=============================================================================
