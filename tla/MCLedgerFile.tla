---------------------------- MODULE MCLedgerFile ----------------------------
(* Two processes; three nested directories, the second with a .git.        *)
EXTENDS LedgerFile, TLC

LedgersOf == [d \in 1 .. 3 |-> CASE d = 1 -> "ledger1" [] d = 2 -> "ledger2" [] OTHER -> "ledger3"]

Swapped == Permutations(Procs)
=============================================================================
