---------------------------- MODULE MCWatchRefresh ----------------------------
EXTENDS WatchRefresh, TLC

\* Tasks are told apart by nothing but their names, so invariants may be
\* checked up to a permutation of them (liveness may not).
TaskSymmetry == Permutations(Tasks)
===============================================================================
