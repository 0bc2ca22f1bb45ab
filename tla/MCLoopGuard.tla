---------------------------- MODULE MCLoopGuard ----------------------------
(* A small instance of LoopGuard. *)
EXTENDS LoopGuard, TLC

\* Run ids are uuids and threads are alike: nothing tells them apart.
GuardSymmetry == Permutations(Runs) \cup Permutations(Threads)
=============================================================================
