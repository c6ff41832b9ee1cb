----------------------------- MODULE MCPkgData -----------------------------
(* Instances of PkgData for TLC. *)
EXTENDS PkgData, TLC

(* For the runs without liveness properties. *)
MCSymmetry == Permutations(Procs) \cup Permutations(Segs) \cup Permutations(Sems)
=============================================================================
