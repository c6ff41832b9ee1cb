------------------------- MODULE MCObjectLifecycle -------------------------
(* Instances of ObjectLifecycle for TLC. *)
EXTENDS ObjectLifecycle, TLC

MCKeys == 1..MaxId

(* Sessions and segments are interchangeable. *)
MCSymmetry == Permutations(Procs) \cup Permutations(Segs)
=============================================================================
