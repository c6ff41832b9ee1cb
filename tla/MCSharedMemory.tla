--------------------------- MODULE MCSharedMemory ---------------------------
(* Instances of SharedMemory for TLC. *)
EXTENDS SharedMemory, TLC

(* Processes and segments are interchangeable. *)
MCSymmetry == Permutations(Procs) \cup Permutations(Segs)
=============================================================================
