--------------------------- MODULE MCSharedVector ---------------------------
(* Values of the constants of SharedVector for TLC. *)
EXTENDS SharedVector, TLC

MCInitial == <<0, 1>>
MCSelections == {<<2, 2>>}
MCFlagSets ==
  {[cow |-> TRUE, subset |-> TRUE, copy |-> FALSE],
   [cow |-> FALSE, subset |-> FALSE, copy |-> FALSE]}

CONSTANTS s1, s2, v1, v2, v3

\* the run copy_data
MCInitial4 == <<0, 1, 0, 1>>
MCHome1 == v1 :> s1

MCHome == v1 :> s1 @@ v2 :> s1 @@ v3 :> s2

(* v1 and v2 are of one session. *)
MCSymmetry == Permutations({v1, v2}) \cup Permutations(Blocks)

=============================================================================
