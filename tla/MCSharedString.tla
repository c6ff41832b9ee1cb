--------------------------- MODULE MCSharedString ---------------------------
(* Values of the constants of SharedString for TLC: bytes of two values,   *)
(* so that three strings need two of them and five need three.             *)
EXTENDS SharedString, TLC

CONSTANTS s1, s2, v1, v2, v3, a, b

MCHome == v1 :> s1 @@ v2 :> s1 @@ v3 :> s2
MCInitial == <<a, b>>
MCTexts == UNION {[1..n -> 1..5] : n \in 0..5}
MCSelections == {<<1, 1>>}

\* the run string_write
MCHome1 == v1 :> s1 @@ v2 :> s1
MCNoTexts == {}

(* v1 and v2 are of one session. *)
MCSymmetry == Permutations({v1, v2}) \cup Permutations(Blocks)

=============================================================================
