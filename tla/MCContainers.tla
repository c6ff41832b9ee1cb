---------------------------- MODULE MCContainers ----------------------------
(* Four objects for TLC.                                                   *)
(*   L: a list of T, an environment E and a symbol, with an attribute and  *)
(*      a class;                                                           *)
(*   T: an S4 list of a vector and a symbol;                               *)
(*   E: an environment with a list of two vectors, an S4 vector V with a   *)
(*      slot, and a class;                                                 *)
(*   M: a list of a short vector, E and E again;                           *)
(*   S: an S4 object whose slots are a symbol and E;                       *)
(*   C: an environment with E and a list of a vector and C itself.         *)
EXTENDS Containers, TLC

Elt(n) == [role |-> "elt", node |-> n]
Attr(n) == [role |-> "attr", node |-> n]
Fixed(n) == [role |-> "fixed", node |-> n]
Slot(n) == [role |-> "slot", node |-> n]

MCRoots == {"L", "M", "S", "C"}

MCKind ==
  [n \in {"Lt", "Lc", "Ea", "Eb", "V", "Vs", "Ec", "Ma", "Ta", "Ca"} |->
     "atom"] @@
  [n \in {"L", "M", "El", "Ek", "T", "Cl"} |-> "list"] @@
  [n \in {"E", "C"} |-> "env"] @@
  [n \in {"S"} |-> "s4"] @@
  [n \in {"Lo", "So", "To"} |-> "other"]

MCParts ==
  "L" :> <<Elt("T"), Elt("E"), Elt("Lo"), Attr("Lt"), Fixed("Lc")>> @@
  "E" :> <<Elt("El"), Elt("V"), Attr("Ek")>> @@
  "El" :> <<Elt("Ea"), Elt("Eb")>> @@
  "V" :> <<Attr("Vs")>> @@
  "Ek" :> <<Elt("Ec")>> @@
  "M" :> <<Elt("Ma"), Elt("E"), Elt("E")>> @@
  "S" :> <<Slot("So"), Slot("E")>> @@
  "T" :> <<Elt("Ta"), Elt("To")>> @@
  "C" :> <<Elt("E"), Elt("Cl")>> @@
  "Cl" :> <<Elt("Ca"), Elt("C")>> @@
  [n \in DOMAIN MCKind |-> <<>>]

MCAnchor ==
  [n \in {"L", "Lt", "Lc", "Lo", "T", "Ta", "To"} |-> "L"] @@
  [n \in {"El", "Ea", "Eb"} |-> "El"] @@
  [n \in {"V", "Vs"} |-> "V"] @@
  [n \in {"Ek", "Ec"} |-> "Ek"] @@
  [n \in {"Cl", "Ca"} |-> "Cl"] @@
  [n \in {"M", "Ma"} |-> "M"] @@
  [n \in {"S", "So"} |-> "S"] @@
  "C" :> "C" @@ "E" :> "E"

MCLong == {n \in DOMAIN MCKind : MCKind[n] = "atom"} \ {"Ma"}

=============================================================================
