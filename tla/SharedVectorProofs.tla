-------------------------- MODULE SharedVectorProofs --------------------------
(***************************************************************************)
(* Proofs about SharedVector, for any number of sessions, variables and    *)
(* blocks and for vectors of any length: views lead to memory, copies      *)
(* inherit their flags, and shared vectors keep the promise of ValueStore. *)
(***************************************************************************)
EXTENDS SharedVector, SequenceTheorems, WellFoundedInduction, TLAPS

----------------------------------------------------------------------------
(* Sequences of elements *)

(* The maximum of a bounded set of numbers exists.                         *)
LEMMA LargestElement ==
  ASSUME NEW n \in Nat, NEW S, S \subseteq 0..n, S # {}
  PROVE  Max(S) \in S /\ \A y \in S : y <= Max(S)
<1> DEFINE T == {n - x : x \in S}
<1>1. T \subseteq Nat /\ T # {}
  <2>1. PICK x \in S : TRUE
    OBVIOUS
  <2>2. n - x \in T
    OBVIOUS
  <2>3. \A y \in S : n - y \in Nat
    OBVIOUS
  <2> QED BY <2>2, <2>3
<1> HIDE DEF T
<1>2. PICK t \in T : \A u \in T : ~(<<u, t>> \in OpToRel(<, Nat))
  BY <1>1, WFMin, NatLessThanWellFounded
<1>3. \A u \in T : t <= u
  <2>1. \A u \in Nat : t \in Nat /\ u < t => <<u, t>> \in OpToRel(<, Nat)
    BY DEF OpToRel
  <2>2. \A u \in T : ~(u < t)
    BY <1>1, <1>2, <2>1
  <2> QED BY <1>1, <2>2
<1>4. PICK x \in S : t = n - x
  BY DEF T
<1>5. \A y \in S : x >= y
  <2>1. \A y \in S : t <= n - y
    BY <1>3 DEF T
  <2> QED BY <1>4, <2>1
<1>6. Max(S) \in S /\ \A y \in S : Max(S) >= y
  BY <1>5 DEF Max
<1>7. \A y \in S : y \in Int
  OBVIOUS
<1> QED BY <1>6, <1>7

(* Vectors with one element changed, and picked from others.               *)
LEMMA ChangedTyped ==
  ASSUME NEW d \in Vectors, NEW i \in DOMAIN d, NEW e \in Elements
  PROVE  [d EXCEPT ![i] = e] \in Vectors
BY DEF Vectors

(* Subsets.                                                                *)
LEMMA PickedTyped ==
  ASSUME NEW d \in Vectors, NEW sel \in Selections, \A i \in DOMAIN sel : sel[i] \in DOMAIN d
  PROVE  Picked(d, sel) \in Vectors
<1>1. sel \in Seq(Nat)
  BY VectorAssumption
<1>2. Len(sel) \in Nat /\ DOMAIN sel = 1..Len(sel)
  BY <1>1
<1>3. \A i \in 1..Len(sel) : d[sel[i]] \in Elements
  BY <1>2, ElementOfSeq DEF Vectors
<1>4. [i \in 1..Len(sel) |-> d[sel[i]]] \in Seq(Elements)
  BY <1>2, <1>3
<1> QED BY <1>2, <1>4 DEF Picked, Vectors

(* A region that reaches an element of the target reads an element of the  *)
(* source.                                                                 *)
LEMMA WritersRead ==
  ASSUME NEW n \in Nat, NEW j \in 1..n, Writers(n, j) # {}
  PROVE  LET ind == Max(Writers(n, j))
         IN /\ ind \in Writers(n, j) /\ ind \in 0..(n - 1)
            /\ ind + j - Target(ind, RegionLength(n, ind)) \in 1..n
<1> DEFINE ind == Max(Writers(n, j))
           len == RegionLength(n, ind)
<1>1. Writers(n, j) \subseteq 0..n
  BY DEF Writers, RegionStarts
<1>2. ind \in Writers(n, j)
  BY <1>1, LargestElement
<1>3. ind \in 0..(n - 1) /\ j \in (Target(ind, len) + 1)..(Target(ind, len) + len)
  BY <1>2 DEF Writers, RegionStarts
<1>4. len \in Nat /\ ind + len <= n
  BY <1>3, VectorAssumption DEF RegionLength
<1>5. Target(ind, len) \in Nat
  <2>1. \A a, b \in Nat : a * b \in Nat
    OBVIOUS
  <2> QED BY <1>3, <1>4, <2>1 DEF Target
<1> HIDE DEF ind, len
<1>6. ind + j - Target(ind, len) \in 1..n
  BY <1>3, <1>4, <1>5
<1> QED BY <1>2, <1>3, <1>6 DEF ind, len

(* copyData never reads outside its source, whatever it does to the target.*)
LEMMA CopyDataTyped ==
  ASSUME NEW d \in Vectors
  PROVE  CopyData(d) \in Vectors
<1>1. Len(d) \in Nat /\ DOMAIN d = 1..Len(d)
  BY DEF Vectors
<1>2. \A j \in 1..Len(d) : CopyData(d)[j] \in Elements
  <2> SUFFICES ASSUME NEW j \in 1..Len(d)
               PROVE  CopyData(d)[j] \in Elements
    OBVIOUS
  <2> DEFINE ind == Max(Writers(Len(d), j))
             at == ind + j - Target(ind, RegionLength(Len(d), ind))
  <2>1. CopyData(d)[j] = IF Writers(Len(d), j) = {} THEN 0 ELSE d[at]
    BY <1>1 DEF CopyData
  <2>2. Writers(Len(d), j) # {} => at \in 1..Len(d)
    BY <1>1, WritersRead
  <2> HIDE DEF at
  <2> QED BY <2>1, <2>2, ElementOfSeq, VectorAssumption DEF Vectors
<1>3. CopyData(d) \in [1..Len(d) -> Elements]
  <2> DEFINE c == CopyData(d)
  <2>1. c = [j \in 1..Len(d) |-> c[j]]
    BY <1>1 DEF CopyData
  <2> HIDE DEF c
  <2> QED BY <1>2, <2>1 DEF c
<1> QED BY <1>1, <1>3 DEF Vectors

(* Regions that are copied to where they come from.                        *)
LEMMA TargetsMeet ==
  ASSUME NEW n \in Nat, DataType = "integer" \/ n <= Region, NEW ind \in RegionStarts(n)
  PROVE  Target(ind, RegionLength(n, ind)) = ind
<1>1. PICK k \in 0..n : ind = k * Region /\ ind \in 0..(n - 1)
  BY DEF RegionStarts
<1>2. CASE DataType = "integer"
  BY <1>2 DEF Target
<1>3. CASE DataType # "integer"
  <2>1. k = 0
    <3>1. Region \in Nat \ {0} /\ n <= Region /\ k * Region < n
      BY <1>1, <1>3, VectorAssumption
    <3>2. k >= 1 => k * Region >= Region
      BY <3>1
    <3>3. k * Region \in Int
      BY <3>1
    <3> QED BY <3>1, <3>2, <3>3
  <2>2. RegionLength(n, ind) \in Int /\ ind = 0
    BY <1>1, <2>1, VectorAssumption DEF RegionLength
  <2> QED BY <1>3, <2>2 DEF Target
<1> QED BY <1>2, <1>3

(* Every element lies in a region.                                         *)
LEMMA RegionsCover ==
  ASSUME NEW n \in Nat, DataType = "integer" \/ n <= Region, NEW j \in 1..n
  PROVE  Writers(n, j) # {}
<1> DEFINE S == {k \in 0..n : k * Region <= j - 1}
           K == Max(S)
           ind == K * Region
<1>1. Region \in Nat \ {0}
  BY VectorAssumption
<1>2. 0 \in S
  BY <1>1
<1>3. K \in S /\ \A k \in S : k <= K
  BY <1>2, LargestElement
<1>4. K \in 0..n /\ ind <= j - 1 /\ ind \in Nat
  <2>1. \A a, b \in Nat : a * b \in Nat
    OBVIOUS
  <2> QED BY <1>1, <1>3, <2>1
<1>5. j <= ind + Region
  <2>1. (K + 1) * Region = ind + Region
    BY <1>1, <1>4
  <2>2. CASE K = n
    <3>1. n * Region >= n
      BY <1>1
    <3> QED BY <1>4, <2>2, <3>1
  <2>3. CASE K # n
    <3>1. K + 1 \in 0..n /\ K + 1 \notin S
      BY <1>3, <1>4, <2>3
    <3>2. ~((K + 1) * Region <= j - 1)
      BY <3>1
    <3> HIDE DEF K
    <3>3. ~(ind + Region <= j - 1)
      BY <2>1, <3>2
    <3> QED BY <1>1, <1>4, <3>3
  <2> QED BY <2>2, <2>3
<1>6. ind \in RegionStarts(n)
  BY <1>4 DEF RegionStarts
<1> HIDE DEF ind
<1>7. j \in (ind + 1)..(ind + RegionLength(n, ind))
  BY <1>1, <1>4, <1>5 DEF RegionLength
<1> QED BY <1>6, <1>7, TargetsMeet DEF Writers

(* copyData is right for integers, and for everything that fits into one   *)
(* region.                                                                 *)
LEMMA CopyDataExact ==
  ASSUME NEW d \in Vectors, DataType = "integer" \/ Len(d) <= Region
  PROVE  CopyData(d) = d
<1>1. Len(d) \in Nat /\ DOMAIN d = 1..Len(d) /\ d = [j \in 1..Len(d) |-> d[j]]
  BY DEF Vectors
<1>2. ASSUME NEW j \in 1..Len(d)
      PROVE  CopyData(d)[j] = d[j]
  <2> DEFINE ind == Max(Writers(Len(d), j))
             to == Target(ind, RegionLength(Len(d), ind))
  <2>1. CopyData(d)[j] = IF Writers(Len(d), j) = {} THEN 0 ELSE d[ind + j - to]
    BY <1>1 DEF CopyData
  <2>2. Writers(Len(d), j) # {} /\ ind \in Writers(Len(d), j) /\ ind \in 0..(Len(d) - 1)
    BY <1>1, RegionsCover, WritersRead
  <2>3. to = ind
    BY <1>1, <2>2, TargetsMeet DEF Writers
  <2> HIDE DEF ind, to
  <2>4. ind + j - to = j
    BY <2>2, <2>3
  <2> QED BY <2>1, <2>2, <2>4
<1>3. CopyData(d) = [j \in 1..Len(d) |-> CopyData(d)[j]]
  BY <1>1 DEF CopyData
<1> QED BY <1>1, <1>2, <1>3

----------------------------------------------------------------------------
(* The inductive invariant: the type and the pointers are enough, and      *)
(* neither holds by itself.  What a view reads has the type of contents    *)
(* only because its block is mapped, hence alive; a block stays alive      *)
(* because it is not unmapped under a view.                                *)

VecIInv == VecTypeOK /\ PointersLeadToMemory

(* What the variables are bound to, and together with which others.        *)
BindingsOK ==
  /\ object \in [Vars -> Objects \cup {Nothing}]
  /\ same \in [Vars -> SUBSET Vars]
  /\ \A v \in Vars :
       /\ v \in same[v]
       /\ \A u \in same[v] : same[u] = same[v] /\ object[u] = object[v]

MailOK == mail \in Objects \cup {Nothing}

BlocksOK ==
  /\ mem \in [Blocks -> Vectors \cup {Nothing}]
  /\ owner \in [Blocks -> Sessions \cup {Nothing}]
  /\ mapped \in [Sessions -> SUBSET Blocks]
  /\ \A b \in Blocks : Named(b) => b \in mapped[owner[b]]

(* Contents of a block: what can be reached, and nothing else, has some.   *)
ContentsOK(b) ==
  IF Alive(b) \/ b \in Mailed THEN mem[b] \in Vectors ELSE mem[b] = Nothing

MemoryOK == BlocksOK /\ \A b \in Blocks : ContentsOK(b)

ViewsMapped ==
  \A v \in Vars : IsView(object[v]) => object[v].block \in mapped[Home[v]]

(* The invariant, part by part.                                            *)
LEMMA VecIInvParts ==
  VecIInv <=> BindingsOK /\ MailOK /\ MemoryOK /\ ViewsMapped
<1>1. ASSUME BindingsOK
      PROVE  ViewsMapped <=> \A b \in Blocks : \A v \in Viewers(b) : b \in mapped[Home[v]]
  BY <1>1 DEF BindingsOK, ViewsMapped, Viewers, IsViewOf, IsView, Objects
<1>2. VecTypeOK <=> /\ BindingsOK /\ MailOK
                    /\ mem \in [Blocks -> Vectors \cup {Nothing}]
                    /\ \A b \in Blocks : ContentsOK(b)
                    /\ owner \in [Blocks -> Sessions \cup {Nothing}]
                    /\ mapped \in [Sessions -> SUBSET Blocks]
  BY DEF VecTypeOK, BindingsOK, MailOK, ContentsOK
<1> QED BY <1>1, <1>2 DEF VecIInv, PointersLeadToMemory, MemoryOK, BlocksOK

----------------------------------------------------------------------------
(* Objects *)

(* What objects are, and what the variables and the mail hold.             *)
LEMMA ObjectForms ==
  /\ \A d \in Vectors : Plain(d) \in Objects /\ ~IsView(Plain(d)) /\ Plain(d) # Nothing
  /\ \A b \in Blocks, f \in Flags :
       /\ View(b, f) \in Objects /\ View(b, f) # Nothing
       /\ IsView(View(b, f)) /\ View(b, f).block = b /\ View(b, f).flags = f
  /\ \A x \in Objects :
       /\ x # Nothing
       /\ IsView(x) => x.block \in Blocks /\ x.flags \in Flags /\ x = View(x.block, x.flags)
       /\ ~IsView(x) => x.data \in Vectors /\ x = Plain(x.data)
<1>1. Nothing \notin Objects
  BY VectorAssumption
<1>2. \A d \in Vectors : Plain(d) \in Objects /\ Plain(d).kind = "plain"
  BY DEF Plain, Objects
<1>3. \A b \in Blocks, f \in Flags : View(b, f) \in Objects /\ View(b, f).kind = "view"
                                   /\ View(b, f).block = b /\ View(b, f).flags = f
  BY DEF View, Objects
<1>4. \A x \in Objects : x.kind = "view" =>
        x.block \in Blocks /\ x.flags \in Flags /\ x = View(x.block, x.flags)
  BY DEF Objects, View
<1>5. \A x \in Objects : x.kind # "view" => x.data \in Vectors /\ x = Plain(x.data)
  BY DEF Objects, Plain
<1> QED BY <1>1, <1>2, <1>3, <1>4, <1>5 DEF IsView

(* Contents of a variable.                                                 *)
LEMMA DataTyped ==
  ASSUME VecIInv, NEW v \in Vars, Bound(v)
  PROVE  /\ object[v] \in Objects
         /\ DataOf(object[v]) \in Vectors
         /\ IsView(object[v]) => /\ object[v].block \in Blocks
                                 /\ object[v].flags \in Flags
                                 /\ Alive(object[v].block)
<1>1. BindingsOK /\ MemoryOK /\ ViewsMapped
  BY VecIInvParts
<1>2. object[v] \in Objects
  BY <1>1 DEF BindingsOK, Bound
<1>3. CASE IsView(object[v])
  <2>1. object[v].block \in Blocks /\ object[v].flags \in Flags
    BY <1>2, <1>3, ObjectForms
  <2>2. object[v].block \in mapped[Home[v]] /\ Home[v] \in Sessions
    BY <1>1, <1>3, VectorAssumption DEF ViewsMapped
  <2>3. Alive(object[v].block)
    BY <2>2 DEF Alive
  <2>4. mem[object[v].block] \in Vectors
    BY <1>1, <2>1, <2>3 DEF MemoryOK, ContentsOK
  <2> QED BY <1>2, <1>3, <2>1, <2>3, <2>4 DEF DataOf, IsView
<1>4. CASE ~IsView(object[v])
  BY <1>2, <1>4, ObjectForms DEF DataOf, IsView
<1> QED BY <1>3, <1>4

----------------------------------------------------------------------------
(* The operations on bindings *)

(* One variable is bound to something else.                                *)
LEMMA BindKeeps ==
  ASSUME BindingsOK, NEW v \in Vars, NEW x \in Objects \cup {Nothing}, Bind(v, x)
  PROVE  /\ BindingsOK'
         /\ object'[v] = x
         /\ \A u \in Vars : u # v => object'[u] = object[u]
<1>1. /\ object' \in [Vars -> Objects \cup {Nothing}]
      /\ object'[v] = x
      /\ \A u \in Vars : u # v => object'[u] = object[u]
  BY DEF BindingsOK, Bind
<1>2. same' = [u \in Vars |-> IF u = v THEN {v} ELSE same[u] \ {v}]
  BY DEF Bind
<1>3. same' \in [Vars -> SUBSET Vars]
  BY <1>2 DEF BindingsOK
<1>4. \A u \in Vars : u \in same'[u]
  BY <1>2 DEF BindingsOK
<1>5. ASSUME NEW u \in Vars, NEW w \in same'[u]
      PROVE  same'[w] = same'[u] /\ object'[w] = object'[u]
  <2>1. CASE u = v
    BY <1>2, <2>1, <1>5
  <2>2. CASE u # v
    <3>1. w \in same[u] /\ w # v /\ w \in Vars
      BY <1>2, <1>5, <2>2 DEF BindingsOK
    <3>2. same[w] = same[u] /\ object[w] = object[u]
      BY <3>1 DEF BindingsOK
    <3> QED BY <1>1, <1>2, <2>2, <3>1, <3>2
  <2> QED BY <2>1, <2>2
<1> QED BY <1>1, <1>3, <1>4, <1>5 DEF BindingsOK

(* A variable joins others.                                                *)
LEMMA AliasKeeps ==
  ASSUME BindingsOK, NEW v \in Vars, NEW w \in Vars, Alias(v, w)
  PROVE  /\ BindingsOK'
         /\ object'[v] = object[w]
         /\ \A u \in Vars : u # v => object'[u] = object[u]
<1> DEFINE group == same[w] \cup {v}
<1>1. /\ object' \in [Vars -> Objects \cup {Nothing}]
      /\ object'[v] = object[w]
      /\ \A u \in Vars : u # v => object'[u] = object[u]
  BY DEF BindingsOK, Alias
<1>2. same' = [u \in Vars |-> IF u \in group THEN group ELSE same[u] \ {v}]
  BY DEF Alias
<1>3. group \subseteq Vars /\ \A u \in same[w] : same[u] = same[w] /\ object[u] = object[w]
  BY DEF BindingsOK
<1>4. v \in group /\ \A u \in group : object'[u] = object[w]
  BY <1>1, <1>3
<1>5. \A u \in Vars : u \notin group => \A x \in same[u] : x \notin same[w]
  BY <1>3 DEF BindingsOK
<1> HIDE DEF group
<1>6. same' \in [Vars -> SUBSET Vars] /\ \A u \in Vars : u \in same'[u]
  <2>1. \A u \in Vars : u # v => u \in same[u] \ {v}
    BY DEF BindingsOK
  <2>2. \A u \in Vars : same[u] \subseteq Vars
    BY DEF BindingsOK
  <2> QED BY <1>2, <1>3, <1>4, <2>1, <2>2
<1>7. ASSUME NEW u \in Vars, NEW x \in same'[u]
      PROVE  same'[x] = same'[u] /\ object'[x] = object'[u]
  <2>1. CASE u \in group
    BY <1>2, <1>3, <1>4, <1>7, <2>1
  <2>2. CASE u \notin group
    <3>1. x \in same[u] /\ x # v /\ x \in Vars /\ u # v
      BY <1>2, <1>4, <1>7, <2>2 DEF BindingsOK
    <3>2. same[x] = same[u] /\ object[x] = object[u]
      BY <3>1 DEF BindingsOK
    <3>3. x \notin group
      BY <1>5, <2>2, <3>1 DEF group
    <3> QED BY <1>1, <1>2, <2>2, <3>1, <3>2, <3>3
  <2> QED BY <2>1, <2>2
<1> QED BY <1>1, <1>6, <1>7 DEF BindingsOK

(* An object changes for all variables that are bound to it.               *)
LEMMA ModifyKeeps ==
  ASSUME BindingsOK, NEW v \in Vars, NEW x \in Objects, Modify(v, x)
  PROVE  /\ BindingsOK'
         /\ \A u \in Vars : object'[u] = IF u \in same[v] THEN x ELSE object[u]
<1>1. \A u \in Vars : object'[u] = IF u \in same[v] THEN x ELSE object[u]
  BY DEF Modify
<1>2. object' \in [Vars -> Objects \cup {Nothing}] /\ same' = same
  BY DEF Modify, BindingsOK
<1>3. ASSUME NEW u \in Vars, NEW w \in same[u]
      PROVE  w \in Vars /\ (w \in same[v] <=> u \in same[v])
  BY <1>3 DEF BindingsOK
<1> QED BY <1>1, <1>2, <1>3 DEF BindingsOK

----------------------------------------------------------------------------
(* The operations on memory *)

(* A block comes into being.                                               *)
LEMMA CreateKeeps ==
  ASSUME MemoryOK, NEW s \in Sessions, NEW b \in Blocks, NEW d \in Vectors,
         CreateBlock(s, b, d), UNCHANGED mail
  PROVE  /\ MemoryOK'
         /\ b \in mapped'[s] /\ mem'[b] = d
         /\ \A r \in Sessions : mapped[r] \subseteq mapped'[r]
         /\ \A c \in Blocks : c # b => mem'[c] = mem[c] /\ (Alive(c)' <=> Alive(c))
<1>0. Nothing \notin Sessions /\ Mailed' = Mailed
  BY VectorAssumption DEF Mailed
<1>1. /\ mem' \in [Blocks -> Vectors \cup {Nothing}] /\ mem'[b] = d
      /\ owner' \in [Blocks -> Sessions \cup {Nothing}] /\ owner'[b] = s
      /\ \A c \in Blocks : c # b => mem'[c] = mem[c] /\ owner'[c] = owner[c]
  BY DEF MemoryOK, BlocksOK, CreateBlock
<1>2. /\ mapped' \in [Sessions -> SUBSET Blocks]
      /\ \A r \in Sessions : mapped'[r] = IF r = s THEN mapped[r] \cup {b} ELSE mapped[r]
  BY DEF MemoryOK, BlocksOK, CreateBlock
<1>3. \A c \in Blocks : c # b => (Alive(c)' <=> Alive(c))
  BY <1>1, <1>2 DEF Alive, Named
<1>4. Alive(b)'
  BY <1>2 DEF Alive
<1>5. \A c \in Blocks : Named(c)' => c \in mapped'[owner'[c]]
  <2>1. Named(b)' => b \in mapped'[owner'[b]]
    BY <1>1, <1>2
  <2>2. ASSUME NEW c \in Blocks, c # b, Named(c)'
        PROVE  c \in mapped'[owner'[c]]
    <3>1. Named(c) /\ c \in mapped[owner[c]] /\ owner[c] \in Sessions
      BY <1>1, <2>2 DEF Named, MemoryOK, BlocksOK
    <3> QED BY <1>1, <1>2, <2>2, <3>1
  <2> QED BY <2>1, <2>2
<1>6. \A c \in Blocks : ContentsOK(c)'
  BY <1>0, <1>1, <1>3, <1>4 DEF MemoryOK, ContentsOK
<1> QED BY <1>1, <1>2, <1>3, <1>5, <1>6 DEF MemoryOK, BlocksOK

(* A session opens a block.                                                *)
LEMMA OpenKeeps ==
  ASSUME MemoryOK, NEW s \in Sessions, NEW b \in Blocks, Alive(b),
         OpenBlock(s, b), UNCHANGED mail
  PROVE  /\ MemoryOK'
         /\ b \in mapped'[s]
         /\ \A r \in Sessions : mapped[r] \subseteq mapped'[r]
<1>0. Mailed' = Mailed
  BY DEF Mailed
<1>1. /\ mapped' \in [Sessions -> SUBSET Blocks]
      /\ \A r \in Sessions : mapped'[r] = IF r = s THEN mapped[r] \cup {b} ELSE mapped[r]
      /\ mem' = mem /\ owner' = owner
  BY DEF MemoryOK, BlocksOK, OpenBlock
<1>2. \A c \in Blocks : Alive(c)' <=> Alive(c)
  BY <1>1 DEF Alive, Named
<1>3. \A c \in Blocks : Named(c)' => c \in mapped'[owner'[c]]
  <2> SUFFICES ASSUME NEW c \in Blocks, Named(c)
               PROVE  c \in mapped'[owner[c]]
    BY <1>1 DEF Named
  <2>1. c \in mapped[owner[c]] /\ owner[c] \in Sessions
    BY DEF Named, MemoryOK, BlocksOK
  <2> QED BY <1>1, <2>1
<1>4. \A c \in Blocks : ContentsOK(c)'
  BY <1>0, <1>1, <1>2 DEF MemoryOK, ContentsOK
<1> QED BY <1>1, <1>3, <1>4 DEF MemoryOK, BlocksOK

(* Somebody writes to a block that can be reached.                         *)
LEMMA WriteKeeps ==
  ASSUME MemoryOK, NEW b \in Blocks, NEW d \in Vectors, Alive(b),
         WriteBlock(b, d), UNCHANGED mail
  PROVE  /\ MemoryOK'
         /\ mapped' = mapped /\ mem'[b] = d
         /\ \A c \in Blocks : c # b => mem'[c] = mem[c]
<1>0. Mailed' = Mailed
  BY DEF Mailed
<1>1. /\ mem' \in [Blocks -> Vectors \cup {Nothing}] /\ mem'[b] = d
      /\ \A c \in Blocks : c # b => mem'[c] = mem[c]
      /\ owner' = owner /\ mapped' = mapped
  BY DEF MemoryOK, BlocksOK, WriteBlock
<1>2. \A c \in Blocks : (Alive(c)' <=> Alive(c)) /\ (Named(c)' <=> Named(c))
  BY <1>1 DEF Alive, Named
<1>3. \A c \in Blocks : ContentsOK(c)'
  BY <1>0, <1>1, <1>2 DEF MemoryOK, ContentsOK
<1> QED BY <1>1, <1>2, <1>3 DEF MemoryOK, BlocksOK

(* What nobody can reach any more is dropped: nothing that has contents    *)
(* and can be reached loses them.                                          *)
LEMMA DropKeeps ==
  ASSUME MemoryOK, BlocksOK', DropUnreachable(Mailed'),
         \A b \in Blocks : Alive(b)' \/ b \in Mailed' => Alive(b) \/ b \in Mailed
  PROVE  MemoryOK'
<1>1. \A b \in Blocks : mem'[b] = IF b \in Mailed' \/ Alive(b)' THEN mem[b] ELSE Nothing
  BY DEF DropUnreachable
<1>2. \A b \in Blocks : ContentsOK(b)'
  BY <1>1 DEF MemoryOK, ContentsOK
<1> QED BY <1>2 DEF MemoryOK

(* A session unmaps a block.                                               *)
LEMMA UnmapKeeps ==
  ASSUME MemoryOK, NEW s \in Sessions, NEW b \in Blocks,
         UnmapBlock(s, b, Mailed), UNCHANGED mail
  PROVE  /\ MemoryOK'
         /\ mapped'[s] = mapped[s] \ {b}
         /\ \A r \in Sessions : r # s => mapped'[r] = mapped[r]
<1>0. Mailed' = Mailed /\ Nothing \notin Sessions
  BY VectorAssumption DEF Mailed
<1>1. /\ mapped' \in [Sessions -> SUBSET Blocks]
      /\ \A r \in Sessions : mapped'[r] = IF r = s THEN mapped[r] \ {b} ELSE mapped[r]
  BY DEF MemoryOK, BlocksOK, UnmapBlock
<1>2. /\ owner' \in [Blocks -> Sessions \cup {Nothing}]
      /\ \A c \in Blocks : owner'[c] = IF c = b /\ owner[b] = s THEN Nothing ELSE owner[c]
  BY DEF MemoryOK, BlocksOK, UnmapBlock
<1>3. DropUnreachable(Mailed')
  BY <1>0 DEF UnmapBlock
<1>4. mem' \in [Blocks -> Vectors \cup {Nothing}]
  BY <1>3 DEF DropUnreachable, MemoryOK, BlocksOK
<1>5. \A c \in Blocks : Named(c)' => c \in mapped'[owner'[c]]
  <2> SUFFICES ASSUME NEW c \in Blocks, Named(c)'
               PROVE  c \in mapped'[owner'[c]]
    OBVIOUS
  <2>1. owner'[c] = owner[c] /\ Named(c) /\ ~(c = b /\ owner[b] = s)
    BY <1>2 DEF Named
  <2>2. c \in mapped[owner[c]] /\ owner[c] \in Sessions
    BY <2>1 DEF Named, MemoryOK, BlocksOK
  <2> QED BY <1>1, <2>1, <2>2
<1>6. BlocksOK'
  BY <1>1, <1>2, <1>4, <1>5 DEF BlocksOK
<1>7. \A c \in Blocks : Alive(c)' => Alive(c)
  BY <1>1, <1>2 DEF Alive, Named
<1>8. MemoryOK'
  BY <1>0, <1>3, <1>6, <1>7, DropKeeps
<1> QED BY <1>1, <1>8

(* A message replaces the last one.                                        *)
LEMMA SendKeeps ==
  ASSUME VecIInv, NEW v \in Vars, Send(v)
  PROVE  MemoryOK' /\ MailOK'
<1>1. BindingsOK /\ MemoryOK
  BY VecIInvParts
<1>2. /\ mail' = Serialized(object[v]) /\ Bound(v)
      /\ UNCHANGED <<owner, mapped>>
      /\ DropUnreachable(Mailed')
  BY DEF Send
<1>3. object[v] \in Objects /\ DataOf(object[v]) \in Vectors
  BY <1>2, DataTyped
<1>4. MailOK'
  BY <1>2, <1>3, ObjectForms DEF MailOK, Serialized
<1>5. \A b \in Blocks : Alive(b)' <=> Alive(b)
  BY <1>2 DEF Alive, Named
<1>6. ASSUME NEW b \in Mailed'
      PROVE  Alive(b)
  <2>1. IsViewOf(Serialized(object[v]), b)
    BY <1>2, <1>6 DEF Mailed
  <2>2. IsView(object[v]) /\ Named(object[v].block)
    BY <1>3, <2>1, ObjectForms DEF IsViewOf, Serialized
  <2>3. b = object[v].block
    BY <2>1, <2>2 DEF IsViewOf, Serialized
  <2> QED BY <2>2, <2>3 DEF Alive
<1>7. BlocksOK'
  <2>1. mem' \in [Blocks -> Vectors \cup {Nothing}]
    BY <1>1, <1>2 DEF DropUnreachable, MemoryOK, BlocksOK
  <2> QED BY <1>1, <1>2, <2>1 DEF MemoryOK, BlocksOK, Named
<1>8. MemoryOK'
  BY <1>1, <1>2, <1>5, <1>6, <1>7, DropKeeps
<1> QED BY <1>4, <1>8

(* The pointers of the views, when the bindings are those of before except *)
(* one, and nothing is unmapped.                                           *)
LEMMA PointersKept ==
  ASSUME VecIInv, NEW v \in Vars,
         \A u \in Vars : u # v => object'[u] = object[u],
         \A r \in Sessions : mapped[r] \subseteq mapped'[r],
         IsView(object'[v]) => object'[v].block \in mapped'[Home[v]]
  PROVE  ViewsMapped'
<1>1. ViewsMapped /\ Home \in [Vars -> Sessions]
  BY VecIInvParts, VectorAssumption
<1>2. ASSUME NEW u \in Vars, IsView(object'[u])
      PROVE  object'[u].block \in mapped'[Home[u]]
  <2>1. CASE u = v
    BY <1>2, <2>1
  <2>2. CASE u # v
    BY <1>1, <1>2, <2>2 DEF ViewsMapped
  <2> QED BY <2>1, <2>2
<1> QED BY <1>2 DEF ViewsMapped, IsView

----------------------------------------------------------------------------
(* Every step keeps the invariant *)

(* A view of a new block.                                                  *)
LEMMA NewViewKeeps ==
  ASSUME VecIInv, NEW v \in Vars, NEW f \in Flags, NEW d \in Vectors, CreateView(v, f, d)
  PROVE  VecIInv'
<1>0. BindingsOK /\ MailOK /\ MemoryOK /\ Home[v] \in Sessions
  BY VecIInvParts, VectorAssumption
<1>1. PICK b \in Blocks : /\ Bind(v, View(b, f))
                          /\ CreateBlock(Home[v], b, d)
                          /\ UNCHANGED mail
  BY DEF CreateView
<1>2. View(b, f) \in Objects /\ View(b, f).block = b
  BY <1>1, ObjectForms
<1>3. BindingsOK' /\ object'[v] = View(b, f) /\ \A u \in Vars : u # v => object'[u] = object[u]
  BY <1>0, <1>1, <1>2, BindKeeps
<1>4. MemoryOK' /\ b \in mapped'[Home[v]] /\ \A r \in Sessions : mapped[r] \subseteq mapped'[r]
  BY <1>0, <1>1, CreateKeeps
<1>5. ViewsMapped'
  BY <1>2, <1>3, <1>4, PointersKept
<1>6. MailOK'
  BY <1>0, <1>1 DEF MailOK
<1> QED BY <1>3, <1>4, <1>5, <1>6, VecIInvParts, PTL

(* Steps that leave memory and mail alone.                                 *)
LEMMA BindingStepKeeps ==
  ASSUME VecIInv, BindingsOK', ViewsMapped', UNCHANGED <<blockVars, mail>>
  PROVE  VecIInv'
<1>1. MailOK' /\ MemoryOK'
  <2>1. MailOK /\ MemoryOK
    BY VecIInvParts
  <2>2. mem' = mem /\ owner' = owner /\ mapped' = mapped /\ mail' = mail
    BY DEF blockVars
  <2> QED BY <2>1, <2>2 DEF MailOK, MemoryOK, BlocksOK, ContentsOK, Alive, Named, Mailed
<1> QED BY <1>1, VecIInvParts, PTL

(* A plain vector, or nothing.                                             *)
LEMMA PlainKeeps ==
  ASSUME VecIInv, NEW v \in Vars, NEW x \in Objects \cup {Nothing}, ~IsView(x),
         Bind(v, x), UNCHANGED <<blockVars, mail>>
  PROVE  VecIInv'
<1>1. BindingsOK
  BY VecIInvParts
<1>2. BindingsOK' /\ object'[v] = x /\ \A u \in Vars : u # v => object'[u] = object[u]
  BY <1>1, BindKeeps
<1>3. mapped' = mapped
  BY DEF blockVars
<1>4. ViewsMapped'
  BY <1>2, <1>3, PointersKept
<1> QED BY <1>2, <1>4, BindingStepKeeps

(* y <- x                                                                  *)
LEMMA AliasStepKeeps ==
  ASSUME VecIInv, NEW v \in Vars, NEW w \in Vars, Home[v] = Home[w], Alias(v, w)
  PROVE  VecIInv'
<1>1. BindingsOK /\ ViewsMapped
  BY VecIInvParts
<1>2. BindingsOK' /\ object'[v] = object[w] /\ \A u \in Vars : u # v => object'[u] = object[u]
  BY <1>1, AliasKeeps
<1>3. UNCHANGED <<blockVars, mail>> /\ mapped' = mapped
  BY DEF Alias, blockVars
<1>4. IsView(object'[v]) => object'[v].block \in mapped'[Home[v]]
  BY <1>1, <1>2, <1>3 DEF ViewsMapped
<1>5. ViewsMapped'
  BY <1>2, <1>3, <1>4, PointersKept
<1> QED BY <1>2, <1>3, <1>5, BindingStepKeeps

(* Setting a property.                                                     *)
LEMMA PropertyKeeps ==
  ASSUME VecIInv, NEW v \in Vars, NEW p \in Settable, NEW c \in BOOLEAN, SetProperty(v, p, c)
  PROVE  /\ VecIInv'
         /\ \A u \in Vars : IF u \in same[v]
                          THEN object'[u] = View(object[v].block, [object[v].flags EXCEPT ![p] = c])
                               /\ object[u] = object[v]
                          ELSE object'[u] = object[u]
<1>1. BindingsOK /\ ViewsMapped /\ IsView(object[v]) /\ Bound(v)
  BY VecIInvParts DEF SetProperty, Bound, IsView
<1>2. PICK f \in Flags : f = [object[v].flags EXCEPT ![p] = c]
  BY <1>1, DataTyped, VectorAssumption DEF Flags
<1>3. PICK b \in Blocks : b = object[v].block
  BY <1>1, DataTyped
<1>4. object[v] = View(b, object[v].flags) /\ object[v] \in Objects
  BY <1>1, <1>3, DataTyped, ObjectForms
<1>5. [object[v] EXCEPT !.flags[p] = c] = View(b, f)
  BY <1>2, <1>4 DEF View
<1>6. Modify(v, View(b, f)) /\ UNCHANGED <<blockVars, mail>> /\ mapped' = mapped
  BY <1>5 DEF SetProperty, blockVars
<1>7. /\ BindingsOK'
      /\ \A u \in Vars : object'[u] = IF u \in same[v] THEN View(b, f) ELSE object[u]
  BY <1>1, <1>6, ModifyKeeps, ObjectForms
<1>8. \A u \in same[v] : u \in Vars /\ object[u] = object[v]
  BY <1>1 DEF BindingsOK
<1>9. ViewsMapped'
  <2> SUFFICES ASSUME NEW u \in Vars, IsView(object'[u])
               PROVE  object'[u].block \in mapped[Home[u]]
    BY <1>6 DEF ViewsMapped, IsView
  <2>1. CASE u \in same[v]
    BY <1>1, <1>3, <1>7, <1>8, <2>1, ObjectForms DEF ViewsMapped
  <2>2. CASE u \notin same[v]
    BY <1>1, <1>7, <2>2 DEF ViewsMapped
  <2> QED BY <2>1, <2>2
<1>10. VecIInv'
  BY <1>6, <1>7, <1>9, BindingStepKeeps
<1> QED BY <1>2, <1>3, <1>7, <1>8, <1>10

(* Writing in place.                                                       *)
LEMMA WriteInPlaceKeeps ==
  ASSUME VecIInv, NEW v \in Vars, NEW i \in Indices, NEW e \in Elements, WriteInPlace(v, i, e)
  PROVE  VecIInv'
<1>1. BindingsOK /\ MailOK /\ MemoryOK /\ ViewsMapped
  BY VecIInvParts
<1> DEFINE x == object[v]
           d == [DataOf(x) EXCEPT ![i] = e]
<1>2. Bound(v) /\ i \in DOMAIN DataOf(x) /\ mail' = mail
  BY DEF WriteInPlace
<1>3. d \in Vectors /\ x \in Objects
  BY <1>2, DataTyped, ChangedTyped
<1>4. CASE IsView(x)
  <2>1. WriteBlock(x.block, d) /\ object' = object /\ same' = same
    BY <1>4 DEF WriteInPlace
  <2>2. x.block \in Blocks /\ Alive(x.block)
    BY <1>2, <1>4, DataTyped
  <2> HIDE DEF d, x
  <2>3. MemoryOK' /\ mapped' = mapped
    BY <1>1, <1>2, <1>3, <2>1, <2>2, WriteKeeps
  <2>4. BindingsOK' /\ MailOK' /\ ViewsMapped'
    BY <1>1, <1>2, <2>1, <2>3 DEF BindingsOK, MailOK, ViewsMapped
  <2> QED BY <2>3, <2>4, VecIInvParts, PTL
<1>5. CASE ~IsView(x)
  <2>1. x = Plain(x.data) /\ x.data \in Vectors /\ DataOf(x) = x.data
    BY <1>2, <1>3, <1>5, ObjectForms DEF DataOf, IsView, Bound
  <2>2. [x EXCEPT !.data[i] = e] = Plain(d)
    BY <2>1 DEF Plain
  <2>3. Modify(v, Plain(d)) /\ UNCHANGED <<blockVars, mail>> /\ mapped' = mapped
    BY <1>2, <1>5, <2>2 DEF WriteInPlace, blockVars
  <2>4. same[v] = {v}
    BY DEF WriteInPlace, MayWriteInPlace
  <2> HIDE DEF d
  <2>5. BindingsOK' /\ \A u \in Vars : object'[u] = IF u \in same[v] THEN Plain(d) ELSE object[u]
    BY <1>1, <1>3, <2>3, ModifyKeeps, ObjectForms
  <2>6. object'[v] = Plain(d) /\ \A u \in Vars : u # v => object'[u] = object[u]
    BY <2>4, <2>5
  <2>7. ~IsView(object'[v])
    BY <1>3, <2>6, ObjectForms
  <2>8. ViewsMapped'
    BY <2>3, <2>6, <2>7, PointersKept
  <2> QED BY <2>3, <2>5, <2>8, BindingStepKeeps
<1> QED BY <1>4, <1>5

(* The write into another view of the same block.                          *)
LEMMA WriteThroughKeeps ==
  ASSUME VecIInv, NEW v \in Vars, NEW d \in Vectors, IsView(object[v]),
         Bind(v, object[v]), WriteBlock(object[v].block, d), UNCHANGED mail
  PROVE  VecIInv'
<1>1. BindingsOK /\ MailOK /\ MemoryOK /\ ViewsMapped /\ Bound(v)
  BY VecIInvParts DEF IsView, Bound
<1>2. PICK x \in Objects : x = object[v]
  BY <1>1, DataTyped
<1>3. PICK b \in Blocks : b = x.block /\ Alive(b)
  BY <1>1, <1>2, DataTyped
<1>4. BindingsOK' /\ object'[v] = x /\ \A u \in Vars : u # v => object'[u] = object[u]
  BY <1>1, <1>2, BindKeeps
<1>5. MemoryOK' /\ mapped' = mapped
  BY <1>1, <1>2, <1>3, WriteKeeps
<1>6. IsView(object'[v]) => object'[v].block \in mapped'[Home[v]]
  BY <1>1, <1>2, <1>4, <1>5 DEF ViewsMapped
<1>7. ViewsMapped'
  BY <1>4, <1>5, <1>6, PointersKept
<1>8. MailOK'
  BY <1>1 DEF MailOK
<1> QED BY <1>4, <1>5, <1>7, <1>8, VecIInvParts, PTL

(* A message arrives.                                                      *)
LEMMA ReceiveKeeps ==
  ASSUME VecIInv, NEW v \in Vars, Receive(v)
  PROVE  VecIInv'
<1>1. BindingsOK /\ MailOK /\ MemoryOK /\ mail' = mail /\ mail \in Objects
  BY VecIInvParts DEF Receive, MailOK
<1>2. CASE Bind(v, mail) /\ ~IsView(mail) /\ UNCHANGED blockVars
  BY <1>1, <1>2, PlainKeeps
<1>3. CASE Bind(v, Nothing) /\ UNCHANGED blockVars
  BY <1>1, <1>3, PlainKeeps DEF IsView
<1>4. CASE IsView(mail) /\ CanMap(Home[v], mail.block) /\ Bind(v, mail) /\ OpenBlock(Home[v], mail.block)
  <2>1. PICK s \in Sessions : s = Home[v]
    BY VectorAssumption
  <2>2. PICK b \in Blocks : b = mail.block
    BY <1>1, <1>4, ObjectForms
  <2>3. Alive(b)
    BY <1>4, <2>1, <2>2 DEF CanMap, Alive
  <2>4. BindingsOK' /\ object'[v] = mail /\ \A u \in Vars : u # v => object'[u] = object[u]
    BY <1>1, <1>4, BindKeeps
  <2>5. MemoryOK' /\ b \in mapped'[s] /\ \A r \in Sessions : mapped[r] \subseteq mapped'[r]
    BY <1>1, <1>4, <2>1, <2>2, <2>3, OpenKeeps
  <2>6. ViewsMapped'
    BY <2>1, <2>2, <2>4, <2>5, PointersKept
  <2>7. MailOK'
    BY <1>1 DEF MailOK
  <2> QED BY <2>4, <2>5, <2>6, <2>7, VecIInvParts, PTL
<1> QED BY <1>2, <1>3, <1>4 DEF Receive

(* The finalizers of a block.                                              *)
LEMMA CollectKeeps ==
  ASSUME VecIInv, NEW s \in Sessions, NEW b \in Blocks, Collect(s, b)
  PROVE  VecIInv'
<1>1. BindingsOK /\ MailOK /\ MemoryOK /\ ViewsMapped
  BY VecIInvParts
<1>2. /\ UnmapBlock(s, b, Mailed) /\ Unviewed(s, b)
      /\ object' = object /\ same' = same /\ mail' = mail
  BY DEF Collect
<1>3. /\ MemoryOK'
      /\ mapped'[s] = mapped[s] \ {b}
      /\ \A r \in Sessions : r # s => mapped'[r] = mapped[r]
  BY <1>1, <1>2, UnmapKeeps
<1>4. ViewsMapped'
  <2> SUFFICES ASSUME NEW v \in Vars, IsView(object[v])
               PROVE  object[v].block \in mapped'[Home[v]]
    BY <1>2 DEF ViewsMapped
  <2>1. object[v].block \in mapped[Home[v]] /\ Home[v] \in Sessions
    BY <1>1, VectorAssumption DEF ViewsMapped
  <2>2. Home[v] = s => object[v].block # b
    BY <1>2 DEF Unviewed, Viewers, IsViewOf
  <2> QED BY <1>3, <2>1, <2>2
<1>5. BindingsOK' /\ MailOK'
  BY <1>1, <1>2 DEF BindingsOK, MailOK
<1> QED BY <1>3, <1>4, <1>5, VecIInvParts, PTL

(* share: of whatever data it copies, and however.                         *)
LEMMA ShareMakes ==
  ASSUME VecIInv, NEW v \in Vars, NEW w \in Vars, NEW f \in FlagSets, Share(v, w, f)
  PROVE  /\ f \in Flags /\ Bound(w)
         /\ \E d \in {DataOf(object[w]), CopyData(DataOf(object[w]))} :
              d \in Vectors /\ CreateView(v, f, d)
<1>1. f \in Flags /\ Bound(w)
  BY VectorAssumption DEF Share
<1>2. DataOf(object[w]) \in Vectors /\ CopyData(DataOf(object[w])) \in Vectors
  BY <1>1, DataTyped, CopyDataTyped
<1> QED BY <1>1, <1>2 DEF Share

(* x[sel]                                                                  *)
LEMMA SubsetMakes ==
  ASSUME VecIInv, NEW v \in Vars, NEW w \in Vars, NEW sel \in Selections, Subset(v, w, sel)
  PROVE  LET x == object[w]
             d == Picked(DataOf(x), sel)
         IN /\ d \in Vectors /\ Bound(w)
            /\ \/ IsView(x) /\ x.flags \in Flags /\ CreateView(v, x.flags, d)
               \/ CreatePlain(v, d)
<1>1. Bound(w) /\ \A i \in DOMAIN sel : sel[i] \in DOMAIN DataOf(object[w])
  BY DEF Subset
<1>2. DataOf(object[w]) \in Vectors /\ (IsView(object[w]) => object[w].flags \in Flags)
  BY <1>1, DataTyped
<1>3. Picked(DataOf(object[w]), sel) \in Vectors
  BY <1>1, <1>2, PickedTyped
<1> QED BY <1>1, <1>2, <1>3 DEF Subset

(* A write into what sharedVector_duplicate returned.                      *)
LEMMA DuplicateMakes ==
  ASSUME VecIInv, NEW v \in Vars, NEW i \in Indices, NEW e \in Elements,
         WriteAfterDuplicate(v, i, e)
  PROVE  LET x == object[v]
             d == [DataOf(x) EXCEPT ![i] = e]
         IN /\ d \in Vectors /\ Bound(v) /\ i \in DOMAIN DataOf(x)
            /\ \/ (IsView(x) => x.flags.cow) /\ CreatePlain(v, d)
               \/ IsView(x) /\ x.flags.cow /\ x.flags \in Flags /\ CreateView(v, x.flags, d)
               \/ /\ IsView(x) /\ ~x.flags.cow
                  /\ Bind(v, x) /\ WriteBlock(x.block, d) /\ UNCHANGED mail
<1>1. Bound(v) /\ i \in DOMAIN DataOf(object[v])
  BY DEF WriteAfterDuplicate
<1>2. DataOf(object[v]) \in Vectors /\ (IsView(object[v]) => object[v].flags \in Flags)
  BY <1>1, DataTyped
<1>3. [DataOf(object[v]) EXCEPT ![i] = e] \in Vectors
  BY <1>1, <1>2, ChangedTyped
<1> QED BY <1>1, <1>2, <1>3 DEF WriteAfterDuplicate, Copies

(* Every step.                                                             *)
LEMMA VecStepKeeps ==
  ASSUME VecIInv, [VecNext]_vecVars
  PROVE  VecIInv'
<1>1. CASE UNCHANGED vecVars
  <2>1. BindingsOK /\ ViewsMapped
    BY VecIInvParts
  <2>2. BindingsOK' /\ ViewsMapped'
    BY <1>1, <2>1 DEF vecVars, blockVars, BindingsOK, ViewsMapped
  <2> QED BY <1>1, <2>2, BindingStepKeeps DEF vecVars
<1>2. ASSUME NEW s \in Sessions, NEW b \in Blocks, Collect(s, b)
      PROVE  VecIInv'
  BY <1>2, CollectKeeps
<1>3. ASSUME NEW v \in Vars, NEW d \in Vectors, CreatePlain(v, d)
      PROVE  VecIInv'
  BY <1>3, PlainKeeps, ObjectForms DEF CreatePlain
<1>4. ASSUME NEW v \in Vars, NEW w \in Vars, Home[v] = Home[w],
             \/ Alias(v, w)
             \/ Unshare(v, w)
             \/ \E f \in FlagSets : Share(v, w, f)
             \/ \E sel \in Selections : Subset(v, w, sel)
      PROVE  VecIInv'
  <2>1. CASE Alias(v, w)
    BY <1>4, <2>1, AliasStepKeeps
  <2>2. CASE Unshare(v, w)
    <3>1. Bound(w)
      BY <2>2 DEF Unshare, IsView, Bound
    <3> QED BY <1>3, <2>2, <3>1, DataTyped DEF Unshare
  <2>3. CASE \E f \in FlagSets : Share(v, w, f)
    BY <2>3, ShareMakes, NewViewKeeps
  <2>4. CASE \E sel \in Selections : Subset(v, w, sel)
    BY <1>3, <2>4, SubsetMakes, NewViewKeeps
  <2> QED BY <1>4, <2>1, <2>2, <2>3, <2>4
<1>5. ASSUME NEW v \in Vars,
             \/ \E p \in Settable, b \in BOOLEAN : SetProperty(v, p, b)
             \/ \E i \in Indices, e \in Elements :
                  WriteInPlace(v, i, e) \/ WriteAfterDuplicate(v, i, e)
             \/ Forget(v) \/ NewVector(v) \/ Send(v) \/ Receive(v)
      PROVE  VecIInv'
  <2>1. CASE \E p \in Settable, b \in BOOLEAN : SetProperty(v, p, b)
    BY <2>1, PropertyKeeps
  <2>2. CASE \E i \in Indices, e \in Elements : WriteInPlace(v, i, e)
    BY <2>2, WriteInPlaceKeeps
  <2>3. CASE \E i \in Indices, e \in Elements : WriteAfterDuplicate(v, i, e)
    BY <1>3, <2>3, DuplicateMakes, NewViewKeeps, WriteThroughKeeps
  <2>4. CASE Forget(v)
    BY <2>4, PlainKeeps DEF Forget, IsView
  <2>5. CASE NewVector(v)
    BY <1>3, <2>5, VectorAssumption DEF NewVector
  <2>6. CASE Send(v)
    <3>1. BindingsOK /\ ViewsMapped /\ object' = object /\ same' = same /\ mapped' = mapped
      BY <2>6, VecIInvParts DEF Send
    <3>2. BindingsOK' /\ ViewsMapped'
      BY <3>1 DEF BindingsOK, ViewsMapped
    <3>3. MemoryOK' /\ MailOK'
      BY <2>6, SendKeeps
    <3> QED BY <3>2, <3>3, VecIInvParts, PTL
  <2>7. CASE Receive(v)
    BY <2>7, ReceiveKeeps
  <2> QED BY <1>5, <2>1, <2>2, <2>3, <2>4, <2>5, <2>6, <2>7
<1>6. CASE VecNext
  BY <1>2, <1>4, <1>5, <1>6 DEF VecNext
<1> QED BY <1>1, <1>6

(* The first state.                                                        *)
LEMMA VecInitOK == VecInit => VecIInv
<1> SUFFICES ASSUME VecInit
             PROVE  VecIInv
  OBVIOUS
<1>1. Plain(Initial) \in Objects /\ ~IsView(Plain(Initial))
  BY VectorAssumption, ObjectForms
<1>2. BindingsOK /\ MailOK
  BY <1>1 DEF VecInit, BindingsOK, MailOK
<1>3. ViewsMapped
  BY <1>1 DEF VecInit, ViewsMapped
<1>4. Mailed = {}
  BY DEF VecInit, Mailed, IsViewOf, IsView
<1>5. MemoryOK
  BY <1>4 DEF VecInit, MemInit, MemoryOK, BlocksOK, ContentsOK, Alive, Named
<1> QED BY <1>2, <1>3, <1>5, VecIInvParts

(* In every behaviour, for any number of sessions, variables and blocks,   *)
(* the type and the pointers hold.                                         *)
THEOREM VecInductiveInvariant == VecSpec => []VecIInv
<1>1. VecInit => VecIInv
  BY VecInitOK
<1>2. VecIInv /\ [VecNext]_vecVars => VecIInv'
  BY VecStepKeeps
<1> QED BY <1>1, <1>2, PTL DEF VecSpec

(* The variables of SharedVector have their types; those bound to one      *)
(* object are classes, and a block has contents while it can be reached.   *)
THEOREM VecTypeCorrect == VecSpec => []VecTypeOK
<1>1. VecIInv => VecTypeOK
  BY DEF VecIInv
<1> QED BY <1>1, VecInductiveInvariant, PTL

(* The pointer that sharedVector_dataptr returns for a view leads into     *)
(* memory the session has mapped, and a name lasts as long as its          *)
(* creator's mapping.                                                      *)
THEOREM ViewsLeadToMemory == VecSpec => []PointersLeadToMemory
<1>1. VecIInv => PointersLeadToMemory
  BY DEF VecIInv
<1> QED BY <1>1, VecInductiveInvariant, PTL

----------------------------------------------------------------------------
(* Copy on write.  Users may change the flag of an object; here they do    *)
(* not, and everything that copies flags then keeps views of one block in  *)
(* agreement.                                                              *)

CowFixed == "cow" \notin Settable

(* The objects that variables are bound to, and the one in transit.        *)
Held == {object[v] : v \in Vars} \cup {mail}

(* A step whose objects are, but for flags other than copyOnWrite, objects *)
(* of before.                                                              *)
LEMMA InheritedCow ==
  ASSUME CowDecidedByBlock,
         \A x \in Held' : IsView(x) => \E y \in Held : /\ IsViewOf(y, x.block)
                                                     /\ y.flags.cow = x.flags.cow
  PROVE  CowDecidedByBlock'
BY DEF CowDecidedByBlock, Held, IsViewOf

(* In particular one that changes the object of one variable to a plain    *)
(* vector, nothing, or an object of before.                                *)
LEMMA OneInheritsCow ==
  ASSUME CowDecidedByBlock, NEW v \in Vars,
         \A u \in Vars : u # v => object'[u] = object[u],
         \/ mail' = mail /\ (IsView(object'[v]) => object'[v] \in Held)
         \/ object'[v] = object[v] /\ (IsView(mail') => mail' \in Held)
  PROVE  CowDecidedByBlock'
<1>1. \A x \in Held' : IsView(x) => x \in Held
  BY DEF Held
<1>2. \A x \in Held' : IsView(x) => \E y \in Held : /\ IsViewOf(y, x.block)
                                                  /\ y.flags.cow = x.flags.cow
  BY <1>1 DEF IsViewOf
<1> QED BY <1>2, InheritedCow

(* Nobody has a view of a block that is not alive, and no message names it *)
(* unless it is in transit.                                                *)
LEMMA DeadUnviewed ==
  ASSUME VecIInv, NEW b \in Blocks \ Mailed, ~Alive(b)
  PROVE  \A x \in Held : ~IsViewOf(x, b)
<1>1. ~IsViewOf(mail, b)
  BY DEF Mailed
<1>2. ASSUME NEW v \in Vars
      PROVE  ~IsViewOf(object[v], b)
  BY DataTyped DEF IsViewOf, IsView, Bound
<1> QED BY <1>1, <1>2 DEF Held

(* A new block has one view.                                               *)
LEMMA NewViewCow ==
  ASSUME VecIInv, CowDecidedByBlock, NEW v \in Vars, NEW f \in Flags, NEW d, CreateView(v, f, d)
  PROVE  CowDecidedByBlock'
<1>1. PICK b \in Blocks \ Mailed : ~Alive(b) /\ Bind(v, View(b, f)) /\ mail' = mail
  BY DEF CreateView
<1>2. View(b, f) \in Objects /\ View(b, f).block = b /\ BindingsOK
  BY <1>1, ObjectForms, VecIInvParts
<1>3. object'[v] = View(b, f) /\ \A u \in Vars : u # v => object'[u] = object[u]
  BY <1>1, <1>2, BindKeeps
<1>4. \A x \in Held' : x \in Held \/ x = View(b, f)
  BY <1>1, <1>3 DEF Held
<1>5. \A x \in Held : ~IsViewOf(x, b)
  BY <1>1, DeadUnviewed
<1>6. \A c \in Blocks : \A x, y \in Held' :
        IsViewOf(x, c) /\ IsViewOf(y, c) => x.flags.cow = y.flags.cow
  BY <1>2, <1>4, <1>5 DEF CowDecidedByBlock, Held, IsViewOf
<1> QED BY <1>6 DEF CowDecidedByBlock, Held

(* A property that is not copyOnWrite.                                     *)
LEMMA PropertyKeepsCow ==
  ASSUME VecIInv, CowDecidedByBlock, CowFixed,
         NEW v \in Vars, NEW p \in Settable, NEW c \in BOOLEAN, SetProperty(v, p, c)
  PROVE  /\ CowDecidedByBlock'
         /\ \A u \in Vars : \/ object'[u] = object[u]
                          \/ /\ IsView(object[u]) /\ IsView(object'[u])
                             /\ object'[u].block = object[u].block
                             /\ object'[u].flags.cow = object[u].flags.cow
<1>1. IsView(object[v]) /\ Bound(v) /\ mail' = mail
  BY DEF SetProperty, IsView, Bound
<1>2. PICK f \in Flags : f = [object[v].flags EXCEPT ![p] = c]
  BY <1>1, DataTyped, VectorAssumption DEF Flags
<1>3. f.cow = object[v].flags.cow
  BY <1>1, <1>2, DataTyped, VectorAssumption DEF Flags, CowFixed
<1>4. PICK b \in Blocks : b = object[v].block
  BY <1>1, DataTyped
<1>5. \A u \in Vars : IF u \in same[v] THEN object'[u] = View(b, f) /\ object[u] = object[v]
                                    ELSE object'[u] = object[u]
  BY <1>2, <1>4, PropertyKeeps
<1>6. IsView(View(b, f)) /\ View(b, f).block = b /\ View(b, f).flags = f
  BY ObjectForms
<1>7. \A u \in Vars : \/ object'[u] = object[u]
                    \/ /\ IsView(object[u]) /\ IsView(object'[u])
                       /\ object'[u].block = object[u].block
                       /\ object'[u].flags.cow = object[u].flags.cow
  BY <1>1, <1>3, <1>4, <1>5, <1>6
<1>8. \A x \in Held' : IsView(x) => \E y \in Held : /\ IsViewOf(y, x.block)
                                                  /\ y.flags.cow = x.flags.cow
  BY <1>1, <1>7 DEF Held, IsViewOf
<1>9. CowDecidedByBlock'
  BY <1>8, InheritedCow
<1> QED BY <1>7, <1>9

(* Every step keeps the agreement.                                         *)
LEMMA CowStepKeeps ==
  ASSUME VecIInv, CowDecidedByBlock, CowFixed, [VecNext]_vecVars
  PROVE  CowDecidedByBlock'
<1>0. BindingsOK /\ MailOK /\ \A v \in Vars : object[v] \in Held
  BY VecIInvParts DEF Held
<1>1. ASSUME UNCHANGED <<object, mail>>
      PROVE  CowDecidedByBlock'
  BY <1>1 DEF CowDecidedByBlock
<1>2. ASSUME NEW v \in Vars, NEW x \in Objects \cup {Nothing}, Bind(v, x),
             IsView(x) => x \in Held, mail' = mail
      PROVE  CowDecidedByBlock'
  BY <1>0, <1>2, BindKeeps, OneInheritsCow
<1>3. ASSUME NEW v \in Vars, NEW d \in Vectors, CreatePlain(v, d)
      PROVE  CowDecidedByBlock'
  BY <1>2, <1>3, ObjectForms DEF CreatePlain
<1>4. ASSUME NEW v \in Vars, NEW w \in Vars,
             \/ Alias(v, w)
             \/ Unshare(v, w)
             \/ \E f \in FlagSets : Share(v, w, f)
             \/ \E sel \in Selections : Subset(v, w, sel)
      PROVE  CowDecidedByBlock'
  <2>1. CASE Alias(v, w)
    <3>1. object'[v] = object[w] /\ (\A u \in Vars : u # v => object'[u] = object[u]) /\ mail' = mail
      BY <1>0, <2>1, AliasKeeps DEF Alias
    <3> QED BY <1>0, <3>1, OneInheritsCow
  <2>2. CASE Unshare(v, w)
    <3>1. Bound(w)
      BY <2>2 DEF Unshare, IsView, Bound
    <3> QED BY <1>3, <2>2, <3>1, DataTyped DEF Unshare
  <2>3. CASE \E f \in FlagSets : Share(v, w, f)
    BY <2>3, ShareMakes, NewViewCow
  <2>4. CASE \E sel \in Selections : Subset(v, w, sel)
    BY <1>3, <2>4, SubsetMakes, NewViewCow
  <2> QED BY <1>4, <2>1, <2>2, <2>3, <2>4
<1>5. ASSUME NEW v \in Vars, NEW i \in Indices, NEW e \in Elements,
             WriteInPlace(v, i, e) \/ WriteAfterDuplicate(v, i, e)
      PROVE  CowDecidedByBlock'
  <2>1. CASE WriteInPlace(v, i, e)
    <3>1. CASE IsView(object[v])
      BY <1>1, <2>1, <3>1 DEF WriteInPlace
    <3>2. CASE ~IsView(object[v])
      <4>1. Bound(v) /\ same[v] = {v} /\ mail' = mail
        BY <2>1 DEF WriteInPlace, MayWriteInPlace
      <4>2. Modify(v, [object[v] EXCEPT !.data[i] = e])
        BY <2>1, <3>2 DEF WriteInPlace
      <4>3. /\ \A u \in Vars : u # v => object'[u] = object[u]
            /\ object'[v] = [object[v] EXCEPT !.data[i] = e]
        BY <1>0, <4>1, <4>2 DEF Modify
      <4>4. object[v] = Plain(object[v].data)
        BY <3>2, <4>1, DataTyped, ObjectForms
      <4>5. ~IsView(object'[v])
        BY <4>3, <4>4 DEF Plain, IsView
      <4> QED BY <4>1, <4>3, <4>5, OneInheritsCow
    <3> QED BY <3>1, <3>2
  <2>2. CASE WriteAfterDuplicate(v, i, e)
    <3>1. object[v] \in Objects
      BY <2>2, DuplicateMakes, DataTyped
    <3> QED BY <1>0, <1>2, <1>3, <2>2, <3>1, DuplicateMakes, NewViewCow
  <2> QED BY <1>5, <2>1, <2>2
<1>6. ASSUME NEW v \in Vars, Forget(v) \/ NewVector(v) \/ Send(v) \/ Receive(v)
      PROVE  CowDecidedByBlock'
  <2>1. CASE Forget(v)
    BY <1>2, <2>1 DEF Forget, IsView
  <2>2. CASE NewVector(v)
    BY <1>3, <2>2, VectorAssumption DEF NewVector
  <2>3. CASE Send(v)
    <3>1. object' = object /\ mail' = Serialized(object[v])
      BY <2>3 DEF Send
    <3>2. Bound(v) /\ DataOf(object[v]) \in Vectors
      BY <2>3, DataTyped DEF Send
    <3>3. IsView(mail') => mail' = object[v]
      BY <3>1, <3>2, ObjectForms DEF Serialized
    <3> QED BY <1>0, <3>1, <3>3, OneInheritsCow
  <2>4. CASE Receive(v)
    BY <1>0, <1>2, <2>4 DEF Receive, Held, MailOK, IsView
  <2> QED BY <1>6, <2>1, <2>2, <2>3, <2>4
<1>7. ASSUME NEW s \in Sessions, NEW b \in Blocks, Collect(s, b)
      PROVE  CowDecidedByBlock'
  BY <1>1, <1>7 DEF Collect
<1>8. CASE VecNext
  BY <1>4, <1>5, <1>6, <1>7, <1>8, PropertyKeepsCow DEF VecNext
<1>9. CASE UNCHANGED vecVars
  BY <1>1, <1>9 DEF vecVars
<1> QED BY <1>8, <1>9

(* Unless users change copyOnWrite of an existing object, all views of a   *)
(* block, in all sessions, agree on it with each other and with a message  *)
(* that names the block.                                                   *)
THEOREM CopiesInheritCow ==
  ASSUME CowFixed
  PROVE  VecSpec => []CowDecidedByBlock
<1>1. VecInit => CowDecidedByBlock
  <2> SUFFICES ASSUME VecInit
               PROVE  CowDecidedByBlock
    OBVIOUS
  <2>1. \A x \in {object[v] : v \in Vars} \cup {mail} : ~IsView(x)
    BY VectorAssumption, ObjectForms DEF VecInit, IsView
  <2> QED BY <2>1 DEF CowDecidedByBlock, IsViewOf
<1>2. VecIInv /\ CowDecidedByBlock /\ [VecNext]_vecVars => CowDecidedByBlock'
  BY CowStepKeeps
<1> QED BY <1>1, <1>2, VecInductiveInvariant, PTL DEF VecSpec

----------------------------------------------------------------------------
(* What share() returns has the elements of its argument, for integers:    *)
(* copyData puts every region where it comes from.  For other types it     *)
(* does not, once a vector has more than one region (run copy_data).       *)
LEMMA ShareIsExact ==
  ASSUME VecIInv, DataType = "integer", NEW v \in Vars, NEW w \in Vars, NEW f \in FlagSets,
         Share(v, w, f)
  PROVE  CreateView(v, f, DataOf(object[w])) /\ DataOf(object[w]) \in Vectors /\ f \in Flags
<1>1. Bound(w)
  BY DEF Share
<1>2. DataOf(object[w]) \in Vectors
  BY <1>1, DataTyped
<1>3. CopyData(DataOf(object[w])) = DataOf(object[w])
  BY <1>2, CopyDataExact
<1> QED BY <1>3, ShareMakes

(* The elements are those of the argument, in all sessions and behaviours. *)
THEOREM ShareIsACopy ==
  ASSUME DataType = "integer"
  PROVE  VecSpec => ShareKeepsElements
<1>1. ASSUME VecIInv, NEW v \in Vars, NEW w \in Vars, NEW f \in FlagSets, Share(v, w, f)
      PROVE  DataOf(object[v])' = DataOf(object[w])
  <2>1. PICK d \in Vectors : d = DataOf(object[w]) /\ CreateView(v, f, d) /\ f \in Flags
    BY <1>1, ShareIsExact
  <2>2. PICK b \in Blocks : /\ Bind(v, View(b, f))
                            /\ CreateBlock(Home[v], b, d)
                            /\ UNCHANGED mail
    BY <2>1 DEF CreateView
  <2>3. View(b, f) \in Objects /\ View(b, f).kind = "view" /\ View(b, f).block = b
    BY <2>1, ObjectForms DEF View
  <2>4. object'[v] = View(b, f)
    BY <1>1, <2>2, <2>3, BindKeeps, VecIInvParts
  <2>5. mem'[b] = d
    BY <1>1, <2>1, <2>2, CreateKeeps, VecIInvParts, VectorAssumption
  <2> QED BY <2>1, <2>3, <2>4, <2>5 DEF DataOf
<1>2. VecIInv /\ [VecNext]_vecVars =>
        [\A v, w \in Vars, f \in FlagSets :
           Share(v, w, f) => DataOf(object[v])' = DataOf(object[w])]_vecVars
  BY <1>1
<1> QED BY <1>2, VecInductiveInvariant, PTL DEF VecSpec, ShareKeepsElements

----------------------------------------------------------------------------
(***************************************************************************)
(* SharedVector implements ValueStore: whatever is aliased, shared,        *)
(* duplicated, cut, sent, read late, collected or written, a variable with *)
(* copy on write changes only when it is assigned, and the variables       *)
(* without it that are bound to one block change together.  The refinement *)
(* mapping is that of SharedVector (Promise there).                        *)
(***************************************************************************)

(* The value of an object under given contents of the blocks.              *)
Val(x, m) ==
  IF x = Nothing THEN Nothing
  ELSE IF IsView(x) /\ ~x.flags.cow THEN <<"common", x.block>>
  ELSE <<"own", IF x.kind = "view" THEN m[x.block] ELSE x.data>>

(* Both ends of a step satisfy the invariants.                             *)
Sound == VecIInv /\ VecIInv' /\ CowDecidedByBlock /\ CowDecidedByBlock'

----------------------------------------------------------------------------
(* What the refinement mapping shows *)

(* The values of the variables, of the message, and of the groups.         *)
LEMMA ValuesAre ==
  /\ Values = [v \in Vars |-> Val(object[v], mem)]
  /\ Values' = [v \in Vars |-> Val(object'[v], mem')]
  /\ ValueOf(mail) = Val(mail, mem)
  /\ ValueOf(mail)' = Val(mail', mem')
BY DEF Values, ValueOf, Val, DataOf, IsView

(* An object's value is common exactly for views without copy on write,    *)
(* and depends on the contents of its block exactly for views with it.     *)
LEMMA ValForms ==
  ASSUME NEW x \in Objects \cup {Nothing}
  PROVE  /\ \A m : (IsView(x) => m[x.block] \in Vectors) => (Val(x, m) = Nothing <=> x = Nothing)
         /\ \A m : \A b \in Blocks :
              Val(x, m) = <<"common", b>> <=> IsViewOf(x, b) /\ ~x.flags.cow
         /\ \A m, n : (IsView(x) /\ x.flags.cow => m[x.block] = n[x.block])
                      => Val(x, m) = Val(x, n)
         /\ IsView(x) /\ x.flags.cow => \A m : Val(x, m) = <<"own", m[x.block]>>
         /\ x # Nothing /\ ~IsView(x) => \A m : Val(x, m) = <<"own", x.data>>
<1>1. CASE x = Nothing
  <2>1. \A b \in Blocks : Nothing # <<"common", b>>
    BY VectorAssumption
  <2> QED BY <1>1, <2>1 DEF Val, IsView, IsViewOf
<1>2. CASE x # Nothing /\ IsView(x) /\ ~x.flags.cow
  <2>1. x.block \in Blocks /\ Nothing # <<"common", x.block>>
    BY <1>2, ObjectForms, VectorAssumption
  <2> QED BY <1>2, <2>1 DEF Val, IsView, IsViewOf
<1>3. CASE x # Nothing /\ IsView(x) /\ x.flags.cow
  <2>1. \A m : m[x.block] \in Vectors => Nothing # <<"own", m[x.block]>>
    BY VectorAssumption
  <2>2. \A m : Val(x, m) = <<"own", m[x.block]>>
    BY <1>3 DEF Val, IsView
  <2> QED BY <1>3, <2>1, <2>2 DEF IsViewOf
<1>4. CASE x # Nothing /\ ~IsView(x)
  <2>1. x.data \in Vectors /\ Nothing # <<"own", x.data>>
    BY <1>4, ObjectForms, VectorAssumption
  <2>2. \A m : Val(x, m) = <<"own", x.data>>
    BY <1>4 DEF Val, IsView
  <2> QED BY <1>4, <2>1, <2>2 DEF IsViewOf
<1> QED BY <1>1, <1>2, <1>3, <1>4

(* A group is a block that somebody has, or that is in transit, without    *)
(* copy on write.                                                          *)
LEMMA GroupsAre ==
  ASSUME Sound, NEW g \in Blocks
  PROVE  /\ GroupOf(g) <=> \E x \in Held : IsViewOf(x, g) /\ ~x.flags.cow
         /\ GroupOf(g)' <=> \E x \in Held' : IsViewOf(x, g) /\ ~x.flags.cow
         /\ GroupOf(g) <=> \/ Val(mail, mem) = <<"common", g>>
                          \/ \E v \in Vars : Val(object[v], mem) = <<"common", g>>
         /\ GroupOf(g)' <=> \/ Val(mail', mem') = <<"common", g>>
                           \/ \E v \in Vars : Val(object'[v], mem') = <<"common", g>>
<1>1. /\ GroupOf(g) <=> \/ Val(mail, mem) = <<"common", g>>
                       \/ \E v \in Vars : Val(object[v], mem) = <<"common", g>>
      /\ GroupOf(g)' <=> \/ Val(mail', mem') = <<"common", g>>
                        \/ \E v \in Vars : Val(object'[v], mem') = <<"common", g>>
  BY ValuesAre DEF GroupOf
<1>2. /\ mail \in Objects \cup {Nothing} /\ \A v \in Vars : object[v] \in Objects \cup {Nothing}
      /\ mail' \in Objects \cup {Nothing} /\ \A v \in Vars : object'[v] \in Objects \cup {Nothing}
  BY DEF Sound, VecIInv, VecTypeOK
<1>3. /\ \A v \in Vars : Val(object[v], mem) = <<"common", g>>
                      <=> IsViewOf(object[v], g) /\ ~object[v].flags.cow
      /\ \A v \in Vars : Val(object'[v], mem') = <<"common", g>>
                      <=> IsViewOf(object'[v], g) /\ ~object'[v].flags.cow
      /\ Val(mail, mem) = <<"common", g>> <=> IsViewOf(mail, g) /\ ~mail.flags.cow
      /\ Val(mail', mem') = <<"common", g>> <=> IsViewOf(mail', g) /\ ~mail'.flags.cow
  BY <1>2, ValForms
<1> QED BY <1>1, <1>3 DEF Held

(* What ValueStore says of a step, in terms of SharedVector.               *)
LEMMA PromiseMeans ==
  ASSUME Sound, NEW v \in Vars
  PROVE  /\ Promise!Only(v) <=> \A u \in Vars : u # v => Val(object'[u], mem') = Val(object[u], mem)
         /\ \A x : Promise!Set(v, x) <=> Val(object'[v], mem') = x
         /\ \A g \in Blocks : Promise!Inhabited(g) <=> GroupOf(g)
         /\ \A g \in Blocks : Promise!Inhabited(g)' <=> GroupOf(g)'
<1>1. Promise!Only(v) <=> \A u \in Vars : u # v => Val(object'[u], mem') = Val(object[u], mem)
  BY ValuesAre DEF Promise!Only
<1>2. \A x : Promise!Set(v, x) <=> Val(object'[v], mem') = x
  BY ValuesAre DEF Promise!Set
<1>3. /\ \A g \in Blocks : Promise!Inhabited(g) <=> GroupOf(g)
      /\ \A g \in Blocks : Promise!Inhabited(g)' <=> GroupOf(g)'
  BY DEF Promise!Inhabited, Promise!Members, Promise!Common, GroupOf
<1> QED BY <1>1, <1>2, <1>3

(* The contents of groups in the refinement mapping. *)
GroupContents == [b \in Blocks |-> IF GroupOf(b) THEN mem[b] ELSE Nothing]

(* The contents of groups, while none is written.                          *)
GroupsStay == \A g \in Blocks : GroupOf(g)' => GroupOf(g) /\ mem'[g] = mem[g]

(* While one is written. *)
GroupGets(b, d) ==
  /\ \A g \in Blocks : g # b /\ GroupOf(g)' => GroupOf(g) /\ mem'[g] = mem[g]
  /\ mem'[b] = d

(* The groups keep their contents.                                         *)
LEMMA GroupsHoldMeans ==
  ASSUME Sound, GroupsStay
  PROVE  Promise!GroupsHold(GroupContents)
<1>1. \A g \in Blocks : Promise!Inhabited(g)' <=> GroupOf(g)'
  BY DEF Promise!Inhabited, Promise!Members, Promise!Common, GroupOf
<1> QED BY <1>1 DEF Promise!GroupsHold, GroupContents, GroupsStay

(* One group gets new contents.                                            *)
LEMMA GroupGetsMeans ==
  ASSUME Sound, NEW b \in Blocks, NEW d, GroupGets(b, d)
  PROVE  Promise!GroupsHold([GroupContents EXCEPT ![b] = d])
<1>1. \A g \in Blocks : Promise!Inhabited(g)' <=> GroupOf(g)'
  BY DEF Promise!Inhabited, Promise!Members, Promise!Common, GroupOf
<1> QED BY <1>1 DEF Promise!GroupsHold, GroupContents, GroupGets

(* What a value contains is what the object leads to.                      *)
LEMMA ContentsAre ==
  ASSUME Sound, NEW x \in Held, x # Nothing
  PROVE  /\ x \in Objects
         /\ IsView(x) => x.block \in Blocks /\ mem[x.block] \in Vectors
         /\ DataOf(x) \in Vectors
         /\ Val(x, mem) # Nothing
         /\ Promise!Contents(Val(x, mem)) = DataOf(x)
<1>1. x \in Objects
  BY DEF Held, Sound, VecIInv, VecTypeOK
<1>2. ASSUME IsView(x)
      PROVE  x.block \in Blocks /\ mem[x.block] \in Vectors
  <2>1. x.block \in Blocks
    BY <1>1, <1>2, ObjectForms
  <2>2. CASE x = mail
    <3>1. x.block \in Mailed
      BY <1>2, <2>1, <2>2 DEF Mailed, IsViewOf
    <3> QED BY <2>1, <3>1 DEF Sound, VecIInv, VecTypeOK
  <2>3. CASE \E v \in Vars : x = object[v]
    BY <1>2, <2>1, <2>3, DataTyped DEF Sound, Bound, DataOf, IsView
  <2> QED BY <2>2, <2>3 DEF Held
<1>3. DataOf(x) \in Vectors
  BY <1>1, <1>2, ObjectForms DEF DataOf, IsView
<1>4. Val(x, mem) # Nothing
  BY <1>1, <1>2, ValForms
<1>5. Promise!Contents(Val(x, mem)) = DataOf(x)
  <2>1. CASE IsView(x) /\ ~x.flags.cow
    <3>1. PICK b \in Blocks : b = x.block
      BY <1>2, <2>1
    <3>2. Val(x, mem) = <<"common", b>>
      BY <2>1, <3>1 DEF Val
    <3>3. GroupOf(b)
      BY <2>1, <3>1, GroupsAre DEF IsViewOf
    <3>4. Promise!Contents(<<"common", b>>) = mem[b]
      BY <3>3 DEF Promise!Contents
    <3> QED BY <2>1, <3>1, <3>2, <3>4 DEF DataOf, IsView
  <2>2. CASE IsView(x) /\ x.flags.cow
    BY <1>1, <2>2, ValForms DEF Promise!Contents, DataOf, IsView
  <2>3. CASE ~IsView(x)
    BY <1>1, <2>3, ValForms DEF Promise!Contents, DataOf, IsView
  <2> QED BY <2>1, <2>2, <2>3
<1> QED BY <1>1, <1>2, <1>3, <1>4, <1>5

----------------------------------------------------------------------------
(* The steps of the promise *)

(* Nothing that is not v's changes its value: neither another variable nor *)
(* the message.                                                            *)
OnlyOf(v) ==
  /\ \A u \in Vars : u # v => Val(object'[u], mem') = Val(object[u], mem)
  /\ Val(mail', mem') = Val(mail, mem)

(* v becomes a value of its own.                                           *)
LEMMA OwnStep ==
  ASSUME Sound, NEW v \in Vars, NEW d, OnlyOf(v), GroupsStay,
         Val(object'[v], mem') = <<"own", d>>
  PROVE  /\ Promise!Only(v) /\ Promise!Fresh(v, d)
         /\ Promise!Set(v, <<"own", d>>)
         /\ Promise!GroupsHold(GroupContents)
         /\ ValueOf(mail)' = ValueOf(mail)
<1>1. Promise!Only(v) /\ Promise!Set(v, <<"own", d>>)
  BY PromiseMeans DEF OnlyOf
<1>2. Promise!GroupsHold(GroupContents)
  BY GroupsHoldMeans
<1>3. ValueOf(mail)' = ValueOf(mail)
  BY ValuesAre DEF OnlyOf
<1>4. Promise!Fresh(v, d)
  BY <1>1, <1>2, <1>3 DEF Promise!Fresh, Promise!Own, GroupContents
<1> QED BY <1>1, <1>2, <1>3, <1>4

(* v becomes the first of a new group.                                     *)
LEMMA GroupStep ==
  ASSUME Sound, NEW v \in Vars, NEW d, NEW b \in Blocks, OnlyOf(v), GroupGets(b, d), ~GroupOf(b),
         Val(object'[v], mem') = <<"common", b>>
  PROVE  Promise!Only(v) /\ Promise!Fresh(v, d)
<1>1. Promise!Only(v) /\ Promise!Set(v, <<"common", b>>) /\ ~Promise!Inhabited(b)
  BY PromiseMeans DEF OnlyOf
<1>2. Promise!GroupsHold([GroupContents EXCEPT ![b] = d])
  BY GroupGetsMeans
<1>3. ValueOf(mail)' = ValueOf(mail)
  BY ValuesAre DEF OnlyOf
<1>4. Promise!Fresh(v, d)
  <2>1. \E g \in Blocks :
          /\ Promise!Set(v, <<"common", g>>)
          /\ ~Promise!Inhabited(g)
          /\ Promise!GroupsHold([[c \in Blocks |-> IF GroupOf(c) THEN mem[c] ELSE Nothing]
                                   EXCEPT ![g] = d])
    BY <1>1, <1>2 DEF Promise!Set, Promise!GroupsHold, GroupContents
  <2> QED BY <1>3, <2>1 DEF Promise!Fresh, Promise!Common, Promise!Set, Promise!GroupsHold
<1> QED BY <1>1, <1>4

(* v is bound to something that is there already, or to nothing.           *)
LEMMA BoundStep ==
  ASSUME Sound, NEW v \in Vars, NEW x \in Held \cup {Nothing}, object'[v] = x,
         \A u \in Vars : u # v => object'[u] = object[u], UNCHANGED <<mem, mail>>
  PROVE  /\ Promise!Only(v)
         /\ Promise!Set(v, Val(x, mem))
         /\ Promise!GroupsHold(GroupContents)
         /\ ValueOf(mail)' = ValueOf(mail)
<1>1. Promise!Only(v) /\ Promise!Set(v, Val(x, mem)) /\ ValueOf(mail)' = ValueOf(mail)
  BY PromiseMeans, ValuesAre
<1>2. \A y \in Held' : y \in Held \/ y = Nothing
  BY DEF Held
<1>3. GroupsStay
  BY <1>2, GroupsAre DEF GroupsStay, IsViewOf, IsView
<1> QED BY <1>1, <1>3, GroupsHoldMeans

(* A step that the users do not notice.                                    *)
LEMMA StutterStep ==
  ASSUME Sound,
         \A u \in Vars : Val(object'[u], mem') = Val(object[u], mem),
         Val(mail', mem') = Val(mail, mem),
         \A g \in Blocks : GroupOf(g) => mem'[g] = mem[g]
  PROVE  UNCHANGED Promise!store
<1>1. Values' = Values /\ ValueOf(mail)' = ValueOf(mail)
  BY ValuesAre
<1>2. \A g \in Blocks : GroupOf(g)' <=> GroupOf(g)
  BY GroupsAre
<1>3. GroupContents' = GroupContents
  BY <1>2 DEF GroupContents
<1> QED BY <1>1, <1>3 DEF Promise!store, GroupContents

----------------------------------------------------------------------------
(* The constructors *)

(* A plain vector.                                                         *)
LEMMA PlainValue ==
  ASSUME Sound, NEW v \in Vars, NEW d \in Vectors, CreatePlain(v, d)
  PROVE  OnlyOf(v) /\ GroupsStay /\ Val(object'[v], mem') = <<"own", d>>
<1>1. Bind(v, Plain(d)) /\ mail' = mail /\ mem' = mem /\ BindingsOK
  BY VecIInvParts DEF CreatePlain, blockVars, Sound
<1>2. Plain(d) \in Objects /\ ~IsView(Plain(d)) /\ Plain(d).data = d /\ Plain(d) # Nothing
  BY ObjectForms DEF Plain
<1>3. object'[v] = Plain(d) /\ \A u \in Vars : u # v => object'[u] = object[u]
  BY <1>1, <1>2, BindKeeps
<1>4. OnlyOf(v)
  BY <1>1, <1>3 DEF OnlyOf
<1>5. \A y \in Held' : y \in Held \/ y = Plain(d)
  BY <1>1, <1>3 DEF Held
<1>6. GroupsStay
  BY <1>1, <1>2, <1>5, GroupsAre DEF GroupsStay, IsViewOf
<1> QED BY <1>2, <1>3, <1>4, <1>6, ValForms

(* A view of a new block.                                                  *)
LEMMA ViewValue ==
  ASSUME Sound, NEW v \in Vars, NEW f \in Flags, NEW d \in Vectors, CreateView(v, f, d)
  PROVE  /\ OnlyOf(v)
         /\ f.cow => GroupsStay /\ Val(object'[v], mem') = <<"own", d>>
         /\ ~f.cow => \E b \in Blocks : /\ ~GroupOf(b) /\ GroupGets(b, d)
                                       /\ Val(object'[v], mem') = <<"common", b>>
<1>1. PICK b \in Blocks \ Mailed : /\ ~Alive(b) /\ mail' = mail
                                   /\ Bind(v, View(b, f))
                                   /\ CreateBlock(Home[v], b, d)
  BY DEF CreateView
<1>2. /\ View(b, f) \in Objects /\ View(b, f) # Nothing /\ IsView(View(b, f))
      /\ View(b, f).block = b /\ View(b, f).flags = f
  BY ObjectForms
<1>3. BindingsOK /\ MemoryOK /\ Home[v] \in Sessions
  BY VecIInvParts, VectorAssumption DEF Sound
<1>4. object'[v] = View(b, f) /\ \A u \in Vars : u # v => object'[u] = object[u]
  BY <1>1, <1>2, <1>3, BindKeeps
<1>5. mem'[b] = d /\ \A c \in Blocks : c # b => mem'[c] = mem[c]
  BY <1>1, <1>3, CreateKeeps
<1>6. \A y \in Held : ~IsViewOf(y, b)
  BY <1>1, DeadUnviewed DEF Sound
<1>7. \A y \in Held : y # Nothing /\ IsView(y) => mem'[y.block] = mem[y.block]
  BY <1>5, <1>6, ContentsAre DEF IsViewOf
<1>8. \A y \in Held : Val(y, mem') = Val(y, mem)
  <2>1. \A y \in Held : y \in Objects \cup {Nothing}
    BY ContentsAre
  <2> QED BY <1>7, <2>1, ValForms DEF IsView
<1>9. OnlyOf(v)
  BY <1>1, <1>4, <1>8 DEF OnlyOf, Held
<1>10. \A y \in Held' : y \in Held \/ y = View(b, f)
  BY <1>1, <1>4 DEF Held
<1>11. ~GroupOf(b)
  BY <1>6, GroupsAre
<1>12. \A g \in Blocks : g # b /\ GroupOf(g)' => GroupOf(g) /\ mem'[g] = mem[g]
  BY <1>2, <1>5, <1>10, GroupsAre DEF IsViewOf
<1>13. CASE f.cow
  <2>1. ~GroupOf(b)'
    BY <1>2, <1>6, <1>10, <1>13, GroupsAre
  <2>2. GroupsStay
    BY <1>12, <2>1 DEF GroupsStay
  <2> QED BY <1>2, <1>4, <1>5, <1>9, <1>13, <2>2, ValForms
<1>14. CASE ~f.cow
  BY <1>2, <1>4, <1>5, <1>9, <1>11, <1>12, <1>14, ValForms DEF GroupGets, IsViewOf
<1> QED BY <1>13, <1>14

(* Either is a fresh value.                                                *)
LEMMA MadeFresh ==
  ASSUME Sound, NEW v \in Vars, NEW f \in Flags, NEW d \in Vectors,
         CreatePlain(v, d) \/ CreateView(v, f, d)
  PROVE  Promise!Only(v) /\ Promise!Fresh(v, d)
<1>1. CASE CreatePlain(v, d)
  BY <1>1, PlainValue, OwnStep
<1>2. CASE CreateView(v, f, d)
  BY <1>2, ViewValue, OwnStep, GroupStep
<1> QED BY <1>1, <1>2

----------------------------------------------------------------------------
(* Writes *)

(* An element of a value that is v's own.                                  *)
LEMMA OwnWrite ==
  ASSUME Sound, NEW v \in Vars, NEW i \in Indices, NEW e \in Elements, NEW d,
         Bound(v), i \in DOMAIN DataOf(object[v]), IsView(object[v]) => object[v].flags.cow,
         d = [DataOf(object[v]) EXCEPT ![i] = e],
         OnlyOf(v), GroupsStay, Val(object'[v], mem') = <<"own", d>>
  PROVE  Promise!Only(v) /\ Promise!WriteElement(v, i, e)
<1>1. /\ Promise!Only(v)
      /\ Promise!Set(v, <<"own", d>>)
      /\ Promise!GroupsHold(GroupContents)
      /\ ValueOf(mail)' = ValueOf(mail)
  BY OwnStep
<1>2. object[v] \in Held /\ object[v] # Nothing
  BY DEF Held, Bound
<1>3. /\ Val(object[v], mem) # Nothing
      /\ Promise!Contents(Val(object[v], mem)) = DataOf(object[v])
      /\ object[v] \in Objects
  BY <1>2, ContentsAre
<1>4. Values[v] = Val(object[v], mem) /\ Val(object[v], mem)[1] = "own"
  BY <1>2, <1>3, ValuesAre, ValForms
<1> QED BY <1>1, <1>3, <1>4 DEF Promise!WriteElement, Promise!Own, GroupContents

(* An element of a group.                                                  *)
LEMMA GroupWrite ==
  ASSUME Sound, NEW v \in Vars, NEW i \in Indices, NEW e \in Elements, NEW d, NEW b \in Blocks,
         IsViewOf(object[v], b), ~object[v].flags.cow, i \in DOMAIN DataOf(object[v]),
         d = [DataOf(object[v]) EXCEPT ![i] = e],
         OnlyOf(v), GroupGets(b, d), object'[v] = object[v]
  PROVE  Promise!Only(v) /\ Promise!WriteElement(v, i, e)
<1>1. object[v] \in Held /\ object[v] # Nothing
  BY DEF Held, IsViewOf, IsView
<1>2. /\ Val(object[v], mem) # Nothing
      /\ Promise!Contents(Val(object[v], mem)) = DataOf(object[v])
      /\ object[v] \in Objects
  BY <1>1, ContentsAre
<1>3. Val(object[v], mem) = <<"common", b>> /\ Val(object'[v], mem') = <<"common", b>>
  BY <1>2, ValForms
<1>4. Values[v] = <<"common", b>> /\ Promise!Contents(<<"common", b>>) = DataOf(object[v])
      /\ Nothing # <<"common", b>>
  BY <1>2, <1>3, ValuesAre
<1>5. Promise!Only(v) /\ Promise!Set(v, <<"common", b>>)
  BY <1>3, PromiseMeans DEF OnlyOf
<1>6. Promise!GroupsHold([GroupContents EXCEPT ![b] = d])
  BY GroupGetsMeans
<1>7. ValueOf(mail)' = ValueOf(mail)
  BY ValuesAre DEF OnlyOf
<1>8. Promise!WriteElement(v, i, e)
  <2>1. <<"common", b>>[1] # "own" /\ <<"common", b>>[2] = b
    OBVIOUS
  <2> QED BY <1>4, <1>5, <1>6, <1>7, <2>1
        DEF Promise!WriteElement, Promise!GroupsHold, GroupContents
<1> QED BY <1>5, <1>8

(* A write to a block, by somebody who is alone with it or has agreed with *)
(* all others to see each other's writes.                                  *)
LEMMA BlockWrite ==
  ASSUME Sound, NEW v \in Vars, NEW i \in Indices, NEW e \in Elements,
         NEW d \in Vectors, NEW b \in Blocks,
         IsViewOf(object[v], b), i \in DOMAIN DataOf(object[v]),
         d = [DataOf(object[v]) EXCEPT ![i] = e],
         WriteBlock(b, d), UNCHANGED mail,
         object'[v] = object[v], \A u \in Vars : u # v => object'[u] = object[u],
         object[v].flags.cow => Viewers(b) = {v} /\ b \notin Mailed
  PROVE  Promise!Only(v) /\ Promise!WriteElement(v, i, e)
<1>1. mem'[b] = d /\ \A c \in Blocks : c # b => mem'[c] = mem[c]
  BY DEF WriteBlock, Sound, VecIInv, VecTypeOK
<1>2. Held' = Held
  BY DEF Held
<1>3. \A x \in Held : x \in Objects \cup {Nothing}
  BY ContentsAre
<1>4. object[v] \in Held /\ object[v] \in Objects /\ Bound(v)
  BY <1>3 DEF Held, Bound, IsViewOf, IsView
<1>5. CASE object[v].flags.cow
  <2>1. \A u \in Vars : u # v => ~IsViewOf(object[u], b)
    BY <1>5 DEF Viewers
  <2>2. ~IsViewOf(mail, b)
    BY <1>5 DEF Mailed
  <2>3. \A x \in Held : ~IsViewOf(x, b) => Val(x, mem') = Val(x, mem)
    <3>1. \A x \in Held : ~IsViewOf(x, b) /\ IsView(x) => mem'[x.block] = mem[x.block]
      BY <1>1, ContentsAre DEF IsViewOf, IsView
    <3> QED BY <1>3, <3>1, ValForms
  <2>4. OnlyOf(v)
    BY <2>1, <2>2, <2>3 DEF OnlyOf, Held
  <2>5. ~GroupOf(b)'
    BY <1>2, <1>5, <2>1, <2>2, GroupsAre DEF Held
  <2>6. GroupsStay
    BY <1>1, <1>2, <2>5, GroupsAre DEF GroupsStay
  <2>7. Val(object'[v], mem') = <<"own", d>>
    BY <1>1, <1>4, <1>5, ValForms DEF IsViewOf
  <2> QED BY <1>4, <1>5, <2>4, <2>6, <2>7, OwnWrite
<1>6. CASE ~object[v].flags.cow
  <2>1. \A x \in Held : IsViewOf(x, b) => x.flags.cow = object[v].flags.cow
    BY <1>4 DEF Sound, CowDecidedByBlock, Held
  <2>2. \A x \in Held : Val(x, mem') = Val(x, mem)
    <3>1. \A x \in Held : IsView(x) /\ x.flags.cow => mem'[x.block] = mem[x.block]
      <4> SUFFICES ASSUME NEW x \in Held, IsView(x), x.flags.cow
                   PROVE  mem'[x.block] = mem[x.block]
        OBVIOUS
      <4>1. x.block # b
        BY <1>6, <2>1 DEF IsViewOf
      <4>2. x.block \in Blocks
        BY ContentsAre DEF IsView
      <4> QED BY <1>1, <4>1, <4>2
    <3> QED BY <1>3, <3>1, ValForms
  <2>3. OnlyOf(v)
    BY <2>2 DEF OnlyOf, Held
  <2>4. GroupGets(b, d)
    BY <1>1, <1>2, GroupsAre DEF GroupGets
  <2> QED BY <1>6, <2>3, <2>4, GroupWrite
<1> QED BY <1>5, <1>6

(* In place.                                                               *)
LEMMA InPlaceWrites ==
  ASSUME Sound, NEW v \in Vars, NEW i \in Indices, NEW e \in Elements, WriteInPlace(v, i, e)
  PROVE  Promise!Only(v) /\ Promise!WriteElement(v, i, e)
<1>1. Bound(v) /\ MayWriteInPlace(v) /\ i \in DOMAIN DataOf(object[v]) /\ mail' = mail
  BY DEF WriteInPlace
<1>2. DataOf(object[v]) \in Vectors /\ object[v] \in Objects /\ BindingsOK
  BY <1>1, DataTyped, VecIInvParts DEF Sound
<1>3. PICK d \in Vectors : d = [DataOf(object[v]) EXCEPT ![i] = e]
  BY <1>1, <1>2, ChangedTyped
<1>4. CASE IsView(object[v])
  <2>1. WriteBlock(object[v].block, d) /\ object' = object
    BY <1>3, <1>4 DEF WriteInPlace
  <2>2. PICK b \in Blocks : b = object[v].block
    BY <1>2, <1>4, ObjectForms
  <2>3. object[v].flags.cow => Viewers(b) = {v} /\ b \notin Mailed
    BY <1>1, <1>4, <2>2 DEF MayWriteInPlace
  <2> QED BY <1>1, <1>3, <1>4, <2>1, <2>2, <2>3, BlockWrite DEF IsViewOf
<1>5. CASE ~IsView(object[v])
  <2>1. object[v] = Plain(object[v].data) /\ DataOf(object[v]) = object[v].data
    BY <1>1, <1>2, <1>5, ObjectForms DEF DataOf, IsView, Bound
  <2>2. [object[v] EXCEPT !.data[i] = e] = Plain(d)
    BY <1>3, <2>1 DEF Plain
  <2>3. Modify(v, Plain(d)) /\ mem' = mem /\ same[v] = {v}
    BY <1>1, <1>5, <2>2 DEF WriteInPlace, blockVars, MayWriteInPlace
  <2>4. object'[v] = Plain(d) /\ \A u \in Vars : u # v => object'[u] = object[u]
    BY <1>2, <2>3 DEF Modify
  <2>5. OnlyOf(v)
    BY <1>1, <2>3, <2>4 DEF OnlyOf
  <2>6. Plain(d) \in Objects /\ ~IsView(Plain(d)) /\ Plain(d).data = d /\ Plain(d) # Nothing
    BY ObjectForms DEF Plain
  <2>7. \A y \in Held' : y \in Held \/ y = Plain(d)
    BY <1>1, <2>4 DEF Held
  <2>8. GroupsStay
    BY <2>3, <2>6, <2>7, GroupsAre DEF GroupsStay, IsViewOf
  <2>9. Val(object'[v], mem') = <<"own", d>>
    BY <2>4, <2>6, ValForms
  <2> QED BY <1>1, <1>3, <1>5, <2>5, <2>8, <2>9, OwnWrite
<1> QED BY <1>4, <1>5

(* Into the duplicate, or into the other view of the block that stands for *)
(* a duplicate.                                                            *)
LEMMA DuplicateWrites ==
  ASSUME Sound, NEW v \in Vars, NEW i \in Indices, NEW e \in Elements,
         WriteAfterDuplicate(v, i, e)
  PROVE  Promise!Only(v) /\ Promise!WriteElement(v, i, e)
<1>1. Bound(v) /\ i \in DOMAIN DataOf(object[v])
  BY DEF WriteAfterDuplicate
<1>2. object[v] \in Objects /\ BindingsOK
  BY <1>1, DataTyped, VecIInvParts DEF Sound
<1>3. PICK d \in Vectors : d = [DataOf(object[v]) EXCEPT ![i] = e]
  BY DuplicateMakes DEF Sound
<1>4. CASE (IsView(object[v]) => object[v].flags.cow) /\ CreatePlain(v, d)
  BY <1>1, <1>3, <1>4, PlainValue, OwnWrite
<1>5. CASE IsView(object[v]) /\ object[v].flags.cow /\ object[v].flags \in Flags
           /\ CreateView(v, object[v].flags, d)
  <2>1. PICK f \in Flags : f = object[v].flags
    BY <1>5
  <2>2. OnlyOf(v) /\ GroupsStay /\ Val(object'[v], mem') = <<"own", d>>
    BY <1>5, <2>1, ViewValue
  <2> QED BY <1>1, <1>3, <1>5, <2>2, OwnWrite
<1>6. CASE IsView(object[v]) /\ ~object[v].flags.cow
           /\ Bind(v, object[v]) /\ WriteBlock(object[v].block, d) /\ UNCHANGED mail
  <2>1. object'[v] = object[v] /\ \A u \in Vars : u # v => object'[u] = object[u]
    BY <1>2, <1>6 DEF Bind, BindingsOK
  <2>2. PICK b \in Blocks : b = object[v].block
    BY <1>2, <1>6, ObjectForms
  <2> QED BY <1>1, <1>3, <1>6, <2>1, <2>2, BlockWrite DEF IsViewOf
<1> QED BY <1>3, <1>4, <1>5, <1>6, DuplicateMakes DEF Sound

----------------------------------------------------------------------------
(* Assignments *)

(* y <- x, share and unshare                                               *)
LEMMA AssignSteps ==
  ASSUME Sound, DataType = "integer", NEW v \in Vars, NEW w \in Vars,
         Alias(v, w) \/ Unshare(v, w) \/ \E f \in FlagSets : Share(v, w, f)
  PROVE  Promise!Only(v) /\ Promise!Assign(v, w)
<1>1. Bound(w) /\ object[w] \in Held /\ object[w] # Nothing
  BY DEF Alias, Unshare, Share, IsView, Bound, Held
<1>2. /\ Values[w] = Val(object[w], mem) /\ Val(object[w], mem) # Nothing
      /\ Promise!Contents(Val(object[w], mem)) = DataOf(object[w])
  BY <1>1, ContentsAre, ValuesAre
<1>3. PICK d \in Vectors : d = DataOf(object[w])
  BY <1>1, DataTyped DEF Sound
<1>4. CASE Alias(v, w)
  <2>1. /\ object'[v] = object[w] /\ (\A u \in Vars : u # v => object'[u] = object[u])
        /\ UNCHANGED <<mem, mail>>
    BY <1>4, AliasKeeps, VecIInvParts DEF Alias, blockVars, Sound
  <2>2. PICK x \in Held : x = object[w]
    BY <1>1
  <2>3. /\ Promise!Only(v)
        /\ Promise!Set(v, Val(x, mem))
        /\ Promise!GroupsHold(GroupContents)
        /\ ValueOf(mail)' = ValueOf(mail)
    BY <2>1, <2>2, BoundStep
  <2>4. Promise!Set(v, Values[w])
    BY <1>2, <2>2, <2>3 DEF Promise!Set
  <2> QED BY <1>2, <2>3, <2>4 DEF Promise!Assign, GroupContents
<1>5. CASE Unshare(v, w)
  <2>1. CreatePlain(v, d)
    BY <1>3, <1>5 DEF Unshare
  <2>2. Promise!Only(v) /\ Promise!Fresh(v, d)
    BY <2>1, PlainValue, OwnStep
  <2>3. d = Promise!Contents(Values[w])
    BY <1>2, <1>3
  <2>4. Promise!Fresh(v, Promise!Contents(Values[w]))
    BY <2>2, <2>3 DEF Promise!Fresh, Promise!GroupsHold
  <2> QED BY <1>2, <2>2, <2>4 DEF Promise!Assign
<1>6. CASE \E f \in FlagSets : Share(v, w, f)
  <2>1. PICK f \in Flags : CreateView(v, f, d)
    BY <1>3, <1>6, ShareIsExact DEF Sound
  <2>2. Promise!Only(v) /\ Promise!Fresh(v, d)
    BY <2>1, MadeFresh
  <2>3. d = Promise!Contents(Values[w])
    BY <1>2, <1>3
  <2>4. Promise!Fresh(v, Promise!Contents(Values[w]))
    BY <2>2, <2>3 DEF Promise!Fresh, Promise!GroupsHold
  <2> QED BY <1>2, <2>2, <2>4 DEF Promise!Assign
<1> QED BY <1>4, <1>5, <1>6

(* y <- x[sel]                                                             *)
LEMMA SelectSteps ==
  ASSUME Sound, NEW v \in Vars, NEW w \in Vars, NEW sel \in Selections, Subset(v, w, sel)
  PROVE  Promise!Only(v) /\ Promise!Select(v, w, sel)
<1>1. /\ Bound(w) /\ object[w] \in Held /\ object[w] # Nothing
      /\ \A i \in DOMAIN sel : sel[i] \in DOMAIN DataOf(object[w])
  BY DEF Subset, Bound, Held
<1>2. /\ Values[w] = Val(object[w], mem) /\ Val(object[w], mem) # Nothing
      /\ Promise!Contents(Val(object[w], mem)) = DataOf(object[w])
  BY <1>1, ContentsAre, ValuesAre
<1>3. PICK d \in Vectors : d = Picked(DataOf(object[w]), sel)
  BY SubsetMakes DEF Sound
<1>4. Promise!Only(v) /\ Promise!Fresh(v, d)
  <2>1. CASE CreatePlain(v, d)
    BY <2>1, PlainValue, OwnStep
  <2>2. CASE IsView(object[w]) /\ object[w].flags \in Flags /\ CreateView(v, object[w].flags, d)
    <3>1. PICK f \in Flags : f = object[w].flags
      BY <2>2
    <3> QED BY <2>2, <3>1, MadeFresh
  <2> QED BY <1>3, <2>1, <2>2, SubsetMakes DEF Sound
<1>5. d = Promise!Picked(Promise!Contents(Values[w]), sel)
  BY <1>2, <1>3 DEF Picked, Promise!Picked
<1>6. Promise!Fresh(v, Promise!Picked(Promise!Contents(Values[w]), sel))
  BY <1>4, <1>5 DEF Promise!Fresh, Promise!GroupsHold
<1> QED BY <1>1, <1>2, <1>4, <1>6 DEF Promise!Select

(* A variable is removed, or starts again.                                 *)
LEMMA ResetSteps ==
  ASSUME Sound, NEW v \in Vars, Forget(v) \/ NewVector(v)
  PROVE  Promise!Only(v) /\ Promise!Reset(v)
<1>1. CASE Forget(v)
  <2>1. Bind(v, Nothing) /\ UNCHANGED <<mem, mail>> /\ BindingsOK
    BY <1>1, VecIInvParts DEF Forget, blockVars, Sound
  <2>2. object'[v] = Nothing /\ \A u \in Vars : u # v => object'[u] = object[u]
    BY <2>1, BindKeeps
  <2>3. /\ Promise!Only(v)
        /\ Promise!Set(v, Val(Nothing, mem))
        /\ Promise!GroupsHold(GroupContents)
        /\ ValueOf(mail)' = ValueOf(mail)
    BY <2>1, <2>2, BoundStep
  <2>4. Promise!Set(v, Nothing)
    BY <2>3 DEF Val, Promise!Set
  <2> QED BY <2>3, <2>4 DEF Promise!Reset, GroupContents
<1>2. CASE NewVector(v)
  <2>1. CreatePlain(v, Initial) /\ Initial \in Vectors
    BY <1>2, VectorAssumption DEF NewVector
  <2>2. /\ Promise!Only(v) /\ Promise!Set(v, <<"own", Initial>>)
        /\ Promise!GroupsHold(GroupContents)
        /\ ValueOf(mail)' = ValueOf(mail)
    BY <2>1, PlainValue, OwnStep
  <2> QED BY <2>2 DEF Promise!Reset, Promise!Own, GroupContents
<1> QED BY <1>1, <1>2

----------------------------------------------------------------------------
(* Messages, properties and the collector *)

(* A message is read, or read too late.                                    *)
LEMMA ReceiveSteps ==
  ASSUME Sound, NEW v \in Vars, Receive(v)
  PROVE  Promise!Only(v) /\ Promise!Receive(v)
<1>1. PICK x \in {mail, Nothing} : Bind(v, x) /\ UNCHANGED <<mem, mail>> /\ mail # Nothing
  BY DEF Receive, OpenBlock, blockVars
<1>2. mail \in Held /\ BindingsOK /\ MailOK
  BY VecIInvParts DEF Held, Sound
<1>3. x \in Held \cup {Nothing} /\ x \in Objects \cup {Nothing}
  BY <1>2 DEF MailOK
<1>4. object'[v] = x /\ \A u \in Vars : u # v => object'[u] = object[u]
  BY <1>1, <1>2, <1>3, BindKeeps
<1>5. /\ Promise!Only(v)
      /\ Promise!Set(v, Val(x, mem))
      /\ Promise!GroupsHold(GroupContents)
      /\ ValueOf(mail)' = ValueOf(mail)
  BY <1>1, <1>3, <1>4, BoundStep
<1>6. ValueOf(mail) = Val(mail, mem) /\ Val(mail, mem) # Nothing
  BY <1>1, <1>2, ContentsAre, ValuesAre
<1>7. Promise!Set(v, ValueOf(mail)) \/ Promise!Set(v, Nothing)
  BY <1>5, <1>6 DEF Promise!Set, Val
<1> QED BY <1>5, <1>6, <1>7 DEF Promise!Receive, GroupContents

(* A message is sent.  The contents of the one it replaces may be dropped. *)
LEMMA SendSteps ==
  ASSUME Sound, NEW v \in Vars, Send(v)
  PROVE  Promise!Only(v) /\ Promise!Send(v)
<1>1. /\ Bound(v) /\ mail' = Serialized(object[v])
      /\ object' = object /\ owner' = owner /\ mapped' = mapped
      /\ \A b \in Blocks : mem'[b] = IF b \in Mailed' \/ Alive(b)' THEN mem[b] ELSE Nothing
  BY DEF Send, DropUnreachable
<1>2. \A b \in Blocks : Alive(b) => mem'[b] = mem[b]
  BY <1>1 DEF Alive, Named
<1>3. object[v] \in Held /\ object[v] # Nothing /\ object[v] \in Objects
      /\ DataOf(object[v]) \in Vectors
  BY <1>1, DataTyped DEF Held, Bound, Sound
<1>4. \A u \in Vars : object[u] \in Objects \cup {Nothing}
  BY DEF Sound, VecIInv, VecTypeOK
<1>5. \A u \in Vars : IsView(object[u]) =>
        object[u].block \in Blocks /\ mem'[object[u].block] = mem[object[u].block]
  BY <1>2, DataTyped DEF Sound, Bound, IsView
<1>6. \A u \in Vars : Val(object[u], mem') = Val(object[u], mem)
  BY <1>4, <1>5, ValForms
<1>7. Promise!Only(v) /\ Promise!Set(v, Values[v])
  BY <1>1, <1>6, PromiseMeans, ValuesAre DEF Promise!Set
<1>8. mail' = object[v] \/ mail' = Plain(DataOf(object[v]))
  BY <1>1 DEF Serialized
<1>9. GroupsStay
  <2> SUFFICES ASSUME NEW g \in Blocks, GroupOf(g)'
               PROVE  GroupOf(g) /\ mem'[g] = mem[g]
    BY DEF GroupsStay
  <2>1. PICK x \in Held' : IsViewOf(x, g) /\ ~x.flags.cow
    BY GroupsAre
  <2>2. PICK u \in Vars : x = object[u]
    BY <1>1, <1>3, <1>8, <2>1, ObjectForms DEF Held, IsViewOf
  <2> QED BY <1>5, <2>1, <2>2, GroupsAre DEF Held, IsViewOf
<1>10. Promise!GroupsHold(GroupContents)
  BY <1>9, GroupsHoldMeans
<1>11. /\ Values[v] = Val(object[v], mem) /\ Val(object[v], mem) # Nothing
       /\ Promise!Contents(Values[v]) = DataOf(object[v])
  BY <1>3, ContentsAre, ValuesAre
<1>12. ValueOf(mail)' \in {Values[v], <<"own", DataOf(object[v])>>}
  <2>1. CASE mail' = object[v]
    BY <1>6, <1>11, <2>1, ValuesAre
  <2>2. CASE mail' = Plain(DataOf(object[v]))
    <3>1. PICK d \in Vectors : d = DataOf(object[v])
      BY <1>3
    <3>2. Val(Plain(d), mem') = <<"own", d>>
      <4>1. Plain(d) \in Objects /\ ~IsView(Plain(d)) /\ Plain(d).data = d /\ Plain(d) # Nothing
        BY ObjectForms DEF Plain
      <4> QED BY <4>1, ValForms
    <3> QED BY <2>2, <3>1, <3>2, ValuesAre
  <2> QED BY <1>8, <2>1, <2>2
<1> QED BY <1>7, <1>10, <1>11, <1>12 DEF Promise!Send, Promise!Own, GroupContents

(* Setting sharedSubset or sharedCopy changes no value.                    *)
LEMMA PropertySteps ==
  ASSUME Sound, CowFixed, NEW v \in Vars, NEW p \in Settable, NEW c \in BOOLEAN,
         SetProperty(v, p, c)
  PROVE  UNCHANGED Promise!store
<1>1. mem' = mem /\ mail' = mail
  BY DEF SetProperty, blockVars
<1>2. \A u \in Vars : \/ object'[u] = object[u]
                    \/ /\ IsView(object[u]) /\ IsView(object'[u])
                       /\ object'[u].block = object[u].block
                       /\ object'[u].flags.cow = object[u].flags.cow
  BY PropertyKeepsCow DEF Sound
<1>3. \A u \in Vars : Val(object'[u], mem) = Val(object[u], mem)
  BY <1>2 DEF Val, IsView
<1> QED BY <1>1, <1>3, StutterStep

(* The collector drops nothing that anybody can see.                       *)
LEMMA CollectSteps ==
  ASSUME Sound, NEW s \in Sessions, NEW b \in Blocks, Collect(s, b)
  PROVE  UNCHANGED Promise!store
<1>1. /\ object' = object /\ mail' = mail
      /\ \A c \in Blocks : mem'[c] = IF c \in Mailed \/ Alive(c)' THEN mem[c] ELSE Nothing
  BY DEF Collect, UnmapBlock, DropUnreachable
<1>2. ASSUME NEW x \in Held, IsView(x)
      PROVE  x.block \in Blocks /\ mem'[x.block] = mem[x.block]
  <2>1. x.block \in Blocks
    BY <1>2, ContentsAre DEF IsView
  <2>2. CASE x = mail
    BY <1>1, <1>2, <2>1, <2>2 DEF Mailed, IsViewOf
  <2>3. CASE \E v \in Vars : x = object[v]
    <3>1. PICK v \in Vars : x = object[v]
      BY <2>3
    <3>2. ViewsMapped'
      BY VecIInvParts, PTL DEF Sound
    <3>3. x.block \in mapped'[Home[v]] /\ Home[v] \in Sessions
      BY <1>1, <1>2, <3>1, <3>2, VectorAssumption DEF ViewsMapped
    <3> QED BY <1>1, <2>1, <3>3 DEF Alive
  <2> QED BY <2>2, <2>3 DEF Held
<1>3. \A x \in Held : Val(x, mem') = Val(x, mem)
  <2>1. \A x \in Held : x \in Objects \cup {Nothing}
    BY ContentsAre
  <2> QED BY <1>2, <2>1, ValForms
<1>4. \A g \in Blocks : GroupOf(g) => mem'[g] = mem[g]
  BY <1>2, GroupsAre DEF IsViewOf
<1> QED BY <1>1, <1>3, <1>4, StutterStep DEF Held

----------------------------------------------------------------------------
(* The refinement *)

(* In the beginning every variable has the initial vector of its own.      *)
LEMMA OwnAtFirst == VecInit => Promise!StoreInit
<1> SUFFICES ASSUME VecInit
             PROVE  Promise!StoreInit
  OBVIOUS
<1>1. Plain(Initial) \in Objects /\ ~IsView(Plain(Initial)) /\ Plain(Initial).data = Initial
      /\ Plain(Initial) # Nothing
  BY VectorAssumption, ObjectForms DEF Plain
<1>2. \A v \in Vars : Val(object[v], mem) = <<"own", Initial>>
  BY <1>1, ValForms DEF VecInit
<1>3. Values = [v \in Vars |-> Promise!Own(Initial)]
  BY <1>2, ValuesAre DEF Promise!Own
<1>4. ValueOf(mail) = Nothing
  BY DEF VecInit, ValueOf
<1>5. \A b \in Blocks : ~GroupOf(b)
  <2>1. \A b \in Blocks : Nothing # <<"common", b>> /\ <<"own", Initial>> # <<"common", b>>
    BY VectorAssumption
  <2> QED BY <1>3, <1>4, <2>1 DEF GroupOf, Promise!Own
<1> QED BY <1>3, <1>4, <1>5 DEF Promise!StoreInit

(* One step of a session is at most one step of the store.                 *)
LEMMA StepsKeepValues ==
  ASSUME Sound, CowFixed, DataType = "integer", [VecNext]_vecVars
  PROVE  [Promise!StoreNext]_(Promise!store)
<1>1. CASE UNCHANGED vecVars
  BY <1>1, StutterStep DEF vecVars, blockVars
<1>2. CASE \E s \in Sessions, b \in Blocks : Collect(s, b)
  BY <1>2, CollectSteps
<1>3. CASE \E v \in Vars, p \in Settable, b \in BOOLEAN : SetProperty(v, p, b)
  BY <1>3, PropertySteps
<1>4. ASSUME NEW v \in Vars, NEW w \in Vars, Home[v] = Home[w],
             \/ Alias(v, w)
             \/ Unshare(v, w)
             \/ \E f \in FlagSets : Share(v, w, f)
             \/ \E sel \in Selections : Subset(v, w, sel)
      PROVE  Promise!StoreNext
  <2>1. Promise!Only(v) /\ (Promise!Assign(v, w) \/ \E sel \in Selections : Promise!Select(v, w, sel))
    BY <1>4, AssignSteps, SelectSteps
  <2> QED BY <1>4, <2>1 DEF Promise!StoreNext
<1>5. ASSUME NEW v \in Vars,
             \/ \E i \in Indices, e \in Elements :
                  WriteInPlace(v, i, e) \/ WriteAfterDuplicate(v, i, e)
             \/ Forget(v) \/ NewVector(v) \/ Send(v) \/ Receive(v)
      PROVE  Promise!StoreNext
  <2>1. /\ Promise!Only(v)
        /\ \/ Promise!Reset(v) \/ Promise!Receive(v) \/ Promise!Send(v)
           \/ \E i \in Indices, e \in Elements : Promise!WriteElement(v, i, e)
    BY <1>5, InPlaceWrites, DuplicateWrites, ResetSteps, SendSteps, ReceiveSteps
  <2> QED BY <2>1 DEF Promise!StoreNext
<1>6. CASE VecNext
  BY <1>2, <1>3, <1>4, <1>5, <1>6 DEF VecNext
<1> QED BY <1>1, <1>6

(* Shared vectors of integers behave as values as long as nobody changes   *)
(* copyOnWrite of an existing object: in every behaviour of any number of  *)
(* sessions, a variable with copy on write changes only when it is         *)
(* assigned, and one without follows all writes to its block.              *)
THEOREM SharedVectorsAreValues ==
  ASSUME CowFixed, DataType = "integer"
  PROVE  VecSpec => ValuesAsPromised
<1>1. VecInit => Promise!StoreInit
  BY OwnAtFirst
<1>2. /\ VecIInv /\ VecIInv' /\ CowDecidedByBlock /\ CowDecidedByBlock'
      /\ [VecNext]_vecVars
      => [Promise!StoreNext]_(Promise!store)
  BY StepsKeepValues DEF Sound
<1> QED BY <1>1, <1>2, VecInductiveInvariant, CopiesInheritCow, PTL
    DEF VecSpec, ValuesAsPromised, Promise!StoreSpec

=============================================================================
