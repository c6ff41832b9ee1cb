-------------------------- MODULE ContainersProofs --------------------------
(***************************************************************************)
(* Proofs about Containers, for any objects, however deep and however      *)
(* their environments refer to each other: a binding is never half         *)
(* converted, a call that returns has reached all it promises to, and no   *)
(* error that the code raises itself costs an object its S4 bit.           *)
(***************************************************************************)
EXTENDS Containers, WellFoundedInduction, FiniteSetTheorems, TLAPS

(* What is on the stack.                                                   *)
Frames == [node : Nodes, at : Nat \ {0}, must : BOOLEAN, s4 : BOOLEAN]

----------------------------------------------------------------------------
(* Values                                                                  *)

(* The minimum of a set of numbers.                                        *)
LEMMA SmallestElement ==
  ASSUME NEW S, S \subseteq Nat, S # {}
  PROVE  Min(S) \in S /\ \A y \in S : Min(S) <= y
<1>1. PICK t \in S : \A u \in S : ~(<<u, t>> \in OpToRel(<, Nat))
  BY WFMin, NatLessThanWellFounded
<1>2. \A u \in S : t <= u
  <2>1. \A u \in Nat : t \in Nat /\ u < t => <<u, t>> \in OpToRel(<, Nat)
    BY DEF OpToRel
  <2>2. \A u \in S : ~(u < t)
    BY <1>1, <2>1
  <2>3. t \in Nat /\ \A u \in S : u \in Nat
    OBVIOUS
  <2> QED BY <2>2, <2>3
<1> QED BY <1>1, <1>2 DEF Min

(* Parts of an object.                                                     *)
LEMMA PartTyped ==
  ASSUME NEW n \in Nodes
  PROVE  /\ Len(Parts[n]) \in Nat
         /\ DOMAIN Parts[n] = 1..Len(Parts[n])
         /\ \A i \in DOMAIN Parts[n] : Parts[n][i].node \in Nodes /\ Parts[n][i] \in PartsOf(n)
<1> DEFINE R == [role : {"elt", "attr", "fixed", "slot"}, node : Nodes]
<1>1. Parts[n] \in Seq(R)
  BY ContainerAssumption
<1>2. \A r \in R : r.node \in Nodes
  OBVIOUS
<1> HIDE DEF R
<1>3. Len(Parts[n]) \in Nat /\ DOMAIN Parts[n] = 1..Len(Parts[n])
  BY <1>1
<1>4. \A i \in 1..Len(Parts[n]) : Parts[n][i] \in R
  BY <1>1
<1> QED BY <1>2, <1>3, <1>4 DEF PartsOf

----------------------------------------------------------------------------
(* What is found                                                           *)

Successors == [Nodes -> SUBSET Nodes]

(* A walk of k steps from r to m, that may rest.                           *)
Walk(p, r, next, k, m) ==
  /\ p \in [0..k -> Nodes] /\ p[0] = r /\ p[k] = m
  /\ \A i \in 1..k : p[i] = p[i - 1] \/ p[i] \in next[p[i - 1]]

Walked(r, next, k) == {m \in Nodes : \E p : Walk(p, r, next, k, m)}

(* The last step of a walk.                                                *)
LEMMA WalkExtends ==
  ASSUME NEW r \in Nodes, NEW next \in Successors, NEW k \in Nat \ {0}
  PROVE  Walked(r, next, k)
           = Walked(r, next, k - 1) \cup UNION {next[n] : n \in Walked(r, next, k - 1)}
<1>0. \A n \in Nodes : next[n] \subseteq Nodes
  BY DEF Successors
<1>1. ASSUME NEW m \in Nodes, NEW n \in Walked(r, next, k - 1), m = n \/ m \in next[n]
      PROVE  m \in Walked(r, next, k)
  <2>1. PICK p : Walk(p, r, next, k - 1, n)
    BY DEF Walked
  <2> DEFINE q == [i \in 0..k |-> IF i = k THEN m ELSE p[i]]
  <2>2. p \in [0..(k - 1) -> Nodes] /\ p[0] = r /\ p[k - 1] = n
    BY <2>1 DEF Walk
  <2>3. q \in [0..k -> Nodes] /\ q[0] = r /\ q[k] = m
    BY <2>2
  <2>4. ASSUME NEW i \in 1..k
        PROVE  q[i] = q[i - 1] \/ q[i] \in next[q[i - 1]]
    <3>1. CASE i = k
      <4>1. q[i] = m /\ q[i - 1] = n
        BY <2>2, <3>1
      <4> QED BY <1>1, <4>1
    <3>2. CASE i # k
      <4>1. i \in 1..(k - 1) /\ q[i] = p[i] /\ q[i - 1] = p[i - 1]
        BY <3>2
      <4> QED BY <2>1, <4>1 DEF Walk
    <3> QED BY <3>1, <3>2
  <2> HIDE DEF q
  <2>5. Walk(q, r, next, k, m)
    BY <2>3, <2>4 DEF Walk
  <2> QED BY <2>5 DEF Walked
<1>2. ASSUME NEW m \in Walked(r, next, k)
      PROVE  \E n \in Walked(r, next, k - 1) : m = n \/ m \in next[n]
  <2>1. PICK p : Walk(p, r, next, k, m)
    BY DEF Walked
  <2> DEFINE q == [i \in 0..(k - 1) |-> p[i]]
             n == p[k - 1]
  <2>2. p \in [0..k -> Nodes] /\ p[0] = r /\ p[k] = m /\ k \in 1..k
    BY <2>1 DEF Walk
  <2>3. m = n \/ m \in next[n]
    BY <2>1, <2>2 DEF Walk
  <2>4. q \in [0..(k - 1) -> Nodes] /\ q[0] = r /\ q[k - 1] = n /\ n \in Nodes
    BY <2>2
  <2>5. \A i \in 1..(k - 1) : i \in 1..k /\ q[i] = p[i] /\ q[i - 1] = p[i - 1]
    OBVIOUS
  <2> HIDE DEF q, n
  <2>6. Walk(q, r, next, k - 1, n)
    BY <2>1, <2>4, <2>5 DEF Walk
  <2> QED BY <2>3, <2>4, <2>6 DEF Walked
<1>3. Walked(r, next, k) \subseteq Nodes /\ Walked(r, next, k - 1) \subseteq Nodes
  BY DEF Walked
<1> QED BY <1>0, <1>1, <1>2, <1>3

(* What is found, step by step.                                            *)
LEMMA ReachableSteps ==
  ASSUME NEW r \in Nodes, NEW next \in Successors
  PROVE  /\ Cardinality(Nodes) \in Nat
         /\ \E reach :
              /\ reach[0] = {r} /\ Reachable(r, next) = reach[Cardinality(Nodes)]
              /\ \A k \in 1..Cardinality(Nodes) :
                   reach[k] = reach[k - 1] \cup UNION {next[n] : n \in reach[k - 1]}
<1> DEFINE N == Cardinality(Nodes)
           Rec(f) == [k \in 0..N |-> IF k = 0 THEN {r}
                                     ELSE f[k - 1] \cup UNION {next[n] : n \in f[k - 1]}]
           w == [k \in 0..N |-> Walked(r, next, k)]
<1>1. N \in Nat
  BY ContainerAssumption, FS_CardinalityType
<1>2. w = Rec(w)
  <2>1. Walked(r, next, 0) = {r}
    <3>1. ASSUME NEW m \in Walked(r, next, 0)
          PROVE  m = r
      BY DEF Walked, Walk
    <3>2. Walk([i \in 0..0 |-> r], r, next, 0, r)
      BY DEF Walk
    <3> QED BY <3>1, <3>2 DEF Walked
  <2>2. ASSUME NEW k \in 0..N
        PROVE  w[k] = Rec(w)[k]
    <3>1. CASE k = 0
      BY <2>1, <3>1
    <3>2. CASE k # 0
      <4>1. k \in Nat \ {0} /\ k - 1 \in 0..N
        BY <1>1, <3>2
      <4>2. w[k - 1] = Walked(r, next, k - 1) /\ w[k] = Walked(r, next, k)
        BY <4>1
      <4> QED BY <3>2, <4>1, <4>2, WalkExtends
    <3> QED BY <3>1, <3>2
  <2>3. w = [k \in 0..N |-> w[k]] /\ Rec(w) = [k \in 0..N |-> Rec(w)[k]]
    OBVIOUS
  <2> QED BY <2>2, <2>3
<1> HIDE DEF w
<1> DEFINE g == CHOOSE f : f = Rec(f)
<1>3. g = Rec(g)
  <2> HIDE DEF Rec
  <2> QED BY <1>2
<1>4. Reachable(r, next) = g[N]
  BY DEF Reachable
<1> HIDE DEF g
<1>5. g[0] = {r} /\ \A k \in 1..N : g[k] = g[k - 1] \cup UNION {next[n] : n \in g[k - 1]}
  <2>1. \A k \in 0..N : g[k] = Rec(g)[k]
    BY <1>3
  <2>2. 0 \in 0..N /\ \A k \in 1..N : k \in 0..N /\ k # 0
    BY <1>1
  <2> QED BY <2>1, <2>2
<1> QED BY <1>1, <1>4, <1>5

(* Only what has to be found is found.                                     *)
LEMMA ReachableLeast ==
  ASSUME NEW r \in Nodes, NEW next \in Successors,
         NEW X, r \in X, \A n \in X : next[n] \subseteq X
  PROVE  Reachable(r, next) \subseteq X
<1> DEFINE N == Cardinality(Nodes)
<1>1. N \in Nat
  BY ReachableSteps
<1>2. PICK reach : /\ reach[0] = {r} /\ Reachable(r, next) = reach[N]
                   /\ \A k \in 1..N : reach[k] = reach[k - 1] \cup UNION {next[n] : n \in reach[k - 1]}
  BY ReachableSteps
<1> HIDE DEF N
<1> DEFINE Bad == {k \in 0..N : ~(reach[k] \subseteq X)}
<1>3. Bad = {}
  <2> SUFFICES ASSUME Bad # {} PROVE FALSE
    OBVIOUS
  <2>1. Bad \subseteq Nat
    OBVIOUS
  <2>2. PICK k \in Bad : \A j \in Bad : k <= j
    BY <2>1, SmallestElement
  <2>3. k \in 1..N /\ k - 1 \in 0..N /\ k - 1 \notin Bad
    BY <1>1, <1>2, <2>2
  <2>4. reach[k - 1] \subseteq X
    BY <2>3
  <2>5. reach[k] \subseteq X
    BY <1>2, <2>3, <2>4
  <2> QED BY <2>2, <2>5
<1> QED BY <1>1, <1>2, <1>3

(* And all that has to be: there are only so many objects.                 *)
LEMMA ReachableClosed ==
  ASSUME NEW r \in Nodes, NEW next \in Successors
  PROVE  /\ Reachable(r, next) \subseteq Nodes /\ r \in Reachable(r, next)
         /\ \A n \in Reachable(r, next) : next[n] \subseteq Reachable(r, next)
<1> DEFINE N == Cardinality(Nodes)
<1>0. \A n \in Nodes : next[n] \subseteq Nodes
  BY DEF Successors
<1>1. N \in Nat
  BY ReachableSteps
<1>2. PICK reach : /\ reach[0] = {r} /\ Reachable(r, next) = reach[N]
                   /\ \A k \in 1..N : reach[k] = reach[k - 1] \cup UNION {next[n] : n \in reach[k - 1]}
  BY ReachableSteps
<1> DEFINE Shut(S) == \A n \in S : next[n] \subseteq S
           Good(k) == /\ reach[k] \subseteq Nodes /\ r \in reach[k]
                      /\ Shut(reach[k]) \/ Cardinality(reach[k]) > k
           Bad == {k \in 0..N : ~Good(k)}
<1>3. Good(0)
  BY <1>2, FS_Singleton
<1>4. ASSUME NEW k \in 1..N, Good(k - 1)
      PROVE  Good(k)
  <2>1. reach[k] = reach[k - 1] \cup UNION {next[n] : n \in reach[k - 1]}
    BY <1>2
  <2>2. reach[k - 1] \subseteq reach[k] /\ reach[k] \subseteq Nodes
    BY <1>0, <1>4, <2>1
  <2>3. CASE Shut(reach[k - 1])
    <3>1. reach[k] = reach[k - 1]
      BY <2>1, <2>3
    <3> QED BY <1>4, <2>3, <3>1
  <2>4. CASE ~Shut(reach[k - 1])
    <3>1. reach[k] # reach[k - 1]
      BY <2>1, <2>4
    <3>2. IsFiniteSet(reach[k]) /\ IsFiniteSet(reach[k - 1])
      BY <2>2, ContainerAssumption, FS_Subset
    <3>3. Cardinality(reach[k - 1]) <= Cardinality(reach[k])
          /\ Cardinality(reach[k - 1]) # Cardinality(reach[k])
      BY <2>2, <3>1, <3>2, FS_Subset
    <3>4. Cardinality(reach[k - 1]) \in Nat /\ Cardinality(reach[k]) \in Nat
      BY <3>2, FS_CardinalityType
    <3>5. Cardinality(reach[k - 1]) > k - 1
      BY <1>4, <2>4
    <3>6. Cardinality(reach[k]) > k
      BY <1>1, <3>3, <3>4, <3>5
    <3> QED BY <1>4, <2>2, <3>6
  <2> QED BY <2>3, <2>4
<1>5. Bad = {}
  <2> SUFFICES ASSUME Bad # {} PROVE FALSE
    OBVIOUS
  <2>1. Bad \subseteq Nat
    BY <1>1
  <2> HIDE DEF Good
  <2>2. PICK k \in Bad : \A j \in Bad : k <= j
    BY <2>1, SmallestElement
  <2>3. k \in 0..N /\ ~Good(k)
    OBVIOUS
  <2>4. k \in 1..N /\ k - 1 \in 0..N /\ k - 1 \notin Bad
    BY <1>1, <1>3, <2>2, <2>3
  <2> QED BY <1>4, <2>3, <2>4
<1>6. Good(N)
  BY <1>1, <1>5
<1>7. Cardinality(reach[N]) <= N /\ Cardinality(reach[N]) \in Nat
  BY <1>6, ContainerAssumption, FS_Subset, FS_CardinalityType
<1>8. Shut(reach[N])
  BY <1>1, <1>6, <1>7
<1> QED BY <1>2, <1>6, <1>8

----------------------------------------------------------------------------
(* What a call finds from an object, and the elements of a value           *)

(* What objects lead to.                                                   *)
LEMMA SuccessorsTyped ==
  /\ Elements \in Successors
  /\ \A c \in Calls : Entered(c) \in Successors
  /\ \A roles, closed :
       [n \in Nodes |-> IF n \in closed THEN {}
                        ELSE {p.node : p \in {q \in PartsOf(n) : q.role \in roles}}] \in Successors
<1>1. \A n \in Nodes : \A p \in PartsOf(n) : p.node \in Nodes
  BY PartTyped DEF PartsOf
<1> QED BY <1>1 DEF Elements, Entered, Successors

(* The table of what is found.                                             *)
LEMMA RegionIs ==
  ASSUME NEW c \in Calls, NEW n \in Nodes
  PROVE  Region(c, n) = Reachable(n, Entered(c))
<1> DEFINE Row(b, x) == {<<b, x, m>> : m \in Reachable(x, Entered(b))}
<1>1. Finds = UNION {Row(b, x) : b \in Calls, x \in Nodes}
  BY DEF Finds
<1>2. Reachable(n, Entered(c)) \subseteq Nodes
  BY SuccessorsTyped, ReachableClosed
<1>3. ASSUME NEW m \in Reachable(n, Entered(c))
      PROVE  <<c, n, m>> \in Finds
  <2>1. <<c, n, m>> \in Row(c, n)
    OBVIOUS
  <2> HIDE DEF Row
  <2> QED BY <1>1, <2>1
<1>4. ASSUME NEW m, <<c, n, m>> \in Finds
      PROVE  m \in Reachable(n, Entered(c))
  <2>1. PICK b \in Calls, x \in Nodes : <<c, n, m>> \in Row(b, x)
    <3> HIDE DEF Row
    <3> QED BY <1>1, <1>4
  <2>2. PICK k \in Reachable(x, Entered(b)) : <<c, n, m>> = <<b, x, k>>
    BY <2>1
  <2>3. c = b /\ n = x /\ m = k
    BY <2>2
  <2> QED BY <2>2, <2>3
<1> QED BY <1>2, <1>3, <1>4 DEF Region

(* A call finds the object itself, and the parts it enters.                *)
LEMMA RegionClosed ==
  ASSUME NEW c \in Calls, NEW n \in Nodes
  PROVE  /\ n \in Region(c, n) /\ Region(c, n) \subseteq Nodes
         /\ \A m \in Region(c, n) : \A i \in DOMAIN Parts[m] :
              TakenBy(c, m, Parts[m][i].role) => Parts[m][i].node \in Region(c, n)
<1>1. Entered(c) \in Successors /\ Region(c, n) = Reachable(n, Entered(c))
  BY SuccessorsTyped, RegionIs
<1>2. /\ n \in Region(c, n) /\ Region(c, n) \subseteq Nodes
      /\ \A m \in Region(c, n) : Entered(c)[m] \subseteq Region(c, n)
  BY <1>1, ReachableClosed
<1>3. ASSUME NEW m \in Region(c, n), NEW i \in DOMAIN Parts[m],
             TakenBy(c, m, Parts[m][i].role)
      PROVE  Parts[m][i].node \in Region(c, n)
  <2>1. m \in Nodes /\ Parts[m][i] \in PartsOf(m)
    BY <1>2 DEF PartsOf
  <2>2. Parts[m][i].node \in Entered(c)[m]
    BY <1>3, <2>1 DEF Entered
  <2> QED BY <1>2, <2>2
<1> QED BY <1>2, <1>3

(* Nothing else is found.                                                  *)
LEMMA RegionLeast ==
  ASSUME NEW c \in Calls, NEW n \in Nodes, NEW X, X \subseteq Nodes, n \in X,
         \A m \in X : \A i \in DOMAIN Parts[m] :
           TakenBy(c, m, Parts[m][i].role) => Parts[m][i].node \in X
  PROVE  Region(c, n) \subseteq X
<1>1. Entered(c) \in Successors /\ Region(c, n) = Reachable(n, Entered(c))
  BY SuccessorsTyped, RegionIs
<1>2. \A m \in X : Entered(c)[m] \subseteq X
  BY DEF Entered, PartsOf
<1> QED BY <1>1, <1>2, ReachableLeast

(* What is found from a part is found from the whole.                      *)
LEMMA RegionWithin ==
  ASSUME NEW c \in Calls, NEW n \in Nodes, NEW m \in Region(c, n)
  PROVE  m \in Nodes /\ Region(c, m) \subseteq Region(c, n)
<1>1. m \in Nodes
  BY RegionClosed
<1> QED BY <1>1, RegionClosed, RegionLeast

(* What is found is the object or found from a part it leads to.           *)
LEMMA RegionParts ==
  ASSUME NEW c \in Calls, NEW n \in Nodes, NEW m \in Region(c, n), m # n
  PROVE  \E i \in DOMAIN Parts[n] :
           TakenBy(c, n, Parts[n][i].role) /\ m \in Region(c, Parts[n][i].node)
<1> DEFINE Through(x) == \E i \in DOMAIN Parts[n] :
             TakenBy(c, n, Parts[n][i].role) /\ x \in Region(c, Parts[n][i].node)
           X == {x \in Nodes : x = n \/ Through(x)}
<1>1. ASSUME NEW x \in X, NEW k \in DOMAIN Parts[x], TakenBy(c, x, Parts[x][k].role)
      PROVE  Parts[x][k].node \in X
  <2> DEFINE y == Parts[x][k].node
  <2>1. y \in Nodes
    BY PartTyped
  <2>2. CASE x = n
    <3>1. y \in Region(c, y)
      BY <2>1, RegionClosed
    <3> QED BY <1>1, <2>1, <2>2, <3>1
  <2>3. CASE x # n
    <3>1. PICK i \in DOMAIN Parts[n] :
            TakenBy(c, n, Parts[n][i].role) /\ x \in Region(c, Parts[n][i].node)
      BY <2>3
    <3>2. Parts[n][i].node \in Nodes
      BY PartTyped
    <3>3. y \in Region(c, Parts[n][i].node)
      BY <1>1, <3>1, <3>2, RegionClosed
    <3> QED BY <2>1, <3>1, <3>3
  <2> QED BY <2>2, <2>3
<1>2. X \subseteq Nodes /\ n \in X
  OBVIOUS
<1> HIDE DEF X
<1>3. m \in X
  BY <1>1, <1>2, RegionLeast
<1> QED BY <1>3 DEF X

(* Every call finds the vectors of a binding from where they are bound.    *)
LEMMA VectorsFound ==
  ASSUME NEW c \in Calls, NEW m \in Long \ Aside
  PROVE  Anchor[m] \in Nodes /\ m \in Nodes /\ m \in Region(c, Anchor[m])
<1> DEFINE a == Anchor[m]
<1>1. m \in Nodes /\ a \in Nodes /\ m \in Reachable(a, Elements)
  BY ContainerAssumption DEF Atoms
<1>2. a \in Region(c, a) /\ Region(c, a) \subseteq Nodes
  BY <1>1, RegionClosed
<1>3. ASSUME NEW n \in Region(c, a)
      PROVE  Elements[n] \subseteq Region(c, a)
  <2>1. n \in Nodes
    BY <1>2
  <2>2. SUFFICES ASSUME NEW i \in DOMAIN Parts[n], ElementOf(n, Parts[n][i])
                 PROVE  Parts[n][i].node \in Region(c, a)
    BY <2>1 DEF Elements, PartsOf
  <2>3. TakenBy(c, n, Parts[n][i].role)
    BY <2>2 DEF TakenBy, ElementOf
  <2> QED BY <1>1, <2>3, RegionClosed
<1>4. Reachable(a, Elements) \subseteq Region(c, a)
  <2> HIDE DEF a
  <2> QED BY <1>1, <1>2, <1>3, SuccessorsTyped, ReachableLeast
<1> QED BY <1>1, <1>4

----------------------------------------------------------------------------
(* The stack                                                               *)

(* The frames of a call in progress.                                       *)
LEMMA TopTyped ==
  ASSUME ContTypeOK, ~Idle
  PROVE  /\ Len(stack) \in Nat \ {0}
         /\ DOMAIN stack = 1..Len(stack)
         /\ Top = stack[Len(stack)]
         /\ \A j \in DOMAIN stack : stack[j] \in Frames
         /\ call.op \in {"share", "unshare"}
<1>1. stack \in Seq(Frames)
  BY DEF ContTypeOK, Frames
<1>2. stack # <<>>
  BY DEF Idle
<1>3. Len(stack) \in Nat /\ DOMAIN stack = 1..Len(stack) /\ \A j \in 1..Len(stack) : stack[j] \in Frames
  BY <1>1
<1>4. Len(stack) # 0
  BY <1>1, <1>2
<1>5. call.op \in {"share", "unshare"}
  BY DEF ContTypeOK
<1> QED BY <1>3, <1>4, <1>5 DEF Top, Last

(* A new frame.                                                            *)
LEMMA FrameTyped ==
  ASSUME NEW n \in Nodes, NEW must \in BOOLEAN
  PROVE  /\ Frame(n, must) \in Frames
         /\ Frame(n, must).node = n /\ Frame(n, must).at = 1
         /\ Frame(n, must).s4 <=> n \in S4Data \ bare
         /\ Frame(n, must).must <=> must /\ n \notin S4Data \ bare
<1>1. PICK c \in BOOLEAN : c <=> n \in S4Data \ bare
  OBVIOUS
<1>2. PICK m \in BOOLEAN : m <=> must /\ n \notin S4Data \ bare
  OBVIOUS
<1>3. Frame(n, must) = [node |-> n, at |-> 1, must |-> m, s4 |-> c]
  <2>1. c = (n \in S4Data \ bare) /\ m = MustBelow(n, must)
    BY <1>1, <1>2, Zenon DEF MustBelow
  <2> QED BY <2>1, Zenon DEF Frame
<1>4. /\ Frame(n, must) \in Frames
      /\ Frame(n, must).node = n /\ Frame(n, must).at = 1
      /\ Frame(n, must).must = m /\ Frame(n, must).s4 = c
  BY <1>3 DEF Frames
<1> QED BY <1>1, <1>2, <1>4

(* The next part of an object is the first that is pending.                *)
LEMMA NextPart ==
  ASSUME NEW f \in Frames, Pending(f) # {}
  PROVE  LET i == Min(Pending(f)) IN
         /\ i \in DOMAIN Parts[f.node] /\ i >= f.at
         /\ Takes(f.node, Parts[f.node][i].role)
         /\ \A k \in DOMAIN Parts[f.node] :
              k >= f.at /\ k < i => ~Takes(f.node, Parts[f.node][k].role)
<1>1. f.node \in Nodes /\ f.at \in Nat /\ f.at > 0
  BY DEF Frames
<1>2. Len(Parts[f.node]) \in Nat /\ DOMAIN Parts[f.node] = 1..Len(Parts[f.node])
  BY <1>1, PartTyped
<1>3. Pending(f) \subseteq Nat
  BY <1>1, <1>2 DEF Pending
<1>4. Min(Pending(f)) \in Pending(f) /\ \A k \in Pending(f) : Min(Pending(f)) <= k
  BY <1>3, SmallestElement
<1>5. \A k \in DOMAIN Parts[f.node] :
        k >= f.at /\ Takes(f.node, Parts[f.node][k].role) => k \in Pending(f)
  BY <1>1, <1>2 DEF Pending
<1>6. /\ Min(Pending(f)) \in f.at..Len(Parts[f.node])
      /\ Takes(f.node, Parts[f.node][Min(Pending(f))].role)
  BY <1>4 DEF Pending
<1> HIDE DEF Pending
<1>7. Min(Pending(f)) \in Nat
  BY <1>3, <1>4
<1> QED BY <1>1, <1>2, <1>4, <1>5, <1>6, <1>7

(* Descend with d frames, into part i of n, the object of the top frame:   *)
(* it pushes a frame and moves on in the one below.                        *)
Descended(d, n, i, must) ==
  LET p == Parts[n][i] IN
  /\ d = Len(stack) /\ DOMAIN stack = 1..d /\ n = stack[d].node
  /\ stack[d] \in Frames /\ Top = stack[d]
  /\ i \in DOMAIN Parts[n] /\ i >= stack[d].at /\ Takes(n, Parts[n][i].role)
  /\ \A k \in DOMAIN Parts[n] : k >= stack[d].at /\ k < i => ~Takes(n, Parts[n][k].role)
  /\ p.node \in Nodes
  /\ must <=> stack[d].must /\ p.role = "elt"
  /\ stack' \in Seq(Frames) /\ Len(stack') = d + 1 /\ DOMAIN stack' = 1..(d + 1)
  /\ \A j \in 1..(d - 1) : stack'[j] = stack[j]
  /\ \A j \in 1..d : /\ stack'[j].node = stack[j].node
                    /\ stack'[j].must = stack[j].must
                    /\ stack'[j].s4 = stack[j].s4
  /\ stack'[d].at = i + 1
  /\ stack'[d + 1] = Frame(p.node, must)
  /\ Unset(p.node)
  /\ work' = IF Kind[n] = "env"
             THEN (work \ Within(p.node)) \cup (shared \cap Within(p.node))
             ELSE work
  /\ UNCHANGED <<shared, call, option>>

(* Every such step is of this form.                                        *)
LEMMA Descends ==
  ASSUME ContTypeOK, Descend
  PROVE  \E d \in Nat \ {0}, n \in Nodes, i \in Nat, must \in BOOLEAN :
           Descended(d, n, i, must)
<1>1. ~Idle /\ Pending(Top) # {}
  BY DEF Descend
<1> DEFINE d == Len(stack)
           n == Top.node
           i == Min(Pending(Top))
           p == Parts[n][i]
           must == Top.must /\ p.role = "elt"
<1>2. d \in Nat \ {0} /\ DOMAIN stack = 1..d /\ Top = stack[d] /\ stack[d] \in Frames
  BY <1>1, TopTyped
<1>3. /\ i \in DOMAIN Parts[n] /\ i >= stack[d].at /\ Takes(n, Parts[n][i].role)
      /\ \A k \in DOMAIN Parts[n] : k >= stack[d].at /\ k < i => ~Takes(n, Parts[n][k].role)
  BY <1>1, <1>2, NextPart
<1>4. n \in Nodes /\ i \in Nat /\ p.node \in Nodes
  BY <1>2, <1>3, PartTyped DEF Frames
<1>5. must \in BOOLEAN
  OBVIOUS
<1> DEFINE F == Frame(p.node, must)
           rest == [stack EXCEPT ![d].at = i + 1]
<1>6. /\ stack' = Append(rest, F)
      /\ Unset(p.node)
      /\ work' = IF Kind[n] = "env"
                 THEN (work \ Within(p.node)) \cup (shared \cap Within(p.node))
                 ELSE work
      /\ UNCHANGED <<shared, call, option>>
  BY Zenon DEF Descend
<1>7. F \in Frames
  BY <1>4, <1>5, FrameTyped
<1>8. stack \in Seq(Frames)
  BY DEF ContTypeOK, Frames
<1>9. n = stack[d].node /\ (must <=> stack[d].must /\ p.role = "elt")
  BY <1>2
<1> HIDE DEF F, i, p, n, must
<1>10. [stack[d] EXCEPT !.at = i + 1] \in Frames
  BY <1>2, <1>4 DEF Frames
<1>11. /\ rest \in Seq(Frames) /\ Len(rest) = d
       /\ \A j \in 1..(d - 1) : rest[j] = stack[j]
       /\ rest[d] = [stack[d] EXCEPT !.at = i + 1]
  BY <1>2, <1>8, <1>10
<1> HIDE DEF rest, d
<1>12. /\ stack' \in Seq(Frames) /\ Len(stack') = d + 1 /\ DOMAIN stack' = 1..(d + 1)
       /\ \A j \in 1..d : stack'[j] = rest[j]
       /\ stack'[d + 1] = F
  BY <1>2, <1>6, <1>7, <1>11
<1>13. /\ rest[d].at = i + 1 /\ rest[d].node = stack[d].node
       /\ rest[d].must = stack[d].must /\ rest[d].s4 = stack[d].s4
  BY <1>2, <1>11 DEF Frames
<1>14. d \in 1..d /\ \A j \in 1..d : j = d \/ j \in 1..(d - 1)
  BY <1>2
<1>15. \A j \in 1..d : /\ stack'[j].node = stack[j].node
                      /\ stack'[j].must = stack[j].must
                      /\ stack'[j].s4 = stack[j].s4
  BY <1>11, <1>12, <1>13, <1>14
<1>16. stack'[d].at = i + 1 /\ \A j \in 1..(d - 1) : stack'[j] = stack[j]
  <2>1. \A j \in 1..(d - 1) : j \in 1..d
    BY <1>2
  <2> QED BY <1>11, <1>12, <1>13, <1>14, <2>1
<1>17. d = Len(stack) /\ F = Frame(p.node, must) /\ p = Parts[n][i]
  BY DEF d, F, p
<1>18. Descended(d, n, i, must)
  BY <1>2, <1>3, <1>4, <1>6, <1>9, <1>12, <1>15, <1>16, <1>17 DEF Descended
<1> QED BY <1>2, <1>4, <1>5, <1>18

(* Finish pops a frame.                                                    *)
LEMMA Pops ==
  ASSUME ContTypeOK, Finish
  PROVE  \E d \in Nat \ {0}, n \in Nodes :
           /\ d = Len(stack) /\ DOMAIN stack = 1..d /\ n = stack[d].node
           /\ stack[d] \in Frames /\ Top = stack[d]
           /\ stack' \in Seq(Frames) /\ Len(stack') = d - 1 /\ DOMAIN stack' = 1..(d - 1)
           /\ \A j \in 1..(d - 1) : stack'[j] = stack[j]
<1>1. ~Idle /\ stack' = Front(stack)
  BY DEF Finish
<1>2. /\ Len(stack) \in Nat \ {0} /\ DOMAIN stack = 1..Len(stack)
      /\ Top = stack[Len(stack)] /\ stack[Len(stack)] \in Frames
  BY <1>1, TopTyped
<1>3. stack \in Seq(Frames)
  BY DEF ContTypeOK, Frames
<1>4. /\ stack' \in Seq(Frames) /\ Len(stack') = Len(stack) - 1
      /\ DOMAIN stack' = 1..(Len(stack) - 1)
      /\ \A j \in 1..(Len(stack) - 1) : stack'[j] = stack[j]
  BY <1>1, <1>2, <1>3 DEF Front
<1>5. stack[Len(stack)].node \in Nodes
  BY <1>2 DEF Frames
<1> QED BY <1>2, <1>4, <1>5

(* A call begins with one frame.                                           *)
LEMMA Starts ==
  ASSUME ContTypeOK, NEW c, NEW r \in Roots, NEW must \in BOOLEAN, Start(c, r, must)
  PROVE  /\ stack = <<>> /\ r \in Nodes
         /\ stack' = <<Frame(r, must)>> /\ stack' \in Seq(Frames)
         /\ Len(stack') = 1 /\ DOMAIN stack' = {1} /\ stack'[1] = Frame(r, must)
         /\ call' = c /\ work' = shared /\ Unset(r) /\ UNCHANGED <<shared, option>>
<1>1. r \in Nodes
  BY ContainerAssumption
<1>2. Frame(r, must) \in Frames
  BY <1>1, FrameTyped
<1>3. stack' = <<Frame(r, must)>>
  BY DEF Start
<1>4. stack' \in Seq(Frames) /\ Len(stack') = 1 /\ DOMAIN stack' = {1} /\ stack'[1] = Frame(r, must)
  BY <1>2, <1>3
<1> QED BY <1>1, <1>3, <1>4 DEF Start, Idle

(* The step that changes nothing but the package option, the steps of a    *)
(* call, and its beginning.                                                *)
LEMMA ContSteps ==
  ASSUME ContTypeOK, [ContNext]_contVars
  PROVE  \/ \E c \in Calls, r \in Roots, must \in BOOLEAN :
              Start(c, r, must) /\ (c.op = "unshare" => c.attrs = option)
         \/ UNCHANGED <<shared, work, bare, call, stack>> /\ option' \in BOOLEAN
         \/ Descend
         \/ Finish
         \/ ~Idle /\ Unwind /\ (Rejected(Top) \/ OutOfMemory \/ TooDeep)
<1>1. option \in BOOLEAN
  BY DEF ContTypeOK
<1>2. \A r \in Roots, attrs \in BOOLEAN, must \in BOOLEAN : Share(r, attrs, must) =>
        \E c \in Calls : Start(c, r, must) /\ c.op # "unshare"
  BY DEF Share, Calls
<1>3. \A r \in Roots : Unshare(r) =>
        \E c \in Calls : Start(c, r, FALSE) /\ c.attrs = option
  <2> DEFINE c == [op |-> "unshare", attrs |-> option]
  <2>1. c \in Calls /\ c.attrs = option
    BY <1>1 DEF Calls
  <2>2. \A r \in Roots : Unshare(r) => Start(c, r, FALSE)
    BY DEF Unshare
  <2> HIDE DEF c
  <2> QED BY <2>1, <2>2
<1>4. CASE UNCHANGED contVars
  BY <1>1, <1>4 DEF contVars
<1>5. CASE SetOption
  BY <1>1, <1>5 DEF SetOption
<1>6. CASE \E r \in Roots : Unshare(r) \/ \E attrs, must \in BOOLEAN : Share(r, attrs, must)
  BY <1>2, <1>3, <1>6
<1>7. CASE Step
  BY <1>7 DEF Step, Unsharable, OutOfMemory, TooDeep
<1> QED BY <1>4, <1>5, <1>6, <1>7 DEF ContNext

----------------------------------------------------------------------------
(* Types                                                                   *)

(* What a finished object contributes.                                     *)
LEMMA ConvertedTyped ==
  ASSUME ContTypeOK, NEW n \in Nodes
  PROVE  Converted(n) \subseteq Long
BY DEF Converted, ContTypeOK

(* C_UNSETS4                                                               *)
LEMMA UnsetTyped ==
  ASSUME ContTypeOK, NEW n, Unset(n)
  PROVE  bare' \subseteq S4Data
BY DEF Unset, ContTypeOK

LEMMA ContTypeKeeps ==
  ASSUME ContTypeOK, [ContNext]_contVars
  PROVE  ContTypeOK'
<1>1. CASE \E c \in Calls, r \in Roots, must \in BOOLEAN : Start(c, r, must)
  <2>1. PICK c \in Calls, r \in Roots, must \in BOOLEAN : Start(c, r, must)
    BY <1>1
  <2>2. stack' \in Seq(Frames) /\ stack' # <<>> /\ call' = c /\ work' = shared
        /\ shared' = shared /\ option' = option /\ Unset(r)
    BY <2>1, Starts
  <2>3. call' \in [op : {"none", "share", "unshare"}, attrs : BOOLEAN] /\ call'.op # "none"
    BY <2>2 DEF Calls
  <2> QED BY <2>2, <2>3, UnsetTyped DEF ContTypeOK, Frames, Idle
<1>2. CASE UNCHANGED <<shared, work, bare, call, stack>> /\ option' \in BOOLEAN
  BY <1>2 DEF ContTypeOK, Idle
<1>3. CASE Descend
  <2>1. PICK d \in Nat \ {0}, n \in Nodes, i \in Nat, must \in BOOLEAN :
          Descended(d, n, i, must)
    BY <1>3, Descends
  <2>2. Unset(Parts[n][i].node)
    BY <2>1 DEF Descended
  <2>3. /\ stack' \in Seq(Frames) /\ Len(stack') = d + 1 /\ work' \subseteq work \cup shared
        /\ UNCHANGED <<shared, call, option>>
    BY <2>1 DEF Descended
  <2>4. ~Idle /\ stack' # <<>>
    BY <1>3, <2>3 DEF Descend
  <2> QED BY <2>2, <2>3, <2>4, UnsetTyped DEF ContTypeOK, Frames, Idle
<1>4. CASE Finish
  <2>1. PICK d \in Nat \ {0}, n \in Nodes : /\ d = Len(stack) /\ n = Top.node
                                          /\ stack' \in Seq(Frames) /\ Len(stack') = d - 1
    BY <1>4, Pops
  <2>2. Converted(n) \subseteq Long
    BY ConvertedTyped
  <2>3. shared' \subseteq Long
    BY <1>4, <2>1, <2>2 DEF Finish, Bound, ContTypeOK
  <2>4. bare' \subseteq S4Data /\ option' = option
    BY <1>4 DEF Finish, ContTypeOK
  <2>5. CASE d = 1
    <3>1. work' = {} /\ call' = NoCall
      BY <1>4, <2>1, <2>5 DEF Finish
    <3>2. stack' = <<>>
      BY <2>1, <2>5
    <3>3. NoCall \in [op : {"none", "share", "unshare"}, attrs : BOOLEAN] /\ NoCall.op = "none"
      BY DEF NoCall
    <3> QED BY <2>1, <2>3, <2>4, <3>1, <3>2, <3>3 DEF ContTypeOK, Frames, Idle
  <2>6. CASE d # 1
    <3>1. work' = Converted(n) /\ call' = call
      BY <1>4, <2>1, <2>6 DEF Finish
    <3>2. stack' # <<>> /\ ~Idle
      BY <1>4, <2>1, <2>6 DEF Finish
    <3> QED BY <2>1, <2>2, <2>3, <2>4, <3>1, <3>2 DEF ContTypeOK, Frames, Idle
  <2> QED BY <2>5, <2>6
<1>5. CASE Unwind
  <2>1. NoCall \in [op : {"none", "share", "unshare"}, attrs : BOOLEAN] /\ NoCall.op = "none"
    BY DEF NoCall
  <2>2. stack' = <<>> /\ stack' \in Seq(Frames)
    BY <1>5 DEF Unwind
  <2> QED BY <1>5, <2>1, <2>2 DEF Unwind, ContTypeOK, Frames, Idle
<1> QED BY <1>1, <1>2, <1>3, <1>4, <1>5, ContSteps

----------------------------------------------------------------------------
(* The S4 bit                                                              *)

(* The objects that no frame will give their bit back.                     *)
LEMMA LostMeans ==
  /\ \A x : x \in Lost <=>
       x \in bare /\ \A j \in DOMAIN stack : stack[j].s4 => stack[j].node # x
  /\ \A x : x \in Lost' <=>
       x \in bare' /\ \A j \in DOMAIN stack' : stack'[j].s4 => stack'[j].node # x
BY DEF Lost, ToSet

(* A part is entered: if its bit is taken off, its frame will put it back. *)
LEMMA DescendKeepsBits ==
  ASSUME ContTypeOK, MustIsInherited, Descend
  PROVE  MustIsInherited' /\ Lost' = Lost
<1>0. PICK d \in Nat \ {0}, m \in Nodes, part \in Nat, must \in BOOLEAN : Descended(d, m, part, must)
  BY Descends
<1> DEFINE n == Parts[m][part].node
<1>1. /\ n \in Nodes
      /\ DOMAIN stack = 1..d /\ DOMAIN stack' = 1..(d + 1)
      /\ \A j \in 1..d : /\ stack'[j].node = stack[j].node
                        /\ stack'[j].must = stack[j].must
                        /\ stack'[j].s4 = stack[j].s4
      /\ must => stack[d].must
      /\ stack'[d + 1] = Frame(n, must)
      /\ Unset(n)
  BY <1>0 DEF Descended
<1> HIDE DEF n
<1>2. /\ stack'[d + 1].node = n
      /\ stack'[d + 1].s4 <=> n \in S4Data \ bare
      /\ stack'[d + 1].must <=> must /\ n \notin S4Data \ bare
  BY <1>1, FrameTyped
<1>3. \A j \in 1..(d + 1) : j = d + 1 \/ (j \in 1..d /\ j <= d)
  OBVIOUS
<1>4. ASSUME NEW j \in 1..(d + 1), stack'[j].must, NEW i \in 1..j
      PROVE  stack'[i].must /\ ~stack'[i].s4
  <2>1. CASE j = d + 1
    <3>1. stack[d].must /\ d \in 1..d
      BY <1>1, <1>2, <1>4, <2>1
    <3>2. \A k \in 1..d : stack[k].must /\ ~stack[k].s4
      BY <1>1, <3>1 DEF MustIsInherited
    <3>3. i = d + 1 \/ i \in 1..d
      BY <2>1
    <3> QED BY <1>1, <1>2, <1>4, <2>1, <3>2, <3>3
  <2>2. CASE j # d + 1
    <3>1. j \in 1..d /\ i \in 1..d
      BY <2>2
    <3> QED BY <1>1, <1>4, <3>1 DEF MustIsInherited
  <2> QED BY <2>1, <2>2
<1>5. MustIsInherited'
  BY <1>1, <1>4 DEF MustIsInherited
<1>6. \A x : x \in Lost' <=> x \in Lost
  <2>1. bare' = IF n \in S4Data THEN bare \cup {n} ELSE bare
    BY <1>1 DEF Unset
  <2>2. \A x : x \in Lost' <=> x \in bare' /\ (\A j \in 1..d : stack[j].s4 => stack[j].node # x)
                                       /\ (n \in S4Data \ bare => n # x)
    <3>1. \A j \in 1..d : j \in 1..(d + 1)
      OBVIOUS
    <3>2. d + 1 \in 1..(d + 1)
      OBVIOUS
    <3> QED BY <1>1, <1>2, <1>3, <3>1, <3>2, LostMeans
  <2> QED BY <1>1, <2>1, <2>2, LostMeans
<1> QED BY <1>5, <1>6

(* A function ends and puts the bit back that it took off.                 *)
LEMMA FinishKeepsBits ==
  ASSUME ContTypeOK, MustIsInherited, Finish
  PROVE  MustIsInherited' /\ Lost' = Lost
<1>1. PICK d \in Nat \ {0} :
        /\ DOMAIN stack = 1..d /\ Top = stack[d]
        /\ DOMAIN stack' = 1..(d - 1)
        /\ \A j \in 1..(d - 1) : stack'[j] = stack[j]
  BY Pops
<1>2. \A j \in 1..(d - 1) : j \in 1..d
  OBVIOUS
<1>3. MustIsInherited'
  BY <1>1, <1>2 DEF MustIsInherited
<1>4. bare' = IF stack[d].s4 THEN bare \ {stack[d].node} ELSE bare
  BY <1>1 DEF Finish
<1>5. \A j \in 1..d : j = d \/ j \in 1..(d - 1)
  OBVIOUS
<1>6. d \in 1..d
  OBVIOUS
<1>7. \A x : x \in Lost' <=> x \in Lost
  BY <1>1, <1>2, <1>4, <1>5, <1>6, LostMeans
<1> QED BY <1>3, <1>7

(* An error that the code raises by itself finds no bit taken off: with    *)
(* mustWork no object on the way has one to put back.                      *)
LEMMA RejectionLosesNoBit ==
  ASSUME ContTypeOK, MustIsInherited, ~Idle, Rejected(Top), Unwind
  PROVE  Lost' = Lost
<1>1. PICK d \in Nat \ {0} : DOMAIN stack = 1..d /\ Top = stack[d]
  BY TopTyped
<1>2. \A i \in 1..d : ~stack[i].s4
  <2>1. stack[d].must /\ d \in 1..d
    BY <1>1 DEF Rejected
  <2> QED BY <1>1, <2>1 DEF MustIsInherited
<1>3. DOMAIN stack' = {} /\ bare' = bare
  BY DEF Unwind
<1>4. \A x : x \in Lost' <=> x \in Lost
  BY <1>1, <1>2, <1>3, LostMeans
<1> QED BY <1>4

(* Every step.                                                             *)
LEMMA BitsStep ==
  ASSUME ContTypeOK, MustIsInherited, [ContNext]_contVars
  PROVE  MustIsInherited' /\ (Lost' # Lost => OutOfMemory \/ TooDeep)
<1>1. CASE \E c \in Calls, r \in Roots, must \in BOOLEAN : Start(c, r, must)
  <2>1. PICK c \in Calls, r \in Roots, must \in BOOLEAN : Start(c, r, must)
    BY <1>1
  <2>2. /\ stack = <<>> /\ DOMAIN stack' = {1} /\ stack'[1] = Frame(r, must) /\ Unset(r)
        /\ r \in Nodes
    BY <2>1, Starts
  <2>3. /\ stack'[1].node = r
        /\ stack'[1].s4 <=> r \in S4Data \ bare
        /\ stack'[1].must <=> must /\ r \notin S4Data \ bare
    BY <2>2, FrameTyped
  <2>4. MustIsInherited'
    BY <2>2, <2>3 DEF MustIsInherited
  <2>5. bare' = IF r \in S4Data THEN bare \cup {r} ELSE bare
    BY <2>2 DEF Unset
  <2>6. DOMAIN stack = {}
    BY <2>2
  <2>7. \A x : x \in Lost' <=> x \in Lost
    BY <2>2, <2>3, <2>5, <2>6, LostMeans
  <2> QED BY <2>4, <2>7
<1>2. CASE UNCHANGED <<shared, work, bare, call, stack>> /\ option' \in BOOLEAN
  BY <1>2 DEF MustIsInherited, Lost
<1>3. CASE ~Idle /\ Unwind /\ (Rejected(Top) \/ OutOfMemory \/ TooDeep)
  <2>1. MustIsInherited'
    BY <1>3 DEF Unwind, MustIsInherited
  <2> QED BY <1>3, <2>1, RejectionLosesNoBit
<1> QED BY <1>1, <1>2, <1>3, ContSteps, DescendKeepsBits, FinishKeepsBits

----------------------------------------------------------------------------
(* The path                                                                *)

(* A frame is a step from the one below.                                   *)
LEMMA PathStep ==
  ASSUME ContTypeOK, StackIsAPath, NEW d \in Nat, d = Len(stack), NEW j \in 1..(d - 1)
  PROVE  /\ stack[j].at - 1 \in DOMAIN Parts[stack[j].node]
         /\ Parts[stack[j].node][stack[j].at - 1].node = stack[j + 1].node
         /\ Takes(stack[j].node, Parts[stack[j].node][stack[j].at - 1].role)
BY DEF StackIsAPath

(* Where a value is bound.                                                 *)
LEMMA WhereBound ==
  ASSUME NEW n \in Nodes
  PROVE  /\ n \in Roots => Anchor[n] = n
         /\ Anchor[n] \in Nodes
         /\ \A i \in DOMAIN Parts[n] :
              Kind[Parts[n][i].node] # "env" =>
                Anchor[Parts[n][i].node] = IF Kind[n] = "env" THEN Parts[n][i].node ELSE Anchor[n]
BY PartTyped, ContainerAssumption

(* A value that a frame is to bind is bound as such.                       *)
LEMMA BoundWhereItIs ==
  ASSUME ContTypeOK, StackIsAPath, NEW j \in DOMAIN stack, BindsAt(j),
         Kind[stack[j].node] # "env"
  PROVE  Anchor[stack[j].node] = stack[j].node
<1>1. PICK d \in Nat \ {0} : d = Len(stack) /\ DOMAIN stack = 1..d
  <2>1. ~Idle
    BY DEF Idle
  <2> QED BY <2>1, TopTyped
<1>2. \A k \in 1..d : stack[k].node \in Nodes
  <2>1. ~Idle
    BY DEF Idle
  <2> QED BY <1>1, <2>1, TopTyped DEF Frames
<1>3. CASE j = 1
  <2>1. stack[1].node \in Roots
    BY <1>1, <1>3 DEF StackIsAPath, Idle
  <2> QED BY <1>3, <2>1, ContainerAssumption
<1>4. CASE j # 1
  <2>1. j - 1 \in 1..(d - 1) /\ (j - 1) + 1 = j /\ j - 1 \in 1..d
    BY <1>1, <1>4
  <2>2. Kind[stack[j - 1].node] = "env"
    BY <1>4 DEF BindsAt
  <2> DEFINE n == stack[j - 1].node
             i == stack[j - 1].at - 1
  <2>3. i \in DOMAIN Parts[n] /\ Parts[n][i].node = stack[j].node
    BY <1>1, <2>1, PathStep
  <2>4. n \in Nodes
    BY <1>2, <2>1
  <2> HIDE DEF n, i
  <2>5. Kind[n] = "env"
    BY <2>2 DEF n
  <2> QED BY <1>4, <2>3, <2>4, <2>5, WhereBound
<1> QED BY <1>3, <1>4

(* The frames of a call lead from a root to the object it is in.           *)
LEMMA PathKeeps ==
  ASSUME ContTypeOK, StackIsAPath, [ContNext]_contVars
  PROVE  StackIsAPath'
<1>1. CASE \E c \in Calls, r \in Roots, must \in BOOLEAN : Start(c, r, must)
  <2>1. PICK c \in Calls, r \in Roots, must \in BOOLEAN : Start(c, r, must)
    BY <1>1
  <2>2. /\ r \in Nodes /\ Len(stack') = 1 /\ DOMAIN stack' = {1} /\ stack'[1].node = r
        /\ call' = c
    BY <2>1, Starts, FrameTyped
  <2>3. r \in Region(c, Anchor[r])
    BY <2>2, WhereBound, RegionClosed
  <2> QED BY <2>2, <2>3 DEF StackIsAPath
<1>2. CASE UNCHANGED <<shared, work, bare, call, stack>> /\ option' \in BOOLEAN
  BY <1>2 DEF StackIsAPath, Idle, Takes
<1>3. CASE Descend
  <2>0. PICK d \in Nat \ {0}, n \in Nodes, i \in Nat, must \in BOOLEAN : Descended(d, n, i, must)
    BY <1>3, Descends
  <2> DEFINE e == Parts[n][i].node
  <2>1. /\ d = Len(stack) /\ DOMAIN stack = 1..d /\ n = stack[d].node /\ e \in Nodes
        /\ i \in DOMAIN Parts[n]
        /\ Len(stack') = d + 1 /\ DOMAIN stack' = 1..(d + 1)
        /\ \A j \in 1..(d - 1) : stack'[j] = stack[j]
        /\ \A j \in 1..d : stack'[j].node = stack[j].node
        /\ stack'[d].at = i + 1
        /\ stack'[d + 1] = Frame(e, must)
        /\ call' = call
        /\ Takes(n, Parts[n][i].role)
    BY <2>0 DEF Descended
  <2>2. stack'[d + 1].node = e
    BY <2>1, FrameTyped
  <2>3. i \in Nat /\ stack'[d].at - 1 = i
    BY <2>1, PartTyped
  <2>4. stack'[1].node \in Roots
    BY <1>3, <2>1 DEF StackIsAPath, Descend
  <2>5. ASSUME NEW j \in 1..d
        PROVE  /\ stack'[j].at - 1 \in DOMAIN Parts[stack'[j].node]
               /\ Parts[stack'[j].node][stack'[j].at - 1].node = stack'[j + 1].node
               /\ TakenBy(call', stack'[j].node, Parts[stack'[j].node][stack'[j].at - 1].role)
    <3>1. CASE j = d
      BY <2>1, <2>2, <2>3, <3>1 DEF Takes
    <3>2. CASE j # d
      <4>1. j \in 1..(d - 1) /\ j + 1 \in 1..d
        BY <3>2
      <4>2. stack'[j] = stack[j] /\ stack'[j + 1].node = stack[j + 1].node
        BY <2>1, <4>1
      <4> QED BY <2>1, <4>1, <4>2, PathStep DEF Takes
    <3> QED BY <3>1, <3>2
  <2>6. (d + 1) - 1 = d
    OBVIOUS
  <2>7. call \in Calls
    BY <1>3, TopTyped DEF Descend, ContTypeOK, Calls
  <2>8. Kind[e] # "env" => e \in Region(call, Anchor[e])
    <3> SUFFICES ASSUME Kind[e] # "env" PROVE e \in Region(call, Anchor[e])
      OBVIOUS
    <3>1. CASE Kind[n] = "env"
      <4>1. Anchor[e] = e
        BY <2>1, <3>1, WhereBound
      <4> QED BY <2>1, <2>7, <4>1, RegionClosed
    <3>2. CASE Kind[n] # "env"
      <4>1. Anchor[e] = Anchor[n] /\ Anchor[n] \in Nodes
        BY <2>1, <3>2, WhereBound
      <4>2. n \in Region(call, Anchor[n])
        BY <2>1, <3>2 DEF StackIsAPath
      <4>3. TakenBy(call, n, Parts[n][i].role)
        BY <2>1 DEF Takes
      <4> QED BY <2>1, <2>7, <4>1, <4>2, <4>3, RegionClosed
    <3> QED BY <3>1, <3>2
  <2>9. ASSUME NEW j \in 1..(d + 1), Kind[stack'[j].node] # "env"
        PROVE  stack'[j].node \in Region(call', Anchor[stack'[j].node])
    <3>1. CASE j = d + 1
      BY <2>1, <2>2, <2>8, <2>9, <3>1
    <3>2. CASE j # d + 1
      <4>1. j \in 1..d
        BY <3>2
      <4> QED BY <2>1, <2>9, <4>1 DEF StackIsAPath
    <3> QED BY <3>1, <3>2
  <2> HIDE DEF e
  <2> QED BY <2>1, <2>4, <2>5, <2>6, <2>9 DEF StackIsAPath, Takes
<1>4. CASE Finish
  <2>1. PICK d \in Nat \ {0} : /\ d = Len(stack) /\ DOMAIN stack = 1..d /\ Len(stack') = d - 1
                              /\ stack' \in Seq(Frames) /\ DOMAIN stack' = 1..(d - 1)
                              /\ \A j \in 1..(d - 1) : stack'[j] = stack[j]
    BY <1>4, Pops
  <2>2. \A j \in 1..((d - 1) - 1) : j \in 1..(d - 1) /\ j + 1 \in 1..(d - 1)
    OBVIOUS
  <2>3. ASSUME stack' # <<>> PROVE stack'[1].node \in Roots /\ call' = call
    <3>1. d - 1 # 0
      BY <2>1, <2>3
    <3>2. 1 \in 1..(d - 1)
      BY <3>1
    <3> QED BY <1>4, <2>1, <3>1, <3>2 DEF StackIsAPath, Finish
  <2>4. ASSUME NEW j \in 1..((d - 1) - 1)
        PROVE  /\ stack'[j].at - 1 \in DOMAIN Parts[stack'[j].node]
               /\ Parts[stack'[j].node][stack'[j].at - 1].node = stack'[j + 1].node
               /\ TakenBy(call', stack'[j].node, Parts[stack'[j].node][stack'[j].at - 1].role)
    <3>1. stack' # <<>>
      BY <2>1
    <3>2. stack'[j] = stack[j] /\ stack'[j + 1] = stack[j + 1]
      BY <2>1, <2>2
    <3> QED BY <2>1, <2>2, <2>3, <3>1, <3>2, PathStep DEF Takes
  <2>5. ASSUME NEW j \in 1..(d - 1), Kind[stack'[j].node] # "env"
        PROVE  stack'[j].node \in Region(call', Anchor[stack'[j].node])
    <3>1. stack' # <<>> /\ j \in 1..d
      BY <2>1
    <3> QED BY <2>1, <2>3, <2>5, <3>1 DEF StackIsAPath
  <2> QED BY <2>1, <2>3, <2>4, <2>5 DEF StackIsAPath, Idle, Takes
<1>5. CASE Unwind
  <2>1. stack' = <<>> /\ Len(stack') = 0 /\ DOMAIN stack' = {}
    BY <1>5 DEF Unwind
  <2> QED BY <2>1 DEF StackIsAPath, Idle
<1> QED BY <1>1, <1>2, <1>3, <1>4, <1>5, ContSteps

----------------------------------------------------------------------------
(* Results                                                                 *)

All(op, S, results) == IF op = "share" THEN S \subseteq results ELSE S \cap results = {}

(* In the second state of the vectors a call is further than in the first. *)
Ahead(op, a, b) == IF op = "share" THEN a \subseteq b ELSE b \subseteq a

(* What was converted stays so when more is.                               *)
LEMMA AllGrows ==
  ASSUME NEW op, NEW S, NEW T, NEW a, NEW b, Ahead(op, a, b), T \subseteq S, All(op, S,
         a)
  PROVE  All(op, T, b)
BY DEF All, Ahead

(* All of a set is converted if all of its parts is.                       *)
LEMMA AllParts ==
  ASSUME NEW op, NEW S, NEW T, NEW a, All(op, S \cap T, a), All(op, S \ T, a)
  PROVE  All(op, S, a)
BY DEF All

LEMMA AheadMeans ==
  ASSUME ContTypeOK, ResultsAreAhead, ~Idle
  PROVE  call \in Calls /\ Ahead(call.op, shared, work)
<1>1. call.op \in {"share", "unshare"}
  BY TopTyped
<1> QED BY <1>1 DEF Ahead, ResultsAreAhead, ContTypeOK, Calls

(* The end of a function brings both forward, the results further.         *)
LEMMA FinishIsAhead ==
  ASSUME ContTypeOK, ResultsAreAhead, Finish
  PROVE  /\ Ahead(call.op, work, Converted(Top.node))
         /\ Ahead(call.op, shared, shared')
         /\ Ahead(call.op, shared', Converted(Top.node))
<1>1. ~Idle /\ shared' = Bound(Converted(Top.node))
  BY DEF Finish
<1>2. call.op \in {"share", "unshare"}
  BY <1>1, TopTyped
<1> DEFINE R == Converted(Top.node)
<1>3. Ahead(call.op, work, R)
  BY <1>2 DEF Converted, Ahead
<1>4. Ahead(call.op, shared, work)
  BY <1>1, AheadMeans
<1> HIDE DEF R
<1>5. shared' = shared \/ shared' = (shared \ Within(Top.node)) \cup (R \cap Within(Top.node))
  BY <1>1 DEF Bound, R
<1>6. Ahead(call.op, shared, R)
  BY <1>3, <1>4 DEF Ahead
<1>7. Ahead(call.op, shared, shared') /\ Ahead(call.op, shared', R)
  BY <1>5, <1>6 DEF Ahead
<1> QED BY <1>3, <1>7 DEF R

(* Every step keeps the results ahead.                                     *)
LEMMA AheadKeeps ==
  ASSUME ContTypeOK, ResultsAreAhead, [ContNext]_contVars
  PROVE  ResultsAreAhead'
<1>1. CASE \E c \in Calls, r \in Roots, must \in BOOLEAN :
             Start(c, r, must) /\ (c.op = "unshare" => c.attrs = option)
  <2>1. PICK c \in Calls, r \in Roots, must \in BOOLEAN :
          Start(c, r, must) /\ (c.op = "unshare" => c.attrs = option)
    BY <1>1
  <2>2. call' = c /\ work' = shared /\ shared' = shared /\ option' = option
    BY <2>1, Starts
  <2> QED BY <2>1, <2>2 DEF ResultsAreAhead
<1>2. CASE UNCHANGED <<shared, work, bare, call, stack>> /\ option' \in BOOLEAN
  <2>1. CASE option' = option
    BY <1>2, <2>1 DEF ResultsAreAhead
  <2>2. CASE option' # option
    <3>1. Idle
      BY <2>2, <1>2 DEF ContNext, SetOption, Share, Unshare, Start, Step, Descend, Finish,
         Unsharable, OutOfMemory, TooDeep, Unwind, contVars
    <3>2. call'.op = "none"
      BY <1>2, <3>1 DEF ContTypeOK
    <3> QED BY <3>2 DEF ResultsAreAhead
  <2> QED BY <2>1, <2>2
<1>3. CASE Descend
  <2>1. PICK W : work' = work \/ work' = (work \ W) \cup (shared \cap W)
    BY <1>3 DEF Descend
  <2>2. UNCHANGED <<shared, call, option>>
    BY <1>3 DEF Descend
  <2> QED BY <2>1, <2>2 DEF ResultsAreAhead
<1>4. CASE Finish
  <2>1. CASE Len(stack) = 1
    <3>1. call'.op = "none"
      BY <1>4, <2>1 DEF Finish, NoCall
    <3> QED BY <3>1 DEF ResultsAreAhead
  <2>2. CASE Len(stack) # 1
    <3>1. work' = Converted(Top.node) /\ call' = call /\ option' = option
      BY <1>4, <2>2 DEF Finish
    <3>2. Ahead(call.op, shared', work')
      BY <1>4, <3>1, FinishIsAhead
    <3> QED BY <3>1, <3>2 DEF Ahead, ResultsAreAhead
  <2> QED BY <2>1, <2>2
<1>5. CASE Unwind
  <2>1. call'.op = "none"
    BY <1>5 DEF Unwind, NoCall
  <2> QED BY <2>1 DEF ResultsAreAhead
<1> QED BY <1>1, <1>2, <1>3, <1>4, <1>5, ContSteps

(* A call that shares is never in a class, names or levels.                *)
LEMMA TopIsNotFixed ==
  ASSUME ContTypeOK, StackIsAPath, ~Idle, call.op = "share"
  PROVE  Top.node \notin FixedLeaves
<1>1. PICK d \in Nat \ {0} : /\ d = Len(stack) /\ DOMAIN stack = 1..d /\ Top = stack[d]
                            /\ \A j \in 1..d : stack[j].node \in Nodes
  BY TopTyped DEF Frames
<1>2. \A n \in FixedLeaves :
        n \notin Roots /\ \A m \in Nodes : \A q \in PartsOf(m) : q.node = n => q.role = "fixed"
  BY ContainerAssumption DEF FixedLeaves
<1>3. CASE d = 1
  BY <1>1, <1>2, <1>3 DEF StackIsAPath
<1>4. CASE d # 1
  <2>1. d - 1 \in 1..(d - 1) /\ (d - 1) + 1 = d /\ d - 1 \in 1..d
    BY <1>4
  <2> DEFINE m == stack[d - 1].node
             i == stack[d - 1].at - 1
  <2>2. i \in DOMAIN Parts[m] /\ Parts[m][i].node = stack[d].node /\ Takes(m, Parts[m][i].role)
    BY <1>1, <2>1, PathStep
  <2>3. m \in Nodes
    BY <1>1, <2>1
  <2> HIDE DEF m, i
  <2>4. Parts[m][i].role # "fixed"
    BY <2>2 DEF Takes, TakenBy
  <2>5. Parts[m][i] \in PartsOf(m)
    BY <2>2 DEF PartsOf
  <2> QED BY <1>1, <1>2, <2>2, <2>3, <2>4, <2>5
<1> QED BY <1>3, <1>4

(* So those are never shared.                                              *)
LEMMA FixedKeeps ==
  ASSUME ContTypeOK, StackIsAPath, FixedAreNotShared, [ContNext]_contVars
  PROVE  FixedAreNotShared'
<1>1. CASE \E c \in Calls, r \in Roots, must \in BOOLEAN : Start(c, r, must)
  BY <1>1 DEF Start, FixedAreNotShared
<1>2. CASE UNCHANGED <<shared, work, bare, call, stack>> /\ option' \in BOOLEAN
  BY <1>2 DEF FixedAreNotShared
<1>3. CASE Descend
  <2>1. work' \subseteq work \cup shared /\ shared' = shared
    BY <1>3 DEF Descend
  <2> QED BY <2>1 DEF FixedAreNotShared
<1>4. CASE Finish
  <2>1. ~Idle /\ shared' = Bound(Converted(Top.node))
    BY <1>4 DEF Finish
  <2>2. Converted(Top.node) \cap FixedLeaves = {}
    <3>1. call.op \in {"share", "unshare"}
      BY <2>1, TopTyped
    <3> QED BY <2>1, <3>1, TopIsNotFixed DEF Converted, FixedAreNotShared
  <2>3. work' = {} \/ work' = Converted(Top.node)
    BY <1>4 DEF Finish
  <2>4. shared' \subseteq shared \cup Converted(Top.node)
    BY <2>1 DEF Bound
  <2> QED BY <2>2, <2>3, <2>4 DEF FixedAreNotShared
<1>5. CASE Unwind
  BY <1>5 DEF Unwind, FixedAreNotShared
<1> QED BY <1>1, <1>2, <1>3, <1>4, <1>5, ContSteps

----------------------------------------------------------------------------
(* What has been visited is converted                                      *)

(* What is found in the parts of n before at is converted: in the results  *)
(* where it belongs to the value n is in, else where it is bound.          *)
AllBefore(c, n, at, results, bound) ==
  \A i \in DOMAIN Parts[n] :
    i < at /\ TakenBy(c, n, Parts[n][i].role) =>
      /\ All(c.op, Long \cap Region(c, Parts[n][i].node) \cap Own(n), results)
      /\ All(c.op, (Long \cap Region(c, Parts[n][i].node)) \ Own(n), bound)

Visited ==
  \A j \in DOMAIN stack :
    AllBefore(call, stack[j].node, Behind(j), work, shared) \/ BegunAgain(j)

(* VisitedIsDone with its parts spelled out.                               *)
LEMMA VisitedMeans == VisitedIsDone <=> Visited
<1>1. \A j : Explored(j) <=> AllBefore(call, stack[j].node, Behind(j), work, shared)
  BY DEF Explored, AllBefore, All, Done, Takes
<1> QED BY <1>1 DEF VisitedIsDone, Visited

(* The same after a step.                                                  *)
LEMMA VisitedMeansNext == VisitedIsDone' <=> Visited'
BY VisitedMeans, PTL

(* A later state of a call has no less converted.                          *)
LEMMA AllBeforeGrows ==
  ASSUME NEW c, NEW n, NEW at, NEW results, NEW bound, NEW results2, NEW bound2,
         AllBefore(c, n, at, results, bound),
         Ahead(c.op, results, results2), Ahead(c.op, bound, bound2)
  PROVE  AllBefore(c, n, at, results2, bound2)
<1> SUFFICES ASSUME NEW i \in DOMAIN Parts[n], i < at, TakenBy(c, n, Parts[n][i].role)
             PROVE  /\ All(c.op, Long \cap Region(c, Parts[n][i].node) \cap Own(n), results2)
                    /\ All(c.op, (Long \cap Region(c, Parts[n][i].node)) \ Own(n), bound2)
  BY DEF AllBefore
<1> DEFINE S == Long \cap Region(c, Parts[n][i].node) \cap Own(n)
           T == (Long \cap Region(c, Parts[n][i].node)) \ Own(n)
<1>1. All(c.op, S, results) /\ All(c.op, T, bound)
  BY DEF AllBefore
<1> HIDE DEF S, T
<1>2. All(c.op, S, results2) /\ All(c.op, T, bound2)
  BY <1>1, AllGrows
<1> QED BY <1>2 DEF S, T

(* At its end, all that is found from the object a frame is in is          *)
(* converted.                                                              *)
LEMMA TopIsDone ==
  ASSUME ContTypeOK, Visited, ~Idle, Pending(Top) = {}
  PROVE  /\ All(call.op, Long \cap Region(call, Top.node) \cap Own(Top.node), Converted(Top.node))
         /\ All(call.op, (Long \cap Region(call, Top.node)) \ Own(Top.node), shared)
<1>1. PICK d \in Nat \ {0}, n \in Nodes :
        /\ d = Len(stack) /\ DOMAIN stack = 1..d /\ Top = stack[d] /\ stack[d] \in Frames
        /\ n = Top.node
        /\ call.op \in {"share", "unshare"} /\ call \in Calls
  <2>1. /\ Len(stack) \in Nat \ {0} /\ DOMAIN stack = 1..Len(stack)
        /\ Top = stack[Len(stack)] /\ stack[Len(stack)] \in Frames
        /\ call.op \in {"share", "unshare"}
    BY TopTyped
  <2>2. Top.node \in Nodes /\ call \in Calls
    BY <2>1 DEF Frames, ContTypeOK, Calls
  <2> QED BY <2>1, <2>2
<1>2. d \in 1..d /\ \A k \in 1..d : ~(k > d)
  OBVIOUS
<1>3. AllBefore(call, n, stack[d].at, work, shared)
  BY <1>1, <1>2 DEF Visited, BegunAgain, Behind
<1>4. ASSUME NEW i \in DOMAIN Parts[n], TakenBy(call, n, Parts[n][i].role)
      PROVE  i < stack[d].at
  <2>1. Takes(n, Parts[n][i].role)
    BY <1>4 DEF Takes
  <2>2. Len(Parts[n]) \in Nat /\ DOMAIN Parts[n] = 1..Len(Parts[n])
    BY <1>1, PartTyped
  <2>3. stack[d].at \in Nat
    BY <1>1 DEF Frames
  <2> QED BY <1>1, <2>1, <2>2, <2>3 DEF Pending
<1>5. Ahead(call.op, work, Converted(n))
  BY <1>1 DEF Ahead, Converted
<1>6. ASSUME NEW m \in Long, m \in Region(call, n)
      PROVE  All(call.op, {m}, IF m \in Own(n) THEN Converted(n) ELSE shared)
  <2>1. CASE m = n
    <3>1. n \in Atoms /\ n \in Own(n)
      BY <1>6, <2>1, ContainerAssumption DEF Own, Atoms, Within
    <3> QED BY <1>1, <1>6, <2>1, <3>1 DEF Converted, All
  <2>2. CASE m # n
    <3>1. PICK i \in DOMAIN Parts[n] :
            TakenBy(call, n, Parts[n][i].role) /\ m \in Region(call, Parts[n][i].node)
      BY <1>1, <1>6, <2>2, RegionParts
    <3> DEFINE S == Long \cap Region(call, Parts[n][i].node)
    <3>2. All(call.op, S \cap Own(n), work) /\ All(call.op, S \ Own(n), shared)
      BY <1>3, <1>4, <3>1 DEF AllBefore
    <3>3. m \in S
      BY <1>6, <3>1
    <3> HIDE DEF S
    <3>4. CASE m \in Own(n)
      <4>1. All(call.op, {m}, Converted(n))
        BY <1>5, <3>2, <3>3, <3>4, AllGrows
      <4> QED BY <3>4, <4>1
    <3>5. CASE m \notin Own(n)
      BY <3>2, <3>3, <3>5 DEF All
    <3> QED BY <3>4, <3>5
  <2> QED BY <2>1, <2>2
<1> QED BY <1>1, <1>6 DEF All

(* What is bound at the end of a function has all that is found from it    *)
(* converted, where it is bound.                                           *)
LEMMA BoundIsDone ==
  ASSUME ContTypeOK, StackIsAPath, ResultsAreAhead, Visited, Finish, Binds
  PROVE  All(call.op, Long \cap Region(call, Top.node), shared')
<1>1. ~Idle /\ Pending(Top) = {} /\ shared' = Bound(Converted(Top.node))
  BY DEF Finish
<1>2. PICK d \in Nat \ {0}, n \in Nodes :
        d = Len(stack) /\ DOMAIN stack = 1..d /\ Top = stack[d] /\ n = Top.node
  <2>1. /\ Len(stack) \in Nat \ {0} /\ DOMAIN stack = 1..Len(stack)
        /\ Top = stack[Len(stack)] /\ stack[Len(stack)] \in Frames
    BY <1>1, TopTyped
  <2>2. Top.node \in Nodes
    BY <2>1 DEF Frames
  <2> QED BY <2>1, <2>2
<1> DEFINE S == Long \cap Region(call, n)
           R == Converted(n)
<1>3. All(call.op, S \cap Own(n), R) /\ All(call.op, S \ Own(n), shared)
  BY <1>1, <1>2, TopIsDone
<1>4. shared' = (shared \ Within(n)) \cup (R \cap Within(n))
  BY <1>1, <1>2 DEF Bound
<1>5. Ahead(call.op, shared, shared')
  BY FinishIsAhead
<1> HIDE DEF S, R
<1>6. All(call.op, S \ Own(n), shared')
  BY <1>3, <1>5, AllGrows
<1>7. Own(n) \subseteq Within(n)
  <2>1. BindsAt(d)
    BY <1>2 DEF Binds, BindsAt
  <2>2. Kind[n] # "env" => Anchor[n] = n
    BY <1>2, <2>1, BoundWhereItIs
  <2> QED BY <2>2 DEF Own
<1>8. All(call.op, S \cap Own(n), shared')
  BY <1>3, <1>4, <1>7 DEF All
<1>9. All(call.op, S, shared')
  BY <1>6, <1>8, AllParts
<1> QED BY <1>2, <1>9 DEF S

(* A part is entered.  If it is bound in an environment, what becomes of   *)
(* it starts from what it is, and the frames that have been in it before   *)
(* have it begun again.                                                    *)
LEMMA DescendVisits ==
  ASSUME ContTypeOK, Visited, Descend
  PROVE  Visited'
<1>0. PICK d \in Nat \ {0}, n \in Nodes, i \in Nat, must \in BOOLEAN : Descended(d, n, i, must)
  BY Descends
<1> DEFINE e == Parts[n][i].node
<1>1. /\ d = Len(stack) /\ DOMAIN stack = 1..d /\ n = stack[d].node
      /\ stack[d] \in Frames
      /\ i \in DOMAIN Parts[n] /\ i >= stack[d].at
      /\ \A k \in DOMAIN Parts[n] : k >= stack[d].at /\ k < i => ~Takes(n, Parts[n][k].role)
      /\ e \in Nodes
      /\ Len(stack') = d + 1 /\ DOMAIN stack' = 1..(d + 1)
      /\ \A j \in 1..(d - 1) : stack'[j] = stack[j]
      /\ \A j \in 1..d : stack'[j].node = stack[j].node
      /\ stack'[d].at = i + 1
      /\ stack'[d + 1] = Frame(e, must)
      /\ work' = IF Kind[n] = "env"
                 THEN (work \ Within(e)) \cup (shared \cap Within(e))
                 ELSE work
      /\ UNCHANGED <<shared, call, option>>
  BY <1>0 DEF Descended
<1> HIDE DEF e
<1>2. stack'[d + 1].node = e /\ stack'[d + 1].at = 1
  BY <1>1, FrameTyped
<1>3. \A j \in 1..d : stack[j] \in Frames /\ stack[j].node \in Nodes /\ stack[j].at \in Nat
  BY <1>1, TopTyped DEF Frames, Descend
<1>4. call' = call /\ shared' = shared /\ (Kind[n] # "env" => work' = work)
      /\ \A S : S \cap Within(e) = {} /\ All(call.op, S, work) => All(call.op, S, work')
  BY <1>1 DEF All
<1>5. AllBefore(call', stack'[d + 1].node, stack'[d + 1].at, work', shared')
  <2>1. \A k \in DOMAIN Parts[e] : ~(k < 1)
    BY <1>1, PartTyped
  <2> QED BY <1>2, <2>1 DEF AllBefore
<1>6. ASSUME NEW j \in 1..d, BegunAgain(j)
      PROVE  BegunAgain(j)'
  <2>1. Kind[stack[j].node] # "env"
    BY <1>6 DEF BegunAgain
  <2>2. PICK k \in 1..d : /\ k > j
                          /\ k = 1 \/ Kind[stack[k - 1].node] = "env"
                          /\ stack[k].node = Anchor[stack[j].node]
    BY <1>1, <1>6 DEF BegunAgain, BindsAt
  <2>3. k \in 1..(d + 1) /\ (k = 1 \/ k - 1 \in 1..d)
    BY <2>2
  <2> QED BY <1>1, <2>1, <2>2, <2>3 DEF BegunAgain, BindsAt
<1>7. ASSUME NEW j \in 1..d, Kind[n] = "env", e = Anchor[stack[j].node],
             Kind[stack[j].node] # "env"
      PROVE  BegunAgain(j)'
  <2>1. d + 1 \in 1..(d + 1) /\ d + 1 > j /\ (d + 1) - 1 = d /\ d \in 1..d
    OBVIOUS
  <2> QED BY <1>1, <1>2, <1>7, <2>1 DEF BegunAgain, BindsAt
<1>8. ASSUME NEW j \in 1..d, AllBefore(call, stack[j].node, Behind(j), work, shared),
             ~(Kind[n] = "env" /\ e = Anchor[stack[j].node] /\ Kind[stack[j].node] # "env")
      PROVE  AllBefore(call', stack'[j].node, stack'[j].at - 1, work', shared')
  <2> DEFINE m == stack[j].node
             found(k) == Long \cap Region(call, Parts[m][k].node)
  <2>1. m \in Nodes /\ stack'[j].node = m
    BY <1>1, <1>3
  <2>2. SUFFICES ASSUME NEW k \in DOMAIN Parts[m], k < stack'[j].at - 1,
                        TakenBy(call, m, Parts[m][k].role)
                 PROVE  /\ All(call.op, found(k) \cap Own(m), work')
                        /\ All(call.op, found(k) \ Own(m), shared')
    BY <1>4, <2>1 DEF AllBefore
  <2>3. k \in Nat
    BY <2>1, PartTyped
  <2>4. k < Behind(j)
    <3>1. CASE j = d
      <4>1. k < i
        BY <1>1, <2>2, <2>3, <3>1, PartTyped
      <4>2. Takes(n, Parts[n][k].role)
        BY <1>1, <2>2, <3>1 DEF Takes
      <4>3. ~(k >= stack[d].at)
        BY <1>1, <2>2, <3>1, <4>1, <4>2
      <4> QED BY <1>1, <1>3, <2>3, <3>1, <4>3 DEF Behind
    <3>2. CASE j # d
      <4>1. j \in 1..(d - 1)
        BY <3>2
      <4> QED BY <1>1, <2>2, <3>2, <4>1 DEF Behind
    <3> QED BY <3>1, <3>2
  <2>5. All(call.op, found(k) \cap Own(m), work) /\ All(call.op, found(k) \ Own(m), shared)
    BY <1>8, <2>2, <2>4 DEF AllBefore
  <2> DEFINE S == found(k) \cap Own(m)
  <2>6. CASE Kind[n] # "env"
    BY <1>4, <2>5, <2>6
  <2>7. CASE Kind[n] = "env"
    <3>1. S \cap Within(e) = {}
      BY <1>8, <2>7 DEF Own, Within
    <3>2. All(call.op, S, work)
      BY <2>5
    <3> HIDE DEF S
    <3>3. All(call.op, S, work')
      BY <1>4, <3>1, <3>2
    <3> QED BY <1>4, <2>5, <3>3 DEF S
  <2> QED BY <2>6, <2>7
<1>9. ASSUME NEW j \in 1..(d + 1)
      PROVE  AllBefore(call', stack'[j].node, Behind(j)', work', shared') \/ BegunAgain(j)'
  <2>1. CASE j = d + 1
    BY <1>1, <1>5, <2>1 DEF Behind
  <2>2. CASE j # d + 1
    <3>1. j \in 1..d
      BY <2>2
    <3>2. Behind(j)' = stack'[j].at - 1
      BY <1>1, <2>2 DEF Behind
    <3>3. AllBefore(call, stack[j].node, Behind(j), work, shared) \/ BegunAgain(j)
      BY <1>1, <3>1 DEF Visited
    <3> QED BY <1>6, <1>7, <1>8, <3>1, <3>2, <3>3
  <2> QED BY <2>1, <2>2
<1> QED BY <1>1, <1>9 DEF Visited

(* A function ends: the frame below has one more part converted, and those *)
(* that the call has begun again are converted as a whole.                 *)
LEMMA FinishVisits ==
  ASSUME ContTypeOK, StackIsAPath, ResultsAreAhead, Visited, Finish
  PROVE  Visited'
<1>1. PICK d \in Nat \ {0}, n \in Nodes :
        /\ d = Len(stack) /\ DOMAIN stack = 1..d /\ n = stack[d].node /\ Top = stack[d]
        /\ Len(stack') = d - 1 /\ DOMAIN stack' = 1..(d - 1)
        /\ \A j \in 1..(d - 1) : stack'[j] = stack[j]
  BY Pops
<1>2. ~Idle /\ Pending(Top) = {} /\ shared' = Bound(Converted(n))
  BY <1>1 DEF Finish
<1>3. /\ \A j \in 1..d : stack[j].node \in Nodes /\ stack[j].at \in Nat
      /\ call.op \in {"share", "unshare"} /\ call \in Calls
  BY <1>1, <1>2, TopTyped, AheadMeans DEF Frames
<1>4. /\ Ahead(call.op, work, Converted(n)) /\ Ahead(call.op, shared, shared')
      /\ Ahead(call.op, shared', Converted(n))
  BY <1>1, FinishIsAhead
<1>5. CASE d = 1
  <2>1. DOMAIN stack' = {}
    BY <1>1, <1>5
  <2> QED BY <2>1 DEF Visited
<1>6. CASE d # 1
  <2>1. work' = Converted(n) /\ call' = call
    BY <1>1, <1>6 DEF Finish
  <2>2. \A j \in 1..(d - 1) : j \in 1..d /\ j < d
    OBVIOUS
  <2>3. ASSUME NEW j \in 1..(d - 1), BegunAgain(j)
        PROVE  AllBefore(call', stack'[j].node, Behind(j)', work', shared') \/ BegunAgain(j)'
    <3> DEFINE m == stack[j].node
    <3>1. Kind[m] # "env"
      BY <2>3 DEF BegunAgain
    <3>2. PICK k \in 1..d : k > j /\ BindsAt(k) /\ stack[k].node = Anchor[m]
      BY <1>1, <2>3 DEF BegunAgain
    <3>3. CASE k # d
      <4>1. k \in 1..(d - 1) /\ (k = 1 \/ k - 1 \in 1..(d - 1))
        BY <3>2, <3>3
      <4> QED BY <1>1, <3>1, <3>2, <4>1 DEF BegunAgain, BindsAt
    <3>4. CASE k = d
      <4>1. m \in Nodes /\ n = Anchor[m] /\ m \in Region(call, n)
        BY <1>1, <1>3, <2>2, <3>1, <3>2, <3>4 DEF StackIsAPath
      <4>2. Binds
        BY <1>1, <3>2, <3>4 DEF Binds, BindsAt
      <4>3. All(call.op, Long \cap Region(call, n), shared')
        BY <1>1, <4>2, BoundIsDone
      <4>4. All(call.op, Long \cap Region(call, n), Converted(n))
        BY <1>4, <4>3, AllGrows
      <4>5. ASSUME NEW i \in DOMAIN Parts[m], TakenBy(call, m, Parts[m][i].role)
            PROVE  /\ All(call.op, Long \cap Region(call, Parts[m][i].node) \cap Own(m), Converted(n))
                   /\ All(call.op, (Long \cap Region(call, Parts[m][i].node)) \ Own(m), shared')
        <5>1. Parts[m][i].node \in Region(call, n)
          BY <1>3, <4>1, <4>5, RegionClosed
        <5>2. Region(call, Parts[m][i].node) \subseteq Region(call, n)
          BY <1>3, <5>1, RegionWithin
        <5> QED BY <4>3, <4>4, <5>2 DEF All
      <4>6. AllBefore(call, m, Behind(j)', Converted(n), shared')
        BY <4>5 DEF AllBefore
      <4> QED BY <1>1, <2>1, <4>6
    <3> QED BY <3>3, <3>4
  <2>4. ASSUME NEW j \in 1..(d - 1), AllBefore(call, stack[j].node, Behind(j), work, shared)
        PROVE  AllBefore(call', stack'[j].node, Behind(j)', work', shared')
    <3> DEFINE m == stack[j].node
    <3>1. m \in Nodes /\ stack[j].at \in Nat /\ stack'[j] = stack[j]
      BY <1>1, <1>3, <2>2
    <3>2. AllBefore(call, m, Behind(j), Converted(n), shared')
      BY <1>4, <2>4, AllBeforeGrows
    <3>3. SUFFICES ASSUME NEW i \in DOMAIN Parts[m], i < Behind(j)',
                          TakenBy(call, m, Parts[m][i].role)
                   PROVE  /\ All(call.op, Long \cap Region(call, Parts[m][i].node) \cap Own(m), Converted(n))
                          /\ All(call.op, (Long \cap Region(call, Parts[m][i].node)) \ Own(m), shared')
      BY <2>1, <3>1 DEF AllBefore
    <3>4. i \in Nat
      BY <3>1, PartTyped
    <3>5. Behind(j) = stack[j].at - 1
      BY <1>1, <2>2 DEF Behind
    <3>6. CASE i < Behind(j)
      BY <3>2, <3>3, <3>6 DEF AllBefore
    <3>7. CASE ~(i < Behind(j))
      <4>1. i = stack[j].at - 1 /\ j = d - 1
        BY <1>1, <3>1, <3>3, <3>4, <3>5, <3>7 DEF Behind
      <4>2. Parts[m][i].node = n /\ j + 1 = d
        BY <1>1, <4>1, PathStep
      <4> DEFINE S == Long \cap Region(call, n)
      <4>3. All(call.op, S \cap Own(m), Converted(n)) /\ All(call.op, S \ Own(m), shared')
        <5>1. CASE Kind[m] = "env"
          <6>1. Binds /\ Own(m) = {}
            BY <1>1, <4>1, <5>1 DEF Binds, Own
          <6>2. All(call.op, S, shared')
            BY <1>1, <6>1, BoundIsDone
          <6> HIDE DEF S
          <6> QED BY <6>1, <6>2 DEF All
        <5>2. CASE Kind[m] # "env"
          <6>1. All(call.op, S \cap Own(n), Converted(n)) /\ All(call.op, S \ Own(n), shared)
            BY <1>1, <1>2, TopIsDone
          <6>2. Own(n) = Own(m) \/ Own(n) = {}
            <7>1. Kind[n] # "env" => Anchor[n] = Anchor[m]
              BY <3>1, <4>2, <5>2, WhereBound
            <7> QED BY <5>2, <7>1 DEF Own
          <6> HIDE DEF S
          <6>3. All(call.op, S \ Own(n), shared') /\ All(call.op, S \ Own(n), Converted(n))
            <7>1. All(call.op, S \ Own(n), shared')
              BY <1>4, <6>1, AllGrows
            <7> QED BY <1>4, <7>1, AllGrows
          <6>4. All(call.op, S \cap Own(m), Converted(n))
            BY <6>1, <6>2, <6>3 DEF All
          <6>5. All(call.op, S \ Own(m), shared')
            BY <6>2, <6>3 DEF All
          <6> QED BY <6>4, <6>5
        <5> QED BY <5>1, <5>2
      <4> QED BY <4>2, <4>3
    <3> QED BY <3>6, <3>7
  <2>5. ASSUME NEW j \in 1..(d - 1)
        PROVE  AllBefore(call', stack'[j].node, Behind(j)', work', shared') \/ BegunAgain(j)'
    <3>1. AllBefore(call, stack[j].node, Behind(j), work, shared) \/ BegunAgain(j)
      BY <1>1, <2>2 DEF Visited
    <3> QED BY <2>3, <2>4, <3>1
  <2> QED BY <1>1, <2>5 DEF Visited
<1> QED BY <1>5, <1>6

(* Every step.                                                             *)
LEMMA VisitsStep ==
  ASSUME ContTypeOK, StackIsAPath, ResultsAreAhead, VisitedIsDone, [ContNext]_contVars
  PROVE  VisitedIsDone'
<1>1. Visited
  BY VisitedMeans
<1>2. CASE \E c \in Calls, r \in Roots, must \in BOOLEAN : Start(c, r, must)
  <2>1. PICK c \in Calls, r \in Roots, must \in BOOLEAN : Start(c, r, must)
    BY <1>2
  <2>2. /\ r \in Nodes /\ Len(stack') = 1 /\ DOMAIN stack' = {1}
        /\ stack'[1].node = r /\ stack'[1].at = 1
    BY <2>1, Starts, FrameTyped
  <2>3. \A i \in DOMAIN Parts[r] : ~(i < 1)
    BY <2>2, PartTyped
  <2>4. Visited'
    BY <2>2, <2>3 DEF Visited, AllBefore, Behind
  <2> QED BY <2>4, VisitedMeansNext
<1>3. CASE UNCHANGED <<shared, work, bare, call, stack>> /\ option' \in BOOLEAN
  <2>1. Visited'
    BY <1>1, <1>3 DEF Visited, Behind, BegunAgain, BindsAt
  <2> QED BY <2>1, VisitedMeansNext
<1>4. CASE Unwind
  <2>1. DOMAIN stack' = {}
    BY <1>4 DEF Unwind
  <2> QED BY <2>1, VisitedMeansNext DEF Visited
<1> QED BY <1>1, <1>2, <1>3, <1>4, ContSteps, DescendVisits, FinishVisits, VisitedMeansNext

(* Only the end of a function binds anything, and by then all that it      *)
(* binds has been converted.                                               *)
LEMMA BindingsStep ==
  ASSUME ContTypeOK, StackIsAPath, ResultsAreAhead, VisitedIsDone, BindingsAreAtomic,
         [ContNext]_contVars
  PROVE  BindingsAreAtomic'
<1>1. ASSUME Finish, NEW m \in Nodes
      PROVE  LET vectors == {x \in Long \ Aside : Anchor[x] = m}
             IN vectors \subseteq shared' \/ vectors \cap shared' = {}
  <2> DEFINE vectors == {x \in Long \ Aside : Anchor[x] = m}
  <2>1. vectors \subseteq shared \/ vectors \cap shared = {}
    BY DEF BindingsAreAtomic
  <2>2. ~Idle /\ shared' = Bound(Converted(Top.node))
    BY <1>1 DEF Finish
  <2>3. call \in Calls
    BY <2>2, AheadMeans
  <2>4. CASE Binds /\ m = Top.node
    <3>1. All(call.op, Long \cap Region(call, m), shared')
      BY <1>1, <2>4, BoundIsDone, VisitedMeans
    <3>2. vectors \subseteq Long \cap Region(call, m)
      BY <2>3, VectorsFound
    <3> QED BY <3>1, <3>2 DEF All
  <2>5. CASE Binds /\ m # Top.node
    <3>1. vectors \cap Within(Top.node) = {}
      BY <2>5 DEF Within
    <3>2. shared' = (shared \ Within(Top.node)) \cup (Converted(Top.node) \cap Within(Top.node))
      BY <2>2, <2>5 DEF Bound
    <3>3. vectors \subseteq shared' \/ vectors \cap shared' = {}
      <4> HIDE DEF vectors
      <4> QED BY <2>1, <3>1, <3>2
    <3> QED BY <3>3
  <2>6. CASE ~Binds
    BY <2>1, <2>2, <2>6 DEF Bound
  <2> QED BY <2>4, <2>5, <2>6
<1>2. CASE Finish
  BY <1>1, <1>2 DEF BindingsAreAtomic
<1>3. CASE shared' = shared
  BY <1>3 DEF BindingsAreAtomic
<1>4. Finish \/ shared' = shared
  <2>1. \A c \in Calls, r \in Roots, must \in BOOLEAN : Start(c, r, must) => shared' = shared
    BY DEF Start
  <2>2. Descend \/ Unwind => shared' = shared
    BY DEF Descend, Unwind
  <2> QED BY <2>1, <2>2, ContSteps
<1> QED BY <1>2, <1>3, <1>4

----------------------------------------------------------------------------
(* With mustWork nothing that cannot be shared is left out                 *)

(* An object whose elements are sharable is, if it is itself.              *)
LEMMA SharableParts ==
  ASSUME NEW n \in Nodes, Kind[n] # "other",
         n \notin S4Data => \A i \in DOMAIN Parts[n] :
                              Parts[n][i].role = "elt" => Parts[n][i].node \in Sharable
  PROVE  n \in Sharable
<1> DEFINE next == [m \in Nodes |-> IF m \in S4Data THEN {}
                                    ELSE {p.node : p \in {q \in PartsOf(m) : q.role \in {"elt"}}}]
           X == {m \in Nodes : Kind[m] # "other"
                               /\ (m = n \/ \E k \in next[n] : m \in Reachable(k, next))}
<1>1. next \in Successors
  <2> HIDE DEF next
  <2> QED BY SuccessorsTyped DEF next
<1>2. \A m : Reached(m, {"elt"}, S4Data) = Reachable(m, next)
  BY DEF Reached
<1>3. \A k \in next[n] : k \in Nodes /\ \A m \in Reachable(k, next) : Kind[m] # "other"
  <2> SUFFICES ASSUME NEW k \in next[n]
               PROVE  k \in Nodes /\ \A m \in Reachable(k, next) : Kind[m] # "other"
    OBVIOUS
  <2>1. k \in Sharable
    BY DEF PartsOf
  <2> HIDE DEF next
  <2> QED BY <1>2, <2>1 DEF Sharable
<1> HIDE DEF next
<1>4. ASSUME NEW m \in X
      PROVE  next[m] \subseteq X
  <2>1. CASE m = n
    <3>1. \A k \in next[n] : k \in Nodes /\ k \in Reachable(k, next)
      BY <1>1, <1>3, ReachableClosed
    <3> QED BY <1>3, <2>1, <3>1
  <2>2. CASE m # n
    <3>1. PICK k \in next[n] : m \in Reachable(k, next)
      BY <2>2
    <3>2. k \in Nodes /\ next[m] \subseteq Reachable(k, next) /\ Reachable(k, next) \subseteq Nodes
      BY <1>1, <1>3, <3>1, ReachableClosed
    <3> QED BY <1>3, <3>1, <3>2
  <2> QED BY <2>1, <2>2
<1>5. n \in X
  OBVIOUS
<1> HIDE DEF X
<1>6. Reachable(n, next) \subseteq X
  BY <1>1, <1>4, <1>5, ReachableLeast
<1>7. \A m \in X : Kind[m] # "other"
  BY DEF X
<1> QED BY <1>2, <1>6, <1>7 DEF Sharable

(* So it is at the end of a frame with mustWork, and for objects whose S4  *)
(* bit the caller keeps mustWork from.                                     *)
LEMMA TopIsSharable ==
  ASSUME ContTypeOK, MustIsKept, Finish, Top.must \/ Top.node \in S4Data
  PROVE  Top.node \in Sharable
<1>1. ~Idle /\ Pending(Top) = {} /\ ~Rejected(Top)
  BY DEF Finish
<1>2. /\ Len(stack) \in Nat \ {0} /\ DOMAIN stack = 1..Len(stack)
      /\ Top = stack[Len(stack)] /\ stack[Len(stack)] \in Frames
  BY <1>1, TopTyped
<1>3. Top.node \in Nodes /\ Top.at \in Nat
  BY <1>2 DEF Frames
<1>4. Kind[Top.node] # "other"
  BY <1>1, ContainerAssumption DEF Rejected
<1>5. ASSUME Top.node \notin S4Data, NEW i \in DOMAIN Parts[Top.node],
             Parts[Top.node][i].role = "elt"
      PROVE  Parts[Top.node][i].node \in Sharable
  <2>1. Takes(Top.node, Parts[Top.node][i].role)
    BY <1>5 DEF Takes, TakenBy
  <2>2. Len(Parts[Top.node]) \in Nat /\ DOMAIN Parts[Top.node] = 1..Len(Parts[Top.node])
    BY <1>3, PartTyped
  <2>3. i < Top.at
    BY <1>1, <1>3, <2>1, <2>2 DEF Pending
  <2>4. i < Behind(Len(stack))
    BY <1>2, <2>3 DEF Behind
  <2>5. Len(stack) \in DOMAIN stack
    BY <1>2
  <2> QED BY <1>2, <1>5, <2>4, <2>5 DEF MustIsKept
<1> QED BY <1>3, <1>4, <1>5, SharableParts

(* mustWork is kept down to what the call is in.                           *)
LEMMA MustKeeps ==
  ASSUME ContTypeOK, StackIsAPath, MustIsKept, [ContNext]_contVars
  PROVE  MustIsKept'
<1>1. CASE \E c \in Calls, r \in Roots, must \in BOOLEAN : Start(c, r, must)
  <2>1. PICK c \in Calls, r \in Roots, must \in BOOLEAN : Start(c, r, must)
    BY <1>1
  <2>2. /\ r \in Nodes /\ Len(stack') = 1 /\ DOMAIN stack' = {1}
        /\ stack'[1].node = r /\ stack'[1].at = 1
    BY <2>1, Starts, FrameTyped
  <2>3. \A i \in DOMAIN Parts[r] : ~(i < 1)
    BY <2>2, PartTyped
  <2> QED BY <2>2, <2>3 DEF MustIsKept, Behind
<1>2. CASE UNCHANGED <<shared, work, bare, call, stack>> /\ option' \in BOOLEAN
  BY <1>2 DEF MustIsKept, Behind
<1>3. CASE Descend
  <2>0. PICK d \in Nat \ {0}, n \in Nodes, i \in Nat, must \in BOOLEAN : Descended(d, n, i, must)
    BY <1>3, Descends
  <2> DEFINE e == Parts[n][i].node
  <2>1. /\ d = Len(stack) /\ DOMAIN stack = 1..d /\ n = stack[d].node
        /\ i \in DOMAIN Parts[n] /\ i >= stack[d].at
        /\ \A k \in DOMAIN Parts[n] : k >= stack[d].at /\ k < i => ~Takes(n, Parts[n][k].role)
        /\ e \in Nodes
        /\ must <=> stack[d].must /\ Parts[n][i].role = "elt"
        /\ Len(stack') = d + 1 /\ DOMAIN stack' = 1..(d + 1)
        /\ \A j \in 1..(d - 1) : stack'[j] = stack[j]
        /\ \A j \in 1..d : stack'[j].node = stack[j].node /\ stack'[j].must = stack[j].must
        /\ stack'[d].at = i + 1
        /\ stack'[d + 1] = Frame(e, must)
    BY <2>0 DEF Descended
  <2>2. /\ stack'[d + 1].node = e /\ stack'[d + 1].at = 1
        /\ must => stack'[d + 1].must \/ stack'[d + 1].node \in S4Data
    BY <2>1, FrameTyped
  <2>3. \A j \in 1..d : stack[j].node \in Nodes /\ stack[j].at \in Nat
    BY <1>3, <2>1, TopTyped DEF Frames, Descend
  <2> HIDE DEF e
  <2>4. ASSUME NEW j \in 1..(d + 1), stack'[j].must, stack'[j].node \notin S4Data,
               NEW k \in DOMAIN Parts[stack'[j].node],
               Parts[stack'[j].node][k].role = "elt"
        PROVE  /\ k < Behind(j)' => Parts[stack'[j].node][k].node \in Sharable
               /\ j < d + 1 /\ k = Behind(j)' =>
                    stack'[j + 1].must \/ stack'[j + 1].node \in S4Data
    <3>1. CASE j = d + 1
      <4>1. Behind(j)' = 1
        BY <2>1, <2>2, <3>1 DEF Behind
      <4>2. ~(k < 1)
        BY <2>1, <2>2, <2>4, <3>1, PartTyped
      <4> QED BY <3>1, <4>1, <4>2
    <3>2. CASE j = d
      <4>1. Behind(j)' = i /\ k \in Nat
        <5>1. Behind(j)' = stack'[d].at - 1
          BY <2>1, <3>2 DEF Behind
        <5> QED BY <2>1, <2>3, <2>4, <3>2, <5>1, PartTyped
      <4>2. ASSUME k < i PROVE Parts[n][k].node \in Sharable
        <5>1. Takes(n, Parts[n][k].role)
          BY <2>1, <2>4, <3>2 DEF Takes, TakenBy
        <5>2. k < stack[d].at
          BY <2>1, <2>3, <2>4, <3>2, <4>1, <4>2, <5>1
        <5>3. k < Behind(d)
          BY <2>1, <5>2 DEF Behind
        <5> QED BY <2>1, <2>4, <3>2, <5>3 DEF MustIsKept
      <4>3. ASSUME k = i PROVE stack'[j + 1].must \/ stack'[j + 1].node \in S4Data
        <5>1. must
          BY <2>1, <2>4, <3>2, <4>3
        <5> QED BY <2>2, <3>2, <5>1
      <4> QED BY <2>1, <3>2, <4>1, <4>2, <4>3
    <3>3. CASE j \in 1..(d - 1)
      <4>1. j \in 1..d /\ j + 1 \in 1..d /\ j < d
        BY <3>3
      <4>2. Behind(j)' = Behind(j)
        BY <2>1, <3>3, <4>1 DEF Behind
      <4>3. /\ stack'[j] = stack[j] /\ stack'[j + 1].must = stack[j + 1].must
            /\ stack'[j + 1].node = stack[j + 1].node
        BY <2>1, <3>3, <4>1
      <4>4. /\ stack[j].must /\ stack[j].node \notin S4Data
            /\ k \in DOMAIN Parts[stack[j].node] /\ Parts[stack[j].node][k].role = "elt"
        BY <2>4, <4>3
      <4>5. /\ k < Behind(j) => Parts[stack[j].node][k].node \in Sharable
            /\ k = Behind(j) => stack[j + 1].must \/ stack[j + 1].node \in S4Data
        BY <2>1, <4>1, <4>4 DEF MustIsKept
      <4> QED BY <4>2, <4>3, <4>5
    <3>4. j = d + 1 \/ j = d \/ j \in 1..(d - 1)
      OBVIOUS
    <3> QED BY <3>1, <3>2, <3>3, <3>4
  <2> QED BY <2>1, <2>4 DEF MustIsKept
<1>4. CASE Finish
  <2>1. PICK d \in Nat \ {0}, n \in Nodes :
          /\ d = Len(stack) /\ DOMAIN stack = 1..d /\ n = stack[d].node /\ Top = stack[d]
          /\ Len(stack') = d - 1 /\ DOMAIN stack' = 1..(d - 1)
          /\ \A j \in 1..(d - 1) : stack'[j] = stack[j]
    BY <1>4, Pops
  <2>2. \A j \in 1..d : stack[j].node \in Nodes /\ stack[j].at \in Nat
    BY <1>4, <2>1, TopTyped DEF Frames, Finish
  <2>3. ASSUME NEW j \in 1..(d - 1), stack[j].must, stack[j].node \notin S4Data,
               NEW k \in DOMAIN Parts[stack[j].node],
               Parts[stack[j].node][k].role = "elt"
        PROVE  /\ k < Behind(j)' => Parts[stack[j].node][k].node \in Sharable
               /\ j < d - 1 /\ k = Behind(j)' =>
                    stack'[j + 1].must \/ stack'[j + 1].node \in S4Data
    <3>1. j \in 1..d /\ j < d
      OBVIOUS
    <3>2. k \in Nat /\ stack[j].at \in Nat
      BY <2>2, <2>3, <3>1, PartTyped
    <3>3. Behind(j) = stack[j].at - 1
      BY <2>1, <3>1 DEF Behind
    <3>4. /\ k < Behind(j) => Parts[stack[j].node][k].node \in Sharable
          /\ k = Behind(j) => stack[j + 1].must \/ stack[j + 1].node \in S4Data
      BY <2>1, <2>3, <3>1 DEF MustIsKept
    <3>5. CASE j < d - 1
      <4>1. Behind(j)' = Behind(j) /\ stack'[j + 1] = stack[j + 1]
        BY <2>1, <3>1, <3>3, <3>5 DEF Behind
      <4> QED BY <3>4, <4>1
    <3>6. CASE ~(j < d - 1)
      <4>1. j + 1 = d /\ Behind(j)' = stack[j].at
        BY <2>1, <3>6 DEF Behind
      <4>2. ASSUME k = Behind(j) PROVE Parts[stack[j].node][k].node \in Sharable
        <5>1. Parts[stack[j].node][k].node = n
          BY <2>1, <3>3, <4>1, <4>2, PathStep
        <5>2. Top.must \/ Top.node \in S4Data
          BY <2>1, <3>4, <4>1, <4>2
        <5> QED BY <1>4, <2>1, <5>1, <5>2, TopIsSharable
      <4>3. k < stack[j].at => k < Behind(j) \/ k = Behind(j)
        BY <3>2, <3>3
      <4> QED BY <3>4, <3>6, <4>1, <4>2, <4>3
    <3> QED BY <3>5, <3>6
  <2> QED BY <2>1, <2>3 DEF MustIsKept
<1>5. CASE Unwind
  <2>1. DOMAIN stack' = {}
    BY <1>5 DEF Unwind
  <2> QED BY <2>1 DEF MustIsKept
<1> QED BY <1>1, <1>2, <1>3, <1>4, <1>5, ContSteps

----------------------------------------------------------------------------
(* Theorems                                                                *)

(* The initial state.                                                      *)
LEMMA ContInitHolds ==
  ASSUME ContInit
  PROVE  ContIInv
<1>1. DOMAIN stack = {} /\ Len(stack) = 0 /\ stack \in Seq(Frames) /\ Idle
  BY DEF ContInit, Idle
<1>2. call \in [op : {"none", "share", "unshare"}, attrs : BOOLEAN] /\ call.op = "none"
  BY DEF ContInit, NoCall
<1>3. ContTypeOK
  BY <1>1, <1>2 DEF ContInit, ContTypeOK, Frames
<1>4. StackIsAPath /\ MustIsInherited /\ MustIsKept /\ VisitedIsDone
  BY <1>1 DEF StackIsAPath, MustIsInherited, MustIsKept, VisitedIsDone
<1>5. BindingsAreAtomic /\ ResultsAreAhead /\ FixedAreNotShared
  BY <1>2 DEF ContInit, BindingsAreAtomic, ResultsAreAhead, FixedAreNotShared
<1> QED BY <1>3, <1>4, <1>5 DEF ContIInv

(* Every step.                                                             *)
LEMMA ContIInvKeeps ==
  ASSUME ContIInv, [ContNext]_contVars
  PROVE  ContIInv'
BY ContTypeKeeps, PathKeeps, BitsStep, MustKeeps, AheadKeeps, FixedKeeps, VisitsStep,
   BindingsStep DEF ContIInv

(* The inductive invariant, for any objects, calls and errors: what every  *)
(* frame of a call in progress knows about what lies behind it.            *)
THEOREM ContInductiveInvariant == ContSpec => []ContIInv
BY ContInitHolds, ContIInvKeeps, PTL DEF ContSpec

(* share and unshare never leave the vectors of a variable, or of an       *)
(* element of an environment, half converted: not while they run, not when *)
(* they fail, and not where environments contain each other.               *)
THEOREM BindingsNeverHalfConverted == ContSpec => []BindingsAreAtomic
<1>1. ContIInv => BindingsAreAtomic
  BY DEF ContIInv
<1> QED BY <1>1, ContInductiveInvariant, PTL

(* What the last function of a call has when it returns.                   *)
LEMMA ReturnIsDone ==
  ASSUME ContIInv, Finish, Len(stack) = 1
  PROVE  /\ call \in Calls /\ stack[1].node \in Nodes /\ Top = stack[1]
         /\ All(call.op, Long \cap Region(call, stack[1].node), shared')
<1>1. ContTypeOK /\ StackIsAPath /\ ResultsAreAhead /\ Visited
  BY VisitedMeans DEF ContIInv
<1>2. ~Idle /\ Binds
  BY DEF Finish, Binds
<1>3. Top = stack[1] /\ stack[1] \in Frames /\ call \in Calls
  BY <1>1, <1>2, TopTyped, AheadMeans
<1>4. All(call.op, Long \cap Region(call, stack[1].node), shared')
  BY <1>1, <1>2, <1>3, BoundIsDone
<1> QED BY <1>3, <1>4 DEF Frames

(* What is reached by roles that a call enters, and by a class, names or   *)
(* levels, it finds.                                                       *)
LEMMA ReachedIsFound ==
  ASSUME NEW c \in Calls, NEW r \in Nodes, NEW roles,
         \A n \in Nodes, role \in roles : TakenBy(c, n, role) \/ role = "fixed"
  PROVE  Reached(r, roles, {})
           \subseteq Region(c, r) \cup {n \in FixedLeaves : "fixed" \in roles}
<1> DEFINE next == [n \in Nodes |-> IF n \in {} THEN {}
                                    ELSE {p.node : p \in {q \in PartsOf(n) : q.role \in roles}}]
           X == Region(c, r) \cup {n \in FixedLeaves : "fixed" \in roles}
<1>1. next \in Successors
  <2> HIDE DEF next
  <2> QED BY SuccessorsTyped DEF next
<1>2. r \in X /\ X \subseteq Nodes
  BY RegionClosed DEF FixedLeaves
<1>3. ASSUME NEW n \in X, NEW p \in PartsOf(n), p.role \in roles
      PROVE  p.node \in X
  <2>1. CASE n \in FixedLeaves
    BY <1>3, <2>1, ContainerAssumption DEF FixedLeaves
  <2>2. CASE p.role = "fixed"
    <3>1. n \in Nodes /\ p.node \in Nodes
      BY <1>2, PartTyped DEF PartsOf
    <3> QED BY <1>3, <2>2, <3>1 DEF FixedLeaves
  <2>3. CASE n \in Region(c, r) /\ p.role # "fixed"
    <3>1. n \in Nodes /\ TakenBy(c, n, p.role)
      BY <1>2, <1>3, <2>3
    <3>2. PICK i \in DOMAIN Parts[n] : p = Parts[n][i]
      BY DEF PartsOf
    <3> QED BY <2>3, <3>1, <3>2, RegionClosed
  <2> QED BY <2>1, <2>2, <2>3
<1>4. \A n \in X : next[n] \subseteq X
  <2> SUFFICES ASSUME NEW n \in X, NEW m \in next[n] PROVE m \in X
    OBVIOUS
  <2>1. PICK p \in PartsOf(n) : p.role \in roles /\ m = p.node
    BY <1>2
  <2> QED BY <1>3, <2>1
<1> HIDE DEF X, next
<1>5. Reachable(r, next) \subseteq X
  BY <1>1, <1>2, <1>4, ReachableLeast
<1> QED BY <1>5 DEF Reached, X, next

(* A successful share has shared every vector of at least minLength        *)
(* elements that its arguments say it enters, at any depth and behind any  *)
(* environments, and with mustWork it has skipped no element.              *)
THEOREM ShareReachesAll == ContSpec => ShareIsComplete
<1> DEFINE Complete ==
             LET r == stack[1].node
                 roles == {"elt", "slot"} \cup IF call.attrs THEN {"attr"} ELSE {}
             IN /\ Long \cap Reached(r, roles, {}) \subseteq shared'
                /\ stack[1].must =>
                     \A n \in Reached(r, {"elt"}, S4Data) : Kind[n] # "other"
<1>1. ASSUME ContIInv, ContIInv', Returns("share")
      PROVE  Complete
  <2> DEFINE r == stack[1].node
             roles == {"elt", "slot"} \cup IF call.attrs THEN {"attr"} ELSE {}
  <2>1. Finish /\ Len(stack) = 1 /\ call.op = "share"
    BY <1>1 DEF Returns
  <2>2. /\ call \in Calls /\ r \in Nodes /\ Top = stack[1]
        /\ Long \cap Region(call, r) \subseteq shared'
    BY <1>1, <2>1, ReturnIsDone DEF All
  <2>3. "fixed" \notin roles /\ \A n \in Nodes, role \in roles : TakenBy(call, n, role)
    BY DEF TakenBy
  <2>4. Reached(r, roles, {}) \subseteq Region(call, r)
    <3> HIDE DEF r, roles
    <3> QED BY <2>2, <2>3, ReachedIsFound
  <2>5. stack[1].must => r \in Sharable
    BY <1>1, <2>1, <2>2, TopIsSharable DEF ContIInv
  <2>6. stack[1].must => \A n \in Reached(r, {"elt"}, S4Data) : Kind[n] # "other"
    <3> HIDE DEF r
    <3> QED BY <2>5 DEF Sharable
  <2> QED BY <2>2, <2>4, <2>6
<1>2. ContIInv /\ ContIInv' /\ [ContNext]_contVars => [Returns("share") => Complete]_contVars
  BY <1>1
<1> QED BY <1>2, ContInductiveInvariant, PTL DEF ContSpec, ShareIsComplete

(* A successful unshare has unshared all that is found from the object: if *)
(* the package option says so, its attributes as well.                     *)
THEOREM UnshareReachesAll == ContSpec => UnshareIsComplete
<1> DEFINE Complete ==
             LET roles == {"elt", "slot"} \cup IF option THEN {"attr", "fixed"} ELSE {}
             IN shared' \cap Reached(stack[1].node, roles, {}) = {}
<1>1. ASSUME ContIInv, ContIInv', Returns("unshare")
      PROVE  Complete
  <2> DEFINE r == stack[1].node
             roles == {"elt", "slot"} \cup IF option THEN {"attr", "fixed"} ELSE {}
  <2>1. Finish /\ Len(stack) = 1 /\ call.op = "unshare"
    BY <1>1 DEF Returns
  <2>2. /\ call \in Calls /\ r \in Nodes
        /\ (Long \cap Region(call, r)) \cap shared' = {}
    BY <1>1, <2>1, ReturnIsDone DEF All
  <2>3. call.attrs = option
    BY <1>1, <2>1 DEF ContIInv, ResultsAreAhead
  <2>4. \A n \in Nodes, role \in roles : TakenBy(call, n, role) \/ role = "fixed"
    BY <2>3 DEF TakenBy
  <2>5. Reached(r, roles, {}) \subseteq Region(call, r) \cup FixedLeaves
    <3> HIDE DEF r, roles
    <3> QED BY <2>2, <2>4, ReachedIsFound
  <2>6. shared' \subseteq Long /\ shared' \cap FixedLeaves = {}
    BY <1>1 DEF ContIInv, ContTypeOK, FixedAreNotShared
  <2> QED BY <2>2, <2>5, <2>6
<1>2. ContIInv /\ ContIInv' /\ [ContNext]_contVars => [Returns("unshare") => Complete]_contVars
  BY <1>1
<1> QED BY <1>2, ContInductiveInvariant, PTL DEF ContSpec, UnshareIsComplete

(* An object with the S4 bit that cannot be shared, at any depth, with or  *)
(* without mustWork, never costs the caller's own objects their S4 bit:    *)
(* only a lack of memory and endless nesting do.                           *)
THEOREM S4BitIsKept == ContSpec => S4BitKept
<1>1. ContIInv /\ [ContNext]_contVars => [Lost' # Lost => OutOfMemory \/ TooDeep]_contVars
  BY BitsStep DEF ContIInv
<1> QED BY <1>1, ContInductiveInvariant, PTL DEF ContSpec, S4BitKept

=============================================================================
