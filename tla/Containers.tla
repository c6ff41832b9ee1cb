----------------------------- MODULE Containers -----------------------------
(***************************************************************************)
(* share and unshare of containers (src/R/share.R, share-commonFuncs.R,    *)
(* unshare.R): one R session walks through lists, environments, S4 objects *)
(* and attributes and converts the vectors it meets.  Lists and S4 objects *)
(* are values: what a call makes of them is bound when it returns, or when *)
(* the element of an environment it belongs to is assigned.  Environments  *)
(* and the S4 bit of an object with data are changed in place, and stay    *)
(* changed when the call ends in an error.                                 *)
(*                                                                         *)
(* The structure never changes, so objects are nodes of a constant graph,  *)
(* and the state says which vectors are shared.                            *)
(***************************************************************************)
EXTENDS Integers, Sequences, FiniteSets, FiniteSetsExt, SequencesExt

CONSTANTS
  Roots,   \* the objects users call share and unshare on
  Kind,    \* of every node: atom, list, env, s4 (slots only), other
  Parts,   \* of every node: its parts, as [role, node], in the code's order
  Anchor,  \* the binding a node is a value of: a root, or a part of an env
  Aside,   \* the nodes within attributes
  S4Data,  \* atoms and lists with the S4 bit
  Long,    \* the atoms of at least minLength elements
  Limit    \* bound: the calls R lets be nested

Nodes == DOMAIN Kind
Atoms == {n \in Nodes : Kind[n] = "atom"}
PartsOf(n) == {Parts[n][i] : i \in DOMAIN Parts[n]}

Within(m) == {n \in Nodes : Anchor[n] = m}

(* What is found from r by following next.                                 *)
Reachable(r, next) ==
  LET reach[k \in 0..Cardinality(Nodes)] ==
        IF k = 0 THEN {r}
        ELSE LET S == reach[k - 1] IN S \cup UNION {next[n] : n \in S}
  IN reach[Cardinality(Nodes)]

(* The elements of a value, at any depth, but not those of environments.   *)
ElementOf(n, p) ==
  Kind[n] # "env" /\ p.role \in {"elt", "slot"} /\ Kind[p.node] # "env"
Elements == [n \in Nodes |-> {p.node : p \in {q \in PartsOf(n) : ElementOf(n, q)}}]

(* Values are trees, and are found from where they are bound; only         *)
(* environments are at several places.  The class, names and levels of an  *)
(* object are plain vectors.                                               *)
ASSUME ContainerAssumption ==
  /\ IsFiniteSet(Nodes)
  /\ Roots \subseteq Nodes /\ Long \subseteq Atoms /\ Limit \in Nat \ {0}
  /\ Parts \in [Nodes -> Seq([role : {"elt", "attr", "fixed", "slot"}, node : Nodes])]
  /\ \A n \in S4Data : n \in Nodes /\ Kind[n] \in {"atom", "list"}
  /\ \A r \in Roots : Anchor[r] = r
  /\ \A n \in Nodes : Anchor[n] \in Nodes
  /\ \A n \in Long \ Aside : n \in Reachable(Anchor[n], Elements)
  /\ \A n \in Nodes : \A p \in PartsOf(n) :
       Kind[p.node] # "env" =>
         /\ Anchor[p.node] = IF Kind[n] = "env" THEN p.node ELSE Anchor[n]
         /\ p.node \in Aside <=>
              p.role \in {"attr", "fixed"} \/ (Kind[n] # "env" /\ n \in Aside)
  /\ \A n \in Nodes : \A p \in PartsOf(n) :
       p.role = "fixed" =>
         /\ Kind[p.node] = "atom" /\ PartsOf(p.node) = {} /\ p.node \notin Roots
         /\ \A m \in Nodes : \A q \in PartsOf(m) : q.node = p.node => q.role = "fixed"

VARIABLES
  shared,  \* the atoms that are shared in what is bound
  work,    \* the same in the results of the call in progress, if any
  bare,    \* the objects whose S4 bit is off
  call,    \* its function and whether it enters attributes, or NoCall
  stack,   \* the objects it is in: [node, at: next part, must, s4]
  option   \* the package option sharedAttributes

contVars == <<shared, work, bare, call, stack, option>>

NoCall == [op |-> "none", attrs |-> FALSE]

----------------------------------------------------------------------------
(* What a call visits.  The class, names and levels are left out, but not  *)
(* where attributes are handled as a list: those of environments, and in   *)
(* unshareAtomic.                                                          *)

Calls == [op : {"share", "unshare"}, attrs : BOOLEAN]

TakenBy(c, n, role) ==
  \/ role \in {"elt", "slot"}
  \/ role = "attr" /\ c.attrs
  \/ c.op = "unshare" /\ Kind[n] = "atom"

MutTakes(n, role) == role \in {"elt", "slot"}  \* doAttributes is forgotten
Takes(n, role) == TakenBy(call, n, role)

Pending(f) ==
  {i \in f.at..Len(Parts[f.node]) : Takes(f.node, Parts[f.node][i].role)}

MutMustBelow(n, must) == must  \* doS4 calls share instead of tryShare
MustBelow(n, must) == must /\ n \notin S4Data \ bare

(* share(x) or tryShare(x): a frame, and C_UNSETS4. *)
Frame(n, must) ==
  [node |-> n, at |-> 1, must |-> MustBelow(n, must), s4 |-> n \in S4Data \ bare]

Unset(n) == bare' = IF n \in S4Data THEN bare \cup {n} ELSE bare

Idle == stack = <<>>
Top == Last(stack)

----------------------------------------------------------------------------

ContInit ==
  /\ shared = {} /\ work = {} /\ bare = {}
  /\ call = NoCall
  /\ stack = <<>>
  /\ option = TRUE

SetOption ==
  Idle /\ option' = ~option /\ UNCHANGED <<shared, work, bare, call, stack>>

Start(c, r, must) ==
  /\ Idle
  /\ call' = c
  /\ work' = shared
  /\ stack' = <<Frame(r, must)>>
  /\ Unset(r)
  /\ UNCHANGED <<shared, option>>

(* x <- share(x, sharedAttributes = attrs, mustWork = must) *)
Share(r, attrs, must) == Start([op |-> "share", attrs |-> attrs], r, must)

(* x <- unshare(x): whether attributes of lists and environments are       *)
(* entered is the package option.                                          *)
Unshare(r) == Start([op |-> "unshare", attrs |-> option], r, FALSE)

(* The next element, attribute or slot.  mustWork is handed on to elements *)
(* only; an element of an environment is read as it is bound.              *)
Descend ==
  /\ ~Idle
  /\ Pending(Top) # {}
  /\ Len(stack) < Limit
  /\ LET i == Min(Pending(Top))
         p == Parts[Top.node][i]
     IN /\ stack' = Append([stack EXCEPT ![Len(stack)].at = i + 1],
                           Frame(p.node, Top.must /\ p.role = "elt"))
        /\ Unset(p.node)
        /\ work' = IF Kind[Top.node] = "env"
                   THEN (work \ Within(p.node)) \cup (shared \cap Within(p.node))
                   ELSE work
  /\ UNCHANGED <<shared, call, option>>

(* promptError *)
Rejected(f) == Kind[f.node] = "other" /\ f.must

MutConverted(n) ==  \* C_isShared does not look through R's wrappers
  IF n \notin Atoms \/ (call.op = "unshare" /\ n \in S4Data) THEN work
  ELSE IF call.op = "unshare" THEN work \ {n}
  ELSE IF n \in Long THEN work \cup {n}
  ELSE work
Converted(n) ==
  IF n \notin Atoms THEN work
  ELSE IF call.op = "unshare" THEN work \ {n}
  ELSE IF n \in Long THEN work \cup {n}
  ELSE work

(* The result is bound: x <- ..., or x[[i]] <- ... of an environment. *)
Binds ==
  Len(stack) = 1 \/ Kind[stack[Len(stack) - 1].node] = "env"

MutBound(result) == result  \* doList assigns to the caller's list
Bound(result) ==
  LET W == Within(Top.node)
  IN IF Binds THEN (shared \ W) \cup (result \cap W) ELSE shared

(* The end of the function: C_createSharedObjectFromSource or C_unshare of *)
(* an atom, C_SETS4.                                                       *)
Finish ==
  /\ ~Idle
  /\ Pending(Top) = {} /\ ~Rejected(Top)
  /\ shared' = Bound(Converted(Top.node))
  /\ bare' = IF Top.s4 THEN bare \ {Top.node} ELSE bare
  /\ stack' = Front(stack)
  /\ IF Len(stack) = 1
     THEN work' = {} /\ call' = NoCall
     ELSE work' = Converted(Top.node) /\ UNCHANGED call
  /\ UNCHANGED option

(* An error leaves all functions; nothing restores what it finds changed. *)
Unwind ==
  /\ stack' = <<>>
  /\ work' = {} /\ call' = NoCall
  /\ UNCHANGED <<shared, bare, option>>

Unsharable == ~Idle /\ Rejected(Top) /\ Unwind

OutOfMemory ==
  /\ ~Idle
  /\ call.op = "share" /\ Top.node \in Long /\ Pending(Top) = {}
  /\ Unwind

(* An environment that contains itself is entered until R gives up. *)
TooDeep == ~Idle /\ Pending(Top) # {} /\ Len(stack) = Limit /\ Unwind

Step == Descend \/ Finish \/ Unsharable \/ OutOfMemory \/ TooDeep

ContNext ==
  \/ \E r \in Roots :
       \/ \E attrs, must \in BOOLEAN : Share(r, attrs, must)
       \/ Unshare(r)
  \/ SetOption
  \/ Step

ContSpec == ContInit /\ [][ContNext]_contVars

----------------------------------------------------------------------------
(* Properties *)

(* A binding is never half converted: the vectors in the elements of a     *)
(* variable, or of an element of an environment, are all shared or none    *)
(* is, wherever in a call, or after whatever error, one looks.             *)
BindingsAreAtomic ==
  \A m \in Nodes :
    LET vectors == {n \in Long \ Aside : Anchor[n] = m}
    IN vectors \subseteq shared \/ vectors \cap shared = {}

(* Why that is so, frame by frame.  The inductive invariant:               *)

ContTypeOK ==
  /\ shared \subseteq Long /\ work \subseteq Long
  /\ bare \subseteq S4Data
  /\ call \in [op : {"none", "share", "unshare"}, attrs : BOOLEAN]
  /\ stack \in Seq([node : Nodes, at : Nat \ {0}, must : BOOLEAN, s4 : BOOLEAN])
  /\ option \in BOOLEAN
  /\ Idle <=> call.op = "none"

(* What a call finds from an object.                                       *)
Entered(c) ==
  [n \in Nodes |-> {p.node : p \in {q \in PartsOf(n) : TakenBy(c, n, q.role)}}]
Finds == UNION {{<<c, n, m>> : m \in Reachable(n, Entered(c))} : c \in Calls, n \in Nodes}
Region(c, n) == {m \in Nodes : <<c, n, m>> \in Finds}

(* A call goes from a root to parts of parts that it enters, within what   *)
(* is found from where the values are bound.                               *)
StackIsAPath ==
  /\ ~Idle => stack[1].node \in Roots
  /\ \A j \in 1..(Len(stack) - 1) :
       LET f == stack[j]
           i == f.at - 1
       IN /\ i \in DOMAIN Parts[f.node] /\ Parts[f.node][i].node = stack[j + 1].node
          /\ Takes(f.node, Parts[f.node][i].role)
  /\ \A j \in DOMAIN stack :
       LET n == stack[j].node
       IN Kind[n] # "env" => n \in Region(call, Anchor[n])

(* mustWork is handed on from an object that has it, and not into objects  *)
(* whose S4 bit the call has taken off.                                    *)
MustIsInherited ==
  \A j \in DOMAIN stack : stack[j].must =>
    \A i \in 1..j : stack[i].must /\ ~stack[i].s4

(* What a call makes of a value is never behind what is bound, and what it *)
(* enters is what the option says.                                         *)
ResultsAreAhead ==
  /\ call.op = "share" => shared \subseteq work
  /\ call.op = "unshare" => work \subseteq shared /\ call.attrs = option

(* Nothing shares a class, names or levels.                                *)
FixedLeaves ==
  {n \in Nodes : \E m \in Nodes : \E p \in PartsOf(m) : p.role = "fixed" /\ p.node = n}
FixedAreNotShared == (shared \cup work) \cap FixedLeaves = {}

BindsAt(j) == j = 1 \/ Kind[stack[j - 1].node] = "env"

(* All vectors of a set have been converted, in the given results.         *)
Done(S, results) ==
  IF call.op = "share" THEN S \subseteq results ELSE S \cap results = {}

(* The part that a frame goes on with, or that it is in.                   *)
Behind(j) == IF j = Len(stack) THEN stack[j].at ELSE stack[j].at - 1

(* The vectors that are found in the parts behind a frame are converted:   *)
(* those of its own value in the results, the others where they are bound. *)
(* It is not so if the call has come back, through an environment, to the  *)
(* value the frame is in, and has begun again: then they will be when it   *)
(* gets to the end of that.                                                *)
Own(n) == IF Kind[n] = "env" THEN {} ELSE Within(Anchor[n])

Explored(j) ==
  LET n == stack[j].node IN
  \A i \in DOMAIN Parts[n] :
    LET p == Parts[n][i]
        found == Long \cap Region(call, p.node)
    IN i < Behind(j) /\ Takes(n, p.role) =>
         Done(found \cap Own(n), work) /\ Done(found \ Own(n), shared)

BegunAgain(j) ==
  /\ Kind[stack[j].node] # "env"
  /\ \E k \in DOMAIN stack :
       k > j /\ BindsAt(k) /\ stack[k].node = Anchor[stack[j].node]

VisitedIsDone == \A j \in DOMAIN stack : Explored(j) \/ BegunAgain(j)

(* What is found from an object by entering parts of the given roles, but  *)
(* not those of objects that are closed.                                   *)
Reached(r, roles, closed) ==
  LET next(n) == {p.node : p \in {q \in PartsOf(n) : q.role \in roles}}
  IN Reachable(r, [n \in Nodes |-> IF n \in closed THEN {} ELSE next(n)])

(* With mustWork the elements behind a frame hold nothing that cannot be   *)
(* shared, and it is handed on to the one the call is in.                  *)
Sharable == {n \in Nodes : \A m \in Reached(n, {"elt"}, S4Data) : Kind[m] # "other"}

MustIsKept ==
  \A j \in DOMAIN stack :
    LET n == stack[j].node IN
    stack[j].must /\ n \notin S4Data =>
      \A i \in DOMAIN Parts[n] :
        Parts[n][i].role = "elt" =>
          /\ i < Behind(j) => Parts[n][i].node \in Sharable
          /\ j < Len(stack) /\ i = Behind(j) =>
               stack[j + 1].must \/ stack[j + 1].node \in S4Data

ContIInv ==
  /\ ContTypeOK /\ StackIsAPath /\ MustIsInherited /\ MustIsKept
  /\ ResultsAreAhead /\ FixedAreNotShared
  /\ VisitedIsDone /\ BindingsAreAtomic

Returns(op) == Finish /\ Len(stack) = 1 /\ call.op = op

(* When share returns, all vectors of at least minLength elements in the   *)
(* elements, slots and, if asked for, attributes are shared, at any depth  *)
(* and behind any environment, and with mustWork no element was skipped    *)
(* that is not part of an S4 object.                                       *)
ShareIsComplete ==
  [][Returns("share") =>
       LET r == stack[1].node
           roles == {"elt", "slot"} \cup IF call.attrs THEN {"attr"} ELSE {}
       IN /\ Long \cap Reached(r, roles, {}) \subseteq shared'
          /\ stack[1].must =>
               \A n \in Reached(r, {"elt"}, S4Data) : Kind[n] # "other"]_contVars

(* When unshare returns, nothing in the object is shared any more, except  *)
(* for attributes if the package option sharedAttributes is off.           *)
UnshareIsComplete ==
  [][Returns("unshare") =>
       LET roles == {"elt", "slot"} \cup IF option THEN {"attr", "fixed"} ELSE {}
       IN shared' \cap Reached(stack[1].node, roles, {}) = {}]_contVars

(* doS4 takes the S4 bit off the caller's own object.  An unsharable part  *)
(* never makes that permanent, with or without mustWork, at any depth;     *)
(* only a lack of memory or endless nesting does.                          *)
Lost == bare \ {f.node : f \in {g \in ToSet(stack) : g.s4}}

S4BitKept == [][Lost' # Lost => OutOfMemory \/ TooDeep]_contVars

=============================================================================
