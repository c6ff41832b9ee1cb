---------------------------- MODULE SharedVector ----------------------------
(***************************************************************************)
(* The contents of shared vectors, as R variables of several sessions see  *)
(* them (src/src/numericAltrepOperations.cpp, the constructors and unshare *)
(* of src/src/altrep.cpp, copyData of src/src/utils.cpp).  A variable is   *)
(* bound to an object, possibly together with other variables of its       *)
(* session; an object is a plain R vector or a view of a block of shared   *)
(* memory with three flags; a message carries a view's flags and the name  *)
(* of its block, not the contents.                                         *)
(*                                                                         *)
(* The memory below is BlockMemory.                                        *)
(***************************************************************************)
EXTENDS BlockMemory, FiniteSetsExt

CONSTANTS
  Vars,
  Home,        \* the session a variable belongs to
  Elements,    \* the values of an element; 0 is what new memory holds
  Indices,     \* bound: the elements that are assigned
  Selections,  \* bound: the index vectors that are used
  Initial,     \* the vector every variable starts with
  FlagSets,    \* bound: the flags share() is called with
  Settable,    \* the flags users change on an object
  DataType,    \* the type of all vectors
  Region       \* how many elements R hands out of a vector at a time

Vectors == Seq(Elements)
Flags == [cow : BOOLEAN, subset : BOOLEAN, copy : BOOLEAN]
Objects == [kind : {"plain"}, data : Vectors] \cup
           [kind : {"view"}, block : Blocks, flags : Flags]

ASSUME VectorAssumption ==
  /\ Home \in [Vars -> Sessions]
  /\ Region \in Nat \ {0}
  /\ 0 \in Elements
  /\ Initial \in Vectors
  /\ Selections \subseteq Seq(Nat)
  /\ FlagSets \subseteq Flags
  /\ Settable \subseteq {"cow", "subset", "copy"}
  /\ Nothing \notin Sessions \cup Objects
  /\ Nothing \notin ({"own"} \X Vectors) \cup ({"common"} \X Blocks)

VARIABLES
  object,  \* the object a variable is bound to, or Nothing
  same,    \* the variables that are bound to the same object as a variable
  mail     \* the serialized object in transit

vecVars == <<object, same, mail, blockVars>>

Plain(data) == [kind |-> "plain", data |-> data]
View(b, f) == [kind |-> "view", block |-> b, flags |-> f]

(* What sharedVector_dataptr leads to: the memory, for whoever asks. *)
DataOf(x) == IF x.kind = "view" THEN mem[x.block] ELSE x.data

IsView(x) == x # Nothing /\ x.kind = "view"
IsViewOf(x, b) == IsView(x) /\ x.block = b
Bound(v) == object[v] # Nothing
Viewers(b) == {v \in Vars : IsViewOf(object[v], b)}

(* What a message refers to is not taken for another block: ids are not    *)
(* handed out twice.                                                       *)
Mailed == {b \in Blocks : IsViewOf(mail, b)}

----------------------------------------------------------------------------
(* copyData: a vector without data pointer is fetched in regions.  The     *)
(* first element of the region at ind goes to ind for integers, and to     *)
(* ind * nbatch for the other types.                                       *)

RegionStarts(n) == {k * Region : k \in 0..n} \cap 0..(n - 1)
RegionLength(n, ind) == IF n - ind < Region THEN n - ind ELSE Region

Target(ind, nbatch) == IF DataType = "integer" THEN ind ELSE ind * nbatch

Writers(n, j) ==
  {ind \in RegionStarts(n) :
     LET t == Target(ind, RegionLength(n, ind))
     IN j \in (t + 1)..(t + RegionLength(n, ind))}

(* Later regions overwrite earlier ones; what none reaches stays 0. *)
CopyData(data) ==
  [j \in DOMAIN data |->
     LET W == Writers(Len(data), j)
         ind == Max(W)
     IN IF W = {} THEN 0
        ELSE data[ind + j - Target(ind, RegionLength(Len(data), ind))]]

----------------------------------------------------------------------------
(* Binding variables and making blocks *)

(* v alone is bound to x. *)
Bind(v, x) ==
  /\ object' = [object EXCEPT ![v] = x]
  /\ same' = [u \in Vars |-> IF u = v THEN {v} ELSE same[u] \ {v}]

CreateView(v, f, data) ==
  \E b \in Blocks \ Mailed :
     /\ ~Alive(b)
     /\ Bind(v, View(b, f))
     /\ CreateBlock(Home[v], b, data)
     /\ UNCHANGED mail

CreatePlain(v, data) ==
  Bind(v, Plain(data)) /\ UNCHANGED <<blockVars, mail>>

----------------------------------------------------------------------------
(* Init: every variable is bound to a plain vector of its own. *)

VecInit ==
  /\ object = [v \in Vars |-> Plain(Initial)]
  /\ same = [v \in Vars |-> {v}]
  /\ MemInit
  /\ mail = Nothing

----------------------------------------------------------------------------
(* Assignments *)

(* v <- w *)
Alias(v, w) ==
  LET group == same[w] \cup {v} IN
  /\ Bound(w)
  /\ v \notin same[w]
  /\ object' = [object EXCEPT ![v] = object[w]]
  /\ same' = [u \in Vars |-> IF u \in group THEN group ELSE same[u] \ {v}]
  /\ UNCHANGED <<blockVars, mail>>

(* rm(v) *)
Forget(v) ==
  /\ Bound(v)
  /\ Bind(v, Nothing)
  /\ UNCHANGED <<blockVars, mail>>

(* v <- some new vector *)
NewVector(v) ==
  /\ ~Bound(v)
  /\ CreatePlain(v, Initial)

(* v <- share(w): memcpy if w has a data pointer, which a view always has *)
(* and a plain vector may lack, copyData otherwise.                       *)
Share(v, w, f) ==
  /\ Bound(w)
  /\ LET data == DataOf(object[w]) IN
     \/ CreateView(v, f, data)
     \/ ~IsView(object[w]) /\ CreateView(v, f, CopyData(data))

(* v <- unshare(w) *)
Unshare(v, w) ==
  /\ IsView(object[w])
  /\ CreatePlain(v, DataOf(object[w]))

(* v <- w[sel] for indices within w: a shared object only if sharedSubset  *)
(* is on.                                                                  *)
Picked(data, sel) == [i \in DOMAIN sel |-> data[sel[i]]]

Subset(v, w, sel) ==
  /\ Bound(w)
  /\ LET x == object[w] IN
     /\ \A i \in DOMAIN sel : sel[i] \in DOMAIN DataOf(x)
     /\ IF IsView(x) /\ x.flags.subset
        THEN CreateView(v, x.flags, Picked(DataOf(x), sel))
        ELSE CreatePlain(v, Picked(DataOf(x), sel))

MutModify(v, x) ==  \* the setter works on a copy
  object' = [object EXCEPT ![v] = x] /\ same' = same

(* The object of v becomes x, for all variables that are bound to it. *)
Modify(v, x) ==
  /\ object' = [u \in Vars |-> IF u \in same[v] THEN x ELSE object[u]]
  /\ same' = same

SetProperty(v, p, b) ==
  /\ IsView(object[v])
  /\ Modify(v, [object[v] EXCEPT !.flags[p] = b])
  /\ UNCHANGED <<blockVars, mail>>

----------------------------------------------------------------------------
(* v[i] <- e *)

(* R duplicates an object with several references before it writes; it may *)
(* write through the pointer of one with a single reference, and           *)
(* sharedVector_dataptr lets it.  The model takes as R's contract that a   *)
(* copy-on-write view is written in place only where nobody else has a     *)
(* view of its block (README, "Not modelled").                             *)
MayWriteInPlace(v) ==
  LET x == object[v] IN
  /\ same[v] = {v}
  /\ IsView(x) /\ x.flags.cow =>
       Viewers(x.block) = {v} /\ x.block \notin Mailed

WriteInPlace(v, i, e) ==
  /\ Bound(v)
  /\ MayWriteInPlace(v)
  /\ LET x == object[v] IN
     /\ i \in DOMAIN DataOf(x)
     /\ IF IsView(x)
        THEN /\ WriteBlock(x.block, [DataOf(x) EXCEPT ![i] = e])
             /\ UNCHANGED <<object, same>>
        ELSE Modify(v, [x EXCEPT !.data[i] = e]) /\ UNCHANGED blockVars
  /\ UNCHANGED mail

(* sharedVector_duplicate, as R calls it, and the write into what it       *)
(* returns: with copy on write a new shared object if sharedCopy is on, a  *)
(* plain vector if not; without, another view of the same block.           *)
MutCopies(f) == f.copy  \* copyOnWrite matters only with sharedCopy
Copies(f) == f.cow

WriteAfterDuplicate(v, i, e) ==
  /\ Bound(v)
  /\ LET x == object[v]
         changed == [DataOf(x) EXCEPT ![i] = e]
     IN /\ i \in DOMAIN DataOf(x)
        /\ \/ ~IsView(x) /\ CreatePlain(v, changed)
           \/ /\ IsView(x) /\ Copies(x.flags)
              /\ IF x.flags.copy
                 THEN CreateView(v, x.flags, changed)
                 ELSE CreatePlain(v, changed)
           \/ /\ IsView(x) /\ ~Copies(x.flags)
              /\ Bind(v, x)
              /\ WriteBlock(x.block, changed)
              /\ UNCHANGED mail

----------------------------------------------------------------------------
(* Messages and the collector *)

(* The state that is serialized: the flags and the name, or the contents,  *)
(* with a warning, if the name is gone.                                    *)
MutSerialized(x) ==  \* the name alone; the reader takes the defaults
  IF IsView(x) /\ Named(x.block)
  THEN View(x.block, [cow |-> TRUE, subset |-> FALSE, copy |-> FALSE])
  ELSE Plain(DataOf(x))

Serialized(x) ==
  IF IsView(x) /\ Named(x.block) THEN x ELSE Plain(DataOf(x))

Send(v) ==
  /\ Bound(v)
  /\ mail' = Serialized(object[v])
  /\ UNCHANGED <<object, same, owner, mapped>>
  /\ DropUnreachable(Mailed')

(* unserialize: a view where the block is still mapped or has its name;    *)
(* NULL, with a warning, where it is neither.  A message can be read       *)
(* several times.                                                          *)
Receive(v) ==
  /\ mail # Nothing
  /\ UNCHANGED mail
  /\ IF ~IsView(mail)
     THEN Bind(v, mail) /\ UNCHANGED blockVars
     ELSE IF CanMap(Home[v], mail.block)
     THEN Bind(v, mail) /\ OpenBlock(Home[v], mail.block)
     ELSE Bind(v, Nothing) /\ UNCHANGED blockVars

MutUnviewed(s, b) ==  \* one view collected counts as all
  \E v \in Vars : Home[v] = s /\ v \notin Viewers(b)
Unviewed(s, b) == \A v \in Vars : Home[v] = s => v \notin Viewers(b)

(* The finalizers of all views a session had of a block. *)
Collect(s, b) ==
  /\ Unviewed(s, b)
  /\ UnmapBlock(s, b, Mailed)
  /\ UNCHANGED <<object, same, mail>>

----------------------------------------------------------------------------

VecNext ==
  \/ \E s \in Sessions, b \in Blocks : Collect(s, b)
  \/ \E v, w \in Vars :
       /\ Home[v] = Home[w]
       /\ \/ Alias(v, w)
          \/ Unshare(v, w)
          \/ \E f \in FlagSets : Share(v, w, f)
          \/ \E sel \in Selections : Subset(v, w, sel)
  \/ \E v \in Vars :
       \/ \E p \in Settable, b \in BOOLEAN : SetProperty(v, p, b)
       \/ \E i \in Indices, e \in Elements :
            WriteInPlace(v, i, e) \/ WriteAfterDuplicate(v, i, e)
       \/ Forget(v) \/ NewVector(v) \/ Send(v) \/ Receive(v)

VecSpec == VecInit /\ [][VecNext]_vecVars

----------------------------------------------------------------------------
(* Properties *)

(* The state has its type: the variables that are bound to one object are  *)
(* classes, and a block has contents while somebody can reach it.          *)
VecTypeOK ==
  /\ object \in [Vars -> Objects \cup {Nothing}]
  /\ same \in [Vars -> SUBSET Vars]
  /\ \A v \in Vars :
       /\ v \in same[v]
       /\ \A u \in same[v] : same[u] = same[v] /\ object[u] = object[v]
  /\ mail \in Objects \cup {Nothing}
  /\ mem \in [Blocks -> Vectors \cup {Nothing}]
  /\ \A b \in Blocks :
       IF Alive(b) \/ b \in Mailed THEN mem[b] \in Vectors ELSE mem[b] = Nothing
  /\ owner \in [Blocks -> Sessions \cup {Nothing}]
  /\ mapped \in [Sessions -> SUBSET Blocks]

(* The data pointer of a view, which sharedVector_dataptr hands out        *)
(* without a test, leads into a block the session has mapped, and a block  *)
(* keeps its name while its creator has it mapped, so that what is sent    *)
(* meanwhile can be opened.                                                *)
PointersLeadToMemory ==
  /\ \A b \in Blocks : \A v \in Viewers(b) : b \in mapped[Home[v]]
  /\ \A b \in Blocks : Named(b) => b \in mapped[owner[b]]

(* All views of a block, and a message that names it, agree whether it is  *)
(* copied on write: duplicates, subsets and serialized copies inherit the  *)
(* flag.  A view that writes to memory another view takes for its own      *)
(* would change that variable's value.                                     *)
CowDecidedByBlock ==
  \A b \in Blocks :
    LET views == {x \in {object[v] : v \in Vars} \cup {mail} : IsViewOf(x, b)}
    IN \A x, y \in views : x.flags.cow = y.flags.cow

(* The values behind objects, blocks and messages. *)
ValueOf(x) ==
  IF x = Nothing THEN Nothing
  ELSE IF IsView(x) /\ ~x.flags.cow THEN <<"common", x.block>>
  ELSE <<"own", DataOf(x)>>

Values == [v \in Vars |-> ValueOf(object[v])]

GroupOf(b) ==
  \/ ValueOf(mail) = <<"common", b>>
  \/ \E v \in Vars : Values[v] = <<"common", b>>

Promise == INSTANCE ValueStore WITH
  Groups <- Blocks,
  value <- Values,
  common <- [b \in Blocks |-> IF GroupOf(b) THEN mem[b] ELSE Nothing],
  post <- ValueOf(mail)

(* Shared vectors behave as values: as long as nobody changes copyOnWrite  *)
(* of an existing object, whatever is aliased, shared, duplicated, cut,    *)
(* sent, read late, collected or written by any session, a variable with   *)
(* copy on write changes only when it is assigned, and one without follows *)
(* all writes to its block.                                                *)
ValuesAsPromised == Promise!StoreSpec

(* share returns a vector with the elements of its argument, by whatever   *)
(* way they are copied (createSharedObjectFromSource).                     *)
ShareKeepsElements ==
  [][\A v, w \in Vars, f \in FlagSets :
       Share(v, w, f) => DataOf(object[v])' = DataOf(object[w])]_vecVars

=============================================================================
