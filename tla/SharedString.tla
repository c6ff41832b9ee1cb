---------------------------- MODULE SharedString ----------------------------
(***************************************************************************)
(* Shared character vectors (src/src/stringAltrepOperations.cpp and        *)
(* createSharedStringFromSource, unshareString of src/src/altrep.cpp).  A  *)
(* shared string is a list of three parts: the distinct strings, an index  *)
(* of one number per element in shared memory, and a cache, the string     *)
(* vector itself where it is at hand: the creator keeps its source, others *)
(* build it when R asks for the data pointer.  Duplicates without copy on  *)
(* write share the list; a message carries all of it but the cache.        *)
(*                                                                         *)
(* Share is called on plain vectors: share() of a shared string would make *)
(* it the cache of the new one (README, "Not modelled").                   *)
(***************************************************************************)
EXTENDS BlockMemory, FiniteSetsExt, SequencesExt

CONSTANTS
  Vars,
  Home,        \* the session a variable belongs to
  Strings,     \* the values of an element
  Indices,     \* bound: the elements that are assigned
  Selections,  \* bound: the index vectors that are used
  Texts,       \* bound: the vectors EncodingIsLossless is checked on
  Initial,     \* the vector every variable starts with
  Cow,         \* the sessions that share with copyOnWrite
  Byte,        \* the number of values of a byte
  Careful      \* users follow the advice to treat shared strings as read-only
               \* where a write would not be seen (MayWriteInPlace)

Vectors == Seq(Strings)
BytesOf == Seq(0..(Byte - 1))

(* A list stands for one object of R: the distinct strings, an index and a *)
(* cache, and what its dataInfo says of them.                              *)
Objects ==
  [kind : {"plain"}, data : Vectors]
  \cup [kind : {"string"},
        index : [kind : {"view"}, block : Blocks] \cup [kind : {"plain"}, data : BytesOf],
        cache : {Nothing} \cup Vectors,
        charSet : Vectors,
        unitSize : {1, 2, 4, 8},
        length : Nat,
        cow : BOOLEAN]

ASSUME StringAssumption ==
  /\ Home \in [Vars -> Sessions]
  /\ Cow \subseteq Sessions
  /\ Byte \in Nat \ {0, 1}
  /\ Careful \in BOOLEAN
  /\ Initial \in Vectors
  /\ Selections \subseteq Seq(Nat)
  /\ \A data \in Texts : data \in Seq(ToSet(data))
  /\ Nothing \notin Sessions \cup Objects \cup Vectors
  /\ Nothing \notin ({"own"} \X Vectors) \cup ({"common"} \X Blocks)

VARIABLES
  object,  \* the object a variable is bound to, or Nothing
  same,    \* the variables that are bound to the same object as a variable
  kin,     \* the variables whose objects have the same list as a variable's
  mail     \* the serialized object in transit

strVars == <<object, same, kin, mail, blockVars>>

Plain(data) == [kind |-> "plain", data |-> data]
View(b) == [kind |-> "view", block |-> b]
IsView(x) == x.kind = "view"
IsString(x) == x # Nothing /\ x.kind = "string"
Bound(v) == object[v] # Nothing

IsViewOf(x, b) == IsString(x) /\ x.index = View(b)
Viewers(b) == {v \in Vars : IsViewOf(object[v], b)}
Mailed == {b \in Blocks : IsViewOf(mail, b)}

----------------------------------------------------------------------------
(* The index: unitSize bytes for an element, least significant byte first. *)

(* uniqueCharSet: the distinct strings in the order of their appearance.   *)
(* A string gets the number of those that came before it.                  *)
First(data) == {i \in DOMAIN data : \A j \in 1..(i - 1) : data[j] # data[i]}
Rank(data, i) == Cardinality({j \in First(data) : j <= i})
CharSet(data) ==
  [k \in 1..Cardinality(First(data)) |-> data[CHOOSE i \in First(data) : Rank(data, i) = k]]

Offset(charSet, c) == (CHOOSE k \in DOMAIN charSet : charSet[k] = c) - 1

(* The number of values that k bytes have. *)
Power[k \in 0..8] == IF k = 0 THEN 1 ELSE Byte * Power[k - 1]

(* Numbers of more than 8 bytes are an error. *)
Fits(charSet) == Len(charSet) <= Power[8]

(* ceil(log2(unitElt) / 8), and the next power of two. *)
MutUnitBytes(unitElt) ==  \* computed from the last offset
  Min({k \in 1..8 : Power[k] >= unitElt - 1})
UnitBytes(unitElt) == Min({k \in 1..8 : Power[k] >= unitElt})

UnitSize(charSet) ==
  LET unitElt == IF Len(charSet) > 1 THEN Len(charSet) ELSE 2
  IN Min({u \in {1, 2, 4, 8} : u >= UnitBytes(unitElt)})

(* Byte number k of n. *)
ByteOf(n, k) == (n \div Power[k]) % Byte

Encoded(data, charSet, unitSize) ==
  [p \in 1..(unitSize * Len(data)) |->
     ByteOf(Offset(charSet, data[((p - 1) \div unitSize) + 1]), (p - 1) % unitSize)]

Bytes(x) == IF IsView(x.index) THEN mem[x.index.block] ELSE x.index.data

(* The number at element i: an integer of unitSize bytes. *)
Unit(bytes, unitSize, i) ==
  CHOOSE n \in 0..(Power[unitSize] - 1) :
    \A k \in 1..unitSize : bytes[((i - 1) * unitSize) + k] = ByteOf(n, k - 1)

Decoded(x, bytes) ==
  [i \in 1..x.length |-> x.charSet[Unit(bytes, x.unitSize, i) + 1]]

(* unshareString *)
MutUnshared(x) ==  \* the pointer into the index is not advanced
  [i \in 1..x.length |-> Decoded(x, Bytes(x))[1]]
Unshared(x) == Decoded(x, Bytes(x))

(* sharedString_elt: the cached vector if there is one, the index else. *)
Elt(x, i) == IF x.cache # Nothing THEN x.cache[i] ELSE x.charSet[Unit(Bytes(x), x.unitSize, i) + 1]

DataOf(x) == IF IsString(x) THEN [i \in 1..x.length |-> Elt(x, i)] ELSE x.data

----------------------------------------------------------------------------
(* Binding variables *)

(* v alone is bound to x, which has a list of its own. *)
Bind(v, x) ==
  /\ object' = [object EXCEPT ![v] = x]
  /\ same' = [u \in Vars |-> IF u = v THEN {v} ELSE same[u] \ {v}]
  /\ kin' = [u \in Vars |-> IF u = v THEN {v} ELSE kin[u] \ {v}]

CreatePlain(v, data) ==
  Bind(v, Plain(data)) /\ UNCHANGED <<blockVars, mail>>

MutModifyList(v, x) ==  \* the duplicate has a list of its own
  object' = [object EXCEPT ![v] = x] /\ kin' = kin

(* The list of v's object changes, for all objects that have it. *)
ModifyList(v, x) ==
  /\ object' = [u \in Vars |-> IF u \in kin[v] THEN x ELSE object[u]]
  /\ kin' = kin

StrInit ==
  /\ object = [v \in Vars |-> Plain(Initial)]
  /\ same = [v \in Vars |-> {v}]
  /\ kin = [v \in Vars |-> {v}]
  /\ mail = Nothing
  /\ MemInit

----------------------------------------------------------------------------
(* Assignments *)

(* v <- w *)
Alias(v, w) ==
  LET group == same[w] \cup {v}
      family == kin[w] \cup {v}
  IN
  /\ Bound(w)
  /\ v \notin same[w]
  /\ object' = [object EXCEPT ![v] = object[w]]
  /\ same' = [u \in Vars |-> IF u \in group THEN group ELSE same[u] \ {v}]
  /\ kin' = [u \in Vars |-> IF u \in family THEN family ELSE kin[u] \ {v}]
  /\ UNCHANGED <<blockVars, mail>>

(* rm(v), or a new vector for v. *)
Forget(v) ==
  Bound(v) /\ Bind(v, Nothing) /\ UNCHANGED <<blockVars, mail>>
NewVector(v) == ~Bound(v) /\ CreatePlain(v, Initial)

(* v <- share(w): createSharedStringFromSource *)
FromSource(data, index, cow) ==
  [kind |-> "string", index |-> index, cache |-> data, charSet |-> CharSet(data),
   unitSize |-> UnitSize(CharSet(data)), length |-> Len(data), cow |-> cow]

Share(v, w) ==
  /\ Bound(w) /\ ~IsString(object[w])
  /\ Fits(CharSet(object[w].data))
  /\ \E b \in Blocks \ Mailed :
       LET x == FromSource(object[w].data, View(b), Home[v] \in Cow) IN
       /\ ~Alive(b)
       /\ CreateBlock(Home[v], b, Encoded(x.cache, x.charSet, x.unitSize))
       /\ Bind(v, x)
       /\ UNCHANGED mail

(* v <- unshare(w) *)
Unshare(v, w) == IsString(object[w]) /\ CreatePlain(v, Unshared(object[w]))

(* v <- w[sel]: R reads the elements one by one. *)
Subset(v, w, sel) ==
  /\ Bound(w)
  /\ \A i \in DOMAIN sel : sel[i] \in DOMAIN DataOf(object[w])
  /\ CreatePlain(v, [i \in DOMAIN sel |-> DataOf(object[w])[sel[i]]])

(* R asks for the data pointer: sharedString_dataptr fills the cache. *)
DataPtr(v) ==
  /\ IsString(object[v])
  /\ object[v].cache = Nothing
  /\ ModifyList(v, [object[v] EXCEPT !.cache = Unshared(object[v])])
  /\ UNCHANGED <<same, blockVars, mail>>

----------------------------------------------------------------------------
(* v[i] <- c *)

(* R writes into a plain vector, or into the plain vector that             *)
(* sharedString_duplicate makes of a copy-on-write string.                 *)
WritePlain(v, i, c) ==
  LET x == object[v]
      data == IF IsString(x) THEN Unshared(x) ELSE x.data
  IN /\ Bound(v)
     /\ IsString(x) => x.cow
     /\ i \in DOMAIN data
     /\ CreatePlain(v, [data EXCEPT ![i] = c])

(* A write to the index is seen, and seen in the right place, if elements  *)
(* are single bytes and nobody reads the block through a cache; one with   *)
(* copy on write, if nobody else has the block (see SharedVector).         *)
WriteIsSeen(v) ==
  LET x == object[v] IN
  /\ IsView(x.index) /\ x.unitSize = 1
  /\ \A u \in Viewers(x.index.block) : object[u].cache = Nothing
  /\ x.cow => Viewers(x.index.block) = {v} /\ x.index.block \notin Mailed

(* sharedString_set_elt, of v's object if it has no other reference, or of *)
(* its duplicate, which has the same list.  A string that is not in the    *)
(* character set is an error.  Whatever the unit size, one byte is written *)
(* at byte i; the cache is left as it is.                                  *)
SetElement(v, i, c) ==
  LET x == object[v]
      bytes == [Bytes(x) EXCEPT ![i] = Offset(x.charSet, c) % Byte]
  IN /\ IsString(x)
     /\ i \in 1..x.length
     /\ Contains(x.charSet, c)
     /\ x.cow => same[v] = {v}
     /\ Careful => WriteIsSeen(v)
     /\ IF IsView(x.index)
        THEN WriteBlock(x.index.block, bytes) /\ ModifyList(v, x)
        ELSE ModifyList(v, [x EXCEPT !.index.data = bytes]) /\ UNCHANGED blockVars
     /\ same' = [u \in Vars |-> IF u = v THEN {v} ELSE same[u] \ {v}]
     /\ UNCHANGED mail

----------------------------------------------------------------------------
(* Messages and the collector *)

(* sharedString_serialized_state: a list without the cache, whose index is *)
(* itself serialized, by name, or by value if the name is gone.            *)
Serialized(x) ==
  IF ~IsString(x) THEN x
  ELSE [x EXCEPT !.cache = Nothing,
                 !.index = IF IsView(@) /\ Named(@.block) THEN @ ELSE Plain(Bytes(x))]

Send(v) ==
  /\ IsString(object[v])
  /\ mail' = Serialized(object[v])
  /\ UNCHANGED <<object, same, kin, owner, mapped>>
  /\ DropUnreachable(Mailed')

(* sharedString_unserialize: NULL, with a warning, if the index is NULL,   *)
(* because its block is neither mapped here nor has a name.                *)
Receive(v) ==
  /\ mail # Nothing
  /\ UNCHANGED mail
  /\ IF ~IsString(mail) \/ ~IsView(mail.index)
     THEN Bind(v, mail) /\ UNCHANGED blockVars
     ELSE IF CanMap(Home[v], mail.index.block)
     THEN Bind(v, mail) /\ OpenBlock(Home[v], mail.index.block)
     ELSE Bind(v, Nothing) /\ UNCHANGED blockVars

MutCollect(s, b) ==  \* the first finalizer unmaps it, used or not
  UnmapBlock(s, b, Mailed) /\ UNCHANGED <<object, same, kin, mail>>

(* The finalizers of all indices a session had of a block. *)
Collect(s, b) ==
  /\ \A v \in Viewers(b) : Home[v] # s
  /\ UnmapBlock(s, b, Mailed)
  /\ UNCHANGED <<object, same, kin, mail>>

----------------------------------------------------------------------------

StrNext ==
  \/ \E s \in Sessions, b \in Blocks : Collect(s, b)
  \/ \E v, w \in Vars :
       /\ Home[v] = Home[w]
       /\ \/ Alias(v, w)
          \/ Unshare(v, w)
          \/ Share(v, w)
          \/ \E sel \in Selections : Subset(v, w, sel)
  \/ \E v \in Vars :
       \/ \E i \in Indices, c \in Strings : WritePlain(v, i, c) \/ SetElement(v, i, c)
       \/ DataPtr(v) \/ Forget(v) \/ NewVector(v) \/ Send(v) \/ Receive(v)

StrSpec == StrInit /\ [][StrNext]_strVars

----------------------------------------------------------------------------
(* Properties *)

(* The state has its type: objects with one list differ in nothing but     *)
(* their identity, a block has contents while somebody can reach it, and   *)
(* whatever a variable is bound to can be read as strings.                 *)
StrTypeOK ==
  /\ object \in [Vars -> Objects \cup {Nothing}]
  /\ mail \in Objects \cup {Nothing}
  /\ same \in [Vars -> SUBSET Vars] /\ kin \in [Vars -> SUBSET Vars]
  /\ \A v \in Vars :
       /\ v \in same[v] /\ same[v] \subseteq kin[v]
       /\ \A u \in kin[v] : kin[u] = kin[v] /\ object[u] = object[v]
       /\ Bound(v) /\ ~IsString(object[v]) => kin[v] = same[v]
       /\ Bound(v) => DataOf(object[v]) \in Vectors
  /\ mem \in [Blocks -> BytesOf \cup {Nothing}]
  /\ \A b \in Blocks :
       IF Alive(b) \/ b \in Mailed THEN mem[b] \in BytesOf ELSE mem[b] = Nothing
  /\ owner \in [Blocks -> Sessions \cup {Nothing}]
  /\ mapped \in [Sessions -> SUBSET Blocks]

StringsAround == {x \in {object[v] : v \in Vars} \cup {mail} : IsString(x)}

(* For every vector, the unit size that createSharedStringFromSource       *)
(* computes from logarithms has room for every number, the index has       *)
(* totalSize bytes, and reading it back gives the vector.  This is a fact  *)
(* about the operators; it is evaluated once, in the initial state.        *)
EncodingIsLossless ==
  StrInit => \A data \in Texts :
    LET x == FromSource(data, Nothing, TRUE)
        bytes == Encoded(data, x.charSet, x.unitSize)
    IN Fits(x.charSet) =>
       /\ Len(x.charSet) = Cardinality(ToSet(data))
       /\ Len(x.charSet) <= Power[x.unitSize]
       /\ Len(bytes) = x.unitSize * Len(data)
       /\ Decoded(x, bytes) = data

(* A cached vector and the index say the same, whoever filled the cache    *)
(* and whatever happened to the block since, as elements are read from     *)
(* one and duplicates, unshare and other sessions take the other.          *)
CacheAgreesWithIndex ==
  \A x \in StringsAround : x.cache # Nothing => x.cache = Unshared(x)

(* The number of every element leads into the character set, which         *)
(* sharedString_elt and unshareString read without a test: for every       *)
(* object and message, in every session, whatever was written to the block *)
(* through other objects.                                                  *)
IndexOK(x, bytes) ==
  /\ Len(x.charSet) <= Power[x.unitSize]
  /\ Len(bytes) = x.unitSize * x.length
  /\ \A i \in 1..x.length : \E n \in 0..(Len(x.charSet) - 1) :
       \A k \in 1..x.unitSize : bytes[((i - 1) * x.unitSize) + k] = ByteOf(n, k - 1)

(* The inductive invariant: the index of an object is mapped in its        *)
(* session and leads into its character set, and the objects and messages  *)
(* with one block have the same strings, unit size, length and flag, so    *)
(* that what is written through one of them can be read through all.       *)
StrIInv ==
  /\ StrTypeOK
  /\ \A b \in Blocks : \A v \in Viewers(b) : b \in mapped[Home[v]]
  /\ \A x \in StringsAround : IndexOK(x, Bytes(x))
  /\ \A b \in Blocks : \A x, y \in StringsAround :
       IsViewOf(x, b) /\ IsViewOf(y, b) => [x EXCEPT !.cache = y.cache] = y
  /\ IsString(mail) => mail.cache = Nothing
  /\ CacheAgreesWithIndex

(* The values behind objects, blocks and messages, as in SharedVector. *)
ValueOf(x) ==
  IF x = Nothing THEN Nothing
  ELSE IF IsString(x) /\ IsView(x.index) /\ ~x.cow THEN <<"common", x.index.block>>
  ELSE <<"own", DataOf(x)>>

Values == [v \in Vars |-> ValueOf(object[v])]

Common ==
  [b \in Blocks |->
     LET members == {x \in StringsAround : ValueOf(x) = <<"common", b>>}
     IN IF members = {} THEN Nothing ELSE DataOf(CHOOSE x \in members : TRUE)]

Promise == INSTANCE ValueStore WITH
  Groups <- Blocks,
  Elements <- Strings,
  value <- Values,
  common <- Common,
  post <- ValueOf(mail)

(* Shared strings behave as character vectors: encoded, cached, decoded,   *)
(* aliased, duplicated, sent, read late or collected, a variable with copy *)
(* on write changes only when it is assigned, and one without follows the  *)
(* writes to its block.                                                    *)
StringsAsPromised == Promise!StoreSpec

(* What is said of set_elt: only a value that is not in the vector cannot  *)
(* be set (src/R/allGenerics.R:41-42, and the error message in             *)
(* stringAltrepOperations.cpp:107-109); so one that is, can.               *)
AssignedElementIsRead ==
  [][\A v \in Vars, i \in Indices, c \in Strings :
       SetElement(v, i, c) =>
         DataOf(object[v])' = [DataOf(object[v]) EXCEPT ![i] = c]]_strVars

=============================================================================
