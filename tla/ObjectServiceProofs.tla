------------------------- MODULE ObjectServiceProofs -------------------------
(***************************************************************************)
(* ObjectLifecycle implements BlockService: under the inductive invariant  *)
(* ObjIInv every step of a session makes, opens, closes or frees one block *)
(* at once, ends a session, or leaves the blocks alone.  The refinement    *)
(* mapping is that of ObjectLifecycle (Service there).                     *)
(***************************************************************************)
EXTENDS ObjectLifecycleProofs

(* Both ends of a step satisfy the invariant.                              *)
Sound == ObjIInv /\ ObjIInv'

----------------------------------------------------------------------------
(* What the refinement mapping shows, block by block *)

(* An id is a block from when its creator owns it, and as long as anybody  *)
(* can read a message about it.                                            *)
LEMMA BornMeans ==
  ASSUME Sound, NEW k \in Keys
  PROVE  /\ Born(k) <=> Mailed(k) \/ \E p \in Procs : Owns(p, k)
         /\ Born(k)' <=> Mailed(k)' \/ \E p \in Procs : Owns(p, k)'
BY DEF Sound, ObjIInv, ObjectsHaveOrigin, Born, Mailed

(* What a session has open. *)
LEMMA OpenedMeans ==
  ASSUME NEW p \in Procs, NEW k \in Keys
  PROVE  /\ Opened(p, k) <=> Born(k) /\ Handle(p, k) # NoSeg
         /\ Opened(p, k)' <=> Born(k)' /\ Handle(p, k)' # NoSeg
BY DEF Opened, Handle

(* Who will remove the name: sessions cannot be confused with NoSeg or     *)
(* with the orphan's "nobody", and no two of them own an id.               *)
LEMMA OwnerMeans ==
  ASSUME Sound, NEW k \in Keys
  PROVE  /\ names[k] = NoSeg \/ ~Born(k) <=> OwnerOf(k) = NoSeg
         /\ names'[k] = NoSeg \/ ~Born(k)' <=> OwnerOf(k)' = NoSeg
         /\ \A p \in Procs : OwnerOf(k) = p <=> names[k] # NoSeg /\ Owns(p, k)
         /\ \A p \in Procs : OwnerOf(k)' = p <=> names'[k] # NoSeg /\ Owns(p, k)'
         /\ OwnerOf(k) \in Procs \cup {NoSeg, "nobody"}
         /\ OwnerOf(k)' \in Procs \cup {NoSeg, "nobody"}
<1>1. /\ \A p \in Procs : Owns(p, k) => Born(k)
      /\ \A p \in Procs : Owns(p, k)' => Born(k)'
  BY DEF Born
<1>2. /\ \A p, q \in Procs : Owns(p, k) /\ Owns(q, k) => p = q
      /\ \A p, q \in Procs : Owns(p, k)' /\ Owns(q, k)' => p = q
  BY DEF Sound, ObjIInv, OneOwner
<1>3. /\ names[k] = NoSeg \/ ~Born(k) <=> OwnerOf(k) = NoSeg
      /\ \A p \in Procs : OwnerOf(k) = p <=> names[k] # NoSeg /\ Owns(p, k)
      /\ OwnerOf(k) \in Procs \cup {NoSeg, "nobody"}
  BY <1>1, <1>2, ObjectAssumption DEF OwnerOf
<1>4. /\ names'[k] = NoSeg \/ ~Born(k)' <=> OwnerOf(k)' = NoSeg
      /\ \A p \in Procs : OwnerOf(k)' = p <=> names'[k] # NoSeg /\ Owns(p, k)'
      /\ OwnerOf(k)' \in Procs \cup {NoSeg, "nobody"}
  BY <1>1, <1>2, ObjectAssumption DEF OwnerOf
<1> QED BY <1>3, <1>4

(* What is in the block: the one segment everybody means by its id.        *)
LEMMA ContentsMean ==
  ASSUME Sound, NEW k \in Keys
  PROVE  /\ OwnerOf(k) # NoSeg => ContentsOf(k) = names[k]
         /\ OwnerOf(k)' # NoSeg => ContentsOf(k)' = names'[k]
         /\ \A p \in Procs : Opened(p, k) => ContentsOf(k) = Handle(p, k)
         /\ \A p \in Procs : Opened(p, k)' => ContentsOf(k)' = Handle(p, k)'
         /\ OwnerOf(k) = NoSeg /\ (\A p \in Procs : ~Opened(p, k)) => ContentsOf(k) = NoSeg
         /\ OwnerOf(k)' = NoSeg /\ (\A p \in Procs : ~Opened(p, k)') => ContentsOf(k)' = NoSeg
<1>1. /\ \E s : \A p \in Procs : names[k] \in {s, NoSeg} /\ Handle(p, k) \in {s, NoSeg}
      /\ \E s : \A p \in Procs : names'[k] \in {s, NoSeg} /\ Handle(p, k)' \in {s, NoSeg}
  BY DEF Sound, ObjIInv, IdsMeanOneSegment, Means
<1>2. /\ \A p \in Procs : Opened(p, k) => Handle(p, k) # NoSeg
      /\ \A p \in Procs : Opened(p, k)' => Handle(p, k)' # NoSeg
      /\ \A p \in Procs : Opened(p, k) => Handle(p, k) = sharedObjectList[p][k].handle
      /\ \A p \in Procs : Opened(p, k)' => Handle(p, k)' = sharedObjectList'[p][k].handle
  BY DEF Opened, Handle
<1>3. /\ OwnerOf(k) # NoSeg => names[k] # NoSeg
      /\ OwnerOf(k)' # NoSeg => names'[k] # NoSeg
  BY OwnerMeans
<1>4. /\ OwnerOf(k) # NoSeg => ContentsOf(k) = names[k]
      /\ \A p \in Procs : Opened(p, k) => ContentsOf(k) = Handle(p, k)
      /\ OwnerOf(k) = NoSeg /\ (\A p \in Procs : ~Opened(p, k)) => ContentsOf(k) = NoSeg
  BY <1>1, <1>2, <1>3 DEF ContentsOf
<1>5. /\ OwnerOf(k)' # NoSeg => ContentsOf(k)' = names'[k]
      /\ \A p \in Procs : Opened(p, k)' => ContentsOf(k)' = Handle(p, k)'
      /\ OwnerOf(k)' = NoSeg /\ (\A p \in Procs : ~Opened(p, k)') => ContentsOf(k)' = NoSeg
  BY <1>1, <1>2, <1>3 DEF ContentsOf
<1> QED BY <1>4, <1>5

(* A block that somebody can still reach.                                  *)
Reach(k) == OwnerOf(k) # NoSeg \/ \E p \in Procs : Opened(p, k)

(* The service calls alive what can be reached.                            *)
LEMMA AliveMeans ==
  ASSUME NEW k \in Keys
  PROVE  /\ Service!Alive(k) <=> Reach(k)
         /\ Service!Alive(k)' <=> Reach(k)'
BY DEF Service!Alive, Service!Named, Reach

(* Who reached a block and still does reaches the same contents.           *)
LEMMA ContentsStay ==
  ASSUME Sound, NEW k \in Keys,
         Reach(k)' =>
           \/ OwnerOf(k) # NoSeg /\ OwnerOf(k)' # NoSeg /\ names'[k] = names[k]
           \/ \E p \in Procs : /\ Opened(p, k) /\ Opened(p, k)'
                               /\ Handle(p, k)' = Handle(p, k)
  PROVE  ContentsOf(k)' = IF Reach(k)' THEN ContentsOf(k) ELSE NoSeg
<1>1. CASE Reach(k)'
  BY <1>1, ContentsMean
<1>2. CASE ~Reach(k)'
  BY <1>2, ContentsMean DEF Reach
<1> QED BY <1>1, <1>2

(* The same, of all blocks: what BlockMemory calls DropUnreachable.        *)
LEMMA UnreachableDropped ==
  ASSUME \A k \in Keys :
           ContentsOf(k)' = IF Reach(k)' THEN ContentsOf(k) ELSE NoSeg
  PROVE  Service!DropUnreachable({})
BY AliveMeans DEF Service!DropUnreachable

----------------------------------------------------------------------------
(* Steps that the objects' memory does not notice *)

(* A step that keeps the name and the handles of one block keeps the block.*)
LEMMA BlockUnnoticed ==
  ASSUME Sound, NEW k \in Keys, Born(k)' <=> Born(k),
         Born(k) =>
           /\ names'[k] = names[k]
           /\ \A p \in Procs : Handle(p, k)' = Handle(p, k) /\ (Owns(p, k)' <=> Owns(p, k))
  PROVE  /\ OwnerOf(k)' = OwnerOf(k)
         /\ \A p \in Procs : Opened(p, k)' <=> Opened(p, k)
         /\ ContentsOf(k)' = ContentsOf(k)
         /\ ContentsOf(k)' = IF Reach(k)' THEN ContentsOf(k) ELSE NoSeg
<1>1. /\ OwnerOf(k)' = OwnerOf(k)
      /\ \A p \in Procs : Opened(p, k)' <=> Opened(p, k)
  BY OwnerMeans, OpenedMeans
<1>2. CASE Reach(k)
  <2>1. Born(k)
    BY <1>2, OwnerMeans, OpenedMeans DEF Reach
  <2> QED BY <1>1, <1>2, <2>1, ContentsMean DEF Reach
<1>3. CASE ~Reach(k)
  BY <1>1, <1>3, ContentsMean DEF Reach
<1> QED BY <1>1, <1>2, <1>3

(* The same, of all blocks: a stutter of the service.                      *)
LEMMA Unnoticed ==
  ASSUME Sound,
         \A k \in Keys : Born(k)' <=> Born(k),
         \A k \in Keys : Born(k) =>
           /\ names'[k] = names[k]
           /\ \A p \in Procs : Handle(p, k)' = Handle(p, k) /\ (Owns(p, k)' <=> Owns(p, k))
  PROVE  UNCHANGED Service!blockVars
BY BlockUnnoticed DEF Service!blockVars

(* In particular those that keep the names, and what the entries say.      *)
LEMMA KeepsBlocks ==
  ASSUME Sound, UNCHANGED names,
         \A p \in Procs, k \in Keys :
           Handle(p, k)' = Handle(p, k) /\ (Owns(p, k)' <=> Owns(p, k)),
         \A k \in Keys : Mailed(k)' <=> Mailed(k)
  PROVE  UNCHANGED Service!blockVars
BY BornMeans, Unnoticed

(* And those on an id that is not a block yet. *)
LEMMA UnbornUnnoticed ==
  ASSUME Sound, NEW p \in Procs, NEW k \in Keys,
         ~Born(k), ~Owns(p, k)', OthersKept(p, k), UNCHANGED mail,
         \A l \in Keys : l # k => names'[l] = names[l]
  PROVE  UNCHANGED Service!blockVars
<1>1. \A l \in Keys : Mailed(l)' <=> Mailed(l)
  BY DEF Mailed
<1>2. ASSUME NEW l \in Keys
      PROVE  Born(l)' <=> Born(l)
  <2>1. ASSUME NEW q \in Procs
        PROVE  Owns(q, l)' <=> Owns(q, l)
    <3>1. CASE q = p /\ l = k
      BY <3>1, BornMeans
    <3>2. CASE q # p \/ l # k
      BY <3>2 DEF OthersKept, Kept
    <3> QED BY <3>1, <3>2
  <2> QED BY <1>1, <2>1, BornMeans
<1> QED BY <1>2, Unnoticed DEF OthersKept, Kept

----------------------------------------------------------------------------
(* Steps that make, open, close or free a block *)

(* A block that nobody could reach appears in the session that makes it.   *)
LEMMA CreateStep ==
  ASSUME Sound, NEW p \in Procs, NEW k \in Keys,
         ~Reach(k), Opened(p, k)', OwnerOf(k)' \in {p, NoSeg},
         \A q \in Procs, l \in Keys : q # p \/ l # k => (Opened(q, l)' <=> Opened(q, l)),
         \A l \in Keys : l # k => OwnerOf(l)' = OwnerOf(l) /\ ContentsOf(l)' = ContentsOf(l)
  PROVE  Service!Create(p, k)
<1>1. ContentsOf(k)' \in Segs
  <2>1. ContentsOf(k)' = Handle(p, k)' /\ Handle(p, k)' # NoSeg
    BY ContentsMean, OpenedMeans
  <2>2. TypeOK'
    BY DEF Sound, ObjIInv, IInv
  <2>3. Handle(p, k)' \in Segs \cup {NoSeg}
    BY <2>2 DEF TypeOK, Handle, KeyInMap, SharedObject
  <2> QED BY <2>1, <2>3
<1> QED BY <1>1, AliveMeans DEF Service!Create

(* A session opens a block that has its name.                              *)
LEMMA OpenStep ==
  ASSUME Sound, NEW p \in Procs, NEW k \in Keys, OwnerOf(k) # NoSeg, Opened(p, k)',
         \A q \in Procs, l \in Keys : q # p \/ l # k => (Opened(q, l)' <=> Opened(q, l)),
         \A l \in Keys : OwnerOf(l)' = OwnerOf(l) /\ ContentsOf(l)' = ContentsOf(l)
  PROVE  Service!Open(p, k)
BY DEF Service!Open, Service!CanMap, Service!OpenBlock, Service!Named

(* A session closes a block: its name goes with its owner.                 *)
LEMMA CloseStep ==
  ASSUME Sound, NEW p \in Procs, NEW k \in Keys, Opened(p, k), ~Opened(p, k)',
         \A q \in Procs, l \in Keys : q # p \/ l # k => (Opened(q, l)' <=> Opened(q, l)),
         OwnerOf(k)' = IF OwnerOf(k) = p THEN NoSeg ELSE OwnerOf(k),
         \A l \in Keys : l # k => OwnerOf(l)' = OwnerOf(l),
         \A l \in Keys : ContentsOf(l)' = IF Reach(l)' THEN ContentsOf(l) ELSE NoSeg
  PROVE  Service!Close(p, k)
BY UnreachableDropped DEF Service!Close, Service!UnmapBlock

(* A block loses its name.                                                 *)
LEMMA FreeStep ==
  ASSUME Sound, NEW k \in Keys, OwnerOf(k)' = NoSeg,
         \A q \in Procs, l \in Keys : Opened(q, l)' <=> Opened(q, l),
         \A l \in Keys : l # k => OwnerOf(l)' = OwnerOf(l),
         \A l \in Keys : ContentsOf(l)' = IF Reach(l)' THEN ContentsOf(l) ELSE NoSeg
  PROVE  Service!FreeName(k)
BY UnreachableDropped DEF Service!FreeName

(* A session ends: it has nothing open any more, and the names it owned are*)
(* left or gone.                                                           *)
LEMMA GoneStep ==
  ASSUME Sound, NEW p \in Procs, NEW left \in SUBSET Keys,
         \A l \in Keys : ~Opened(p, l)',
         \A q \in Procs, l \in Keys : q # p => (Opened(q, l)' <=> Opened(q, l)),
         \A l \in Keys : OwnerOf(l)' = IF OwnerOf(l) # p THEN OwnerOf(l)
                                       ELSE IF l \in left THEN "nobody" ELSE NoSeg,
         \A l \in Keys : ContentsOf(l)' = IF Reach(l)' THEN ContentsOf(l) ELSE NoSeg
  PROVE  Service!Gone(p, left)
BY UnreachableDropped DEF Service!Gone

----------------------------------------------------------------------------
(* What each action does to the blocks *)

(* The id that share() is making is not a block.                           *)
LEMMA MakingIsUnborn ==
  ASSUME Sound, NEW p \in Procs, NEW k \in Keys, IsOn(p, k, {"create"} \cup Making)
  PROVE  ~Born(k) /\ ~Reach(k) /\ \A q \in Procs : ~Owns(q, k)
<1>1. CreationIsPrivate /\ IsOn(p, k, Searching \cup Making)
  BY DEF Sound, ObjIInv, IsOn, Searching
<1>2. ~Mailed(k) /\ \A q \in Procs : ~Owns(q, k)
  BY <1>1, NotListed DEF CreationIsPrivate
<1>3. ~Born(k)
  BY <1>2, BornMeans
<1> QED BY <1>2, <1>3, OwnerMeans, OpenedMeans DEF Reach

(* createEmptySharedObject makes a block when it takes the ownership.      *)
LEMMA OwningCreates ==
  ASSUME Sound, NEW p \in Procs, ShareOwn(p)
  PROVE  \E k \in Keys : Service!Create(p, k)
<1>0. TypeOK /\ ObjTypeOK /\ SessionsSound
  BY ObjIInvParts DEF Sound
<1>1. PICK k \in Keys : k = task[p].key /\ task[p].at = "own"
  BY <1>0, TaskTyped DEF ShareOwn, At
<1>2. /\ OthersKept(p, k) /\ UNCHANGED <<names, mail>>
      /\ Handle(p, k)' = Handle(p, k)
      /\ Owns(p, k)'
  BY <1>0, <1>1, OwnershipEffect DEF ShareOwn
<1>3. IsOn(p, k, Making)
  BY <1>1 DEF IsOn, Making
<1>4. Handle(p, k) # NoSeg /\ \A q \in Procs \ {p} : Handle(q, k) = NoSeg
  BY <1>0, <1>3, NotListed DEF SessionsSound, OwnersArePublished, CreationIsPrivate, IsOn
<1>5. ~Born(k) /\ ~Reach(k)
  BY <1>3, MakingIsUnborn DEF IsOn
<1>6. Opened(p, k)' /\ OwnerOf(k)' \in {p, NoSeg}
  BY <1>2, <1>4, OpenedMeans, BornMeans, OwnerMeans
<1>7. ASSUME NEW l \in Keys, l # k
      PROVE  /\ OwnerOf(l)' = OwnerOf(l)
             /\ ContentsOf(l)' = ContentsOf(l)
             /\ \A q \in Procs : Opened(q, l)' <=> Opened(q, l)
  <2>1. Born(l)' <=> Born(l)
    BY <1>2, <1>7, BornMeans DEF Mailed, OthersKept, Kept
  <2> QED BY <1>2, <1>7, <2>1, BlockUnnoticed DEF OthersKept, Kept
<1>8. \A q \in Procs : q # p => ~Opened(q, k)' /\ ~Opened(q, k)
  BY <1>2, <1>4, OpenedMeans DEF OthersKept, Kept
<1> QED BY <1>5, <1>6, <1>7, <1>8, CreateStep

(* readSharedObject opens a block by its name.                             *)
LEMMA OpeningOpens ==
  ASSUME Sound, NEW p \in Procs, NEW m \in mail, MapOpen(p, m.key), UNCHANGED mail
  PROVE  \E k \in Keys : Service!Open(p, k)
<1>0. TypeOK /\ ObjTypeOK
  BY ObjIInvParts DEF Sound
<1>1. PICK k \in Keys : k = m.key
  BY <1>0 DEF ObjTypeOK, Message
<1>2. /\ names[k] \in Segs
      /\ OthersKept(p, k)
      /\ Handle(p, k)' = names[k]
      /\ Owns(p, k)' <=> Owns(p, k)
      /\ UNCHANGED names
  BY <1>0, <1>1, OpenEffect
<1>3. Mailed(k) /\ \A l \in Keys : Mailed(l)' <=> Mailed(l)
  BY <1>1 DEF Mailed
<1>4. \A q \in Procs, l \in Keys : Owns(q, l)' <=> Owns(q, l)
  BY <1>2 DEF OthersKept, Kept
<1>5. Born(k) /\ \A l \in Keys : Born(l)' <=> Born(l)
  BY <1>3, <1>4, BornMeans
<1>6. names[k] # NoSeg /\ OwnerOf(k) # NoSeg
  BY <1>2, <1>5, OwnerMeans, ConstantsAssumption
<1>7. /\ Opened(p, k)'
      /\ \A q \in Procs : q # p => (Opened(q, k)' <=> Opened(q, k))
  BY <1>2, <1>5, <1>6, OpenedMeans DEF OthersKept, Kept
<1>8. OwnerOf(k)' = OwnerOf(k)
  BY <1>2, <1>4, <1>5, OwnerMeans
<1>9. ContentsOf(k)' = ContentsOf(k)
  BY <1>2, <1>6, <1>8, ContentsMean
<1>10. ASSUME NEW l \in Keys, l # k
       PROVE  /\ OwnerOf(l)' = OwnerOf(l)
              /\ ContentsOf(l)' = ContentsOf(l)
              /\ \A q \in Procs : Opened(q, l)' <=> Opened(q, l)
  BY <1>2, <1>5, <1>10, BlockUnnoticed DEF OthersKept, Kept
<1> QED BY <1>6, <1>7, <1>8, <1>9, <1>10, OpenStep

(* The registry erases an entry: the block is closed, and loses its name   *)
(* if the session was its owner.                                           *)
LEMMA ErasingCloses ==
  ASSUME Sound, NEW p \in Procs, NEW k \in Keys, Opened(p, k), ~KeyInMap(p, k)',
         OthersKept(p, k), UNCHANGED mail,
         names' = IF Owns(p, k) THEN [names EXCEPT ![k] = NoSeg] ELSE names
  PROVE  Service!Close(p, k)
<1>1. /\ \A l \in Keys : l # k => names'[l] = names[l]
      /\ names'[k] = IF Owns(p, k) THEN NoSeg ELSE names[k]
  BY DEF Sound, ObjIInv, IInv, TypeOK
<1>2. Handle(p, k)' = NoSeg /\ ~Owns(p, k)' /\ ~Opened(p, k)' /\ Born(k)
  BY NotListed, OpenedMeans
<1>3. \A l \in Keys : Mailed(l)' <=> Mailed(l)
  BY DEF Mailed
<1>4. ASSUME NEW l \in Keys, l # k
      PROVE  /\ OwnerOf(l)' = OwnerOf(l)
             /\ ContentsOf(l)' = IF Reach(l)' THEN ContentsOf(l) ELSE NoSeg
             /\ \A q \in Procs : Opened(q, l)' <=> Opened(q, l)
  <2>1. Born(l)' <=> Born(l)
    BY <1>3, <1>4, BornMeans DEF OthersKept, Kept
  <2> QED BY <1>1, <1>4, <2>1, BlockUnnoticed DEF OthersKept, Kept
<1>5. \A q \in Procs : q # p => Handle(q, k)' = Handle(q, k) /\ (Owns(q, k)' <=> Owns(q, k))
  BY DEF OthersKept, Kept
<1>6. CASE Owns(p, k)
  <2>1. \A q \in Procs : q # p => ~Owns(q, k)
    BY <1>6 DEF Sound, ObjIInv, OneOwner
  <2>2. Mailed(k) \/ \A q \in Procs : q # p => Handle(q, k) = NoSeg
    BY <1>6 DEF Sound, ObjIInv, UnmailedIsPrivate
  <2>3. Born(k)' <=> Mailed(k)
    BY <1>2, <1>3, <1>5, <2>1, BornMeans
  <2>4. \A q \in Procs : q # p => (Opened(q, k)' <=> Opened(q, k))
    BY <1>2, <1>5, <2>2, <2>3, OpenedMeans
  <2>5. OwnerOf(k)' = NoSeg /\ OwnerOf(k) \in {p, NoSeg}
    BY <1>1, <1>6, OwnerMeans
  <2>6. ContentsOf(k)' = IF Reach(k)' THEN ContentsOf(k) ELSE NoSeg
    <3>1. Reach(k)' => \E q \in Procs : /\ Opened(q, k) /\ Opened(q, k)'
                                        /\ Handle(q, k)' = Handle(q, k)
      BY <1>2, <1>5, <2>4, <2>5 DEF Reach
    <3> QED BY <3>1, ContentsStay
  <2> QED BY <1>2, <1>4, <2>4, <2>5, <2>6, CloseStep
<1>7. CASE ~Owns(p, k)
  <2>1. Born(k)'
    BY <1>2, <1>3, <1>5, <1>7, BornMeans
  <2>2. \A q \in Procs : q # p => (Opened(q, k)' <=> Opened(q, k))
    BY <1>2, <1>5, <2>1, OpenedMeans
  <2>3. OwnerOf(k)' = OwnerOf(k) /\ OwnerOf(k) # p
    <3>1. \A q \in Procs : Owns(q, k)' <=> Owns(q, k)
      BY <1>2, <1>5, <1>7
    <3> QED BY <1>1, <1>2, <1>7, <2>1, <3>1, OwnerMeans
  <2>4. ContentsOf(k)' = IF Reach(k)' THEN ContentsOf(k) ELSE NoSeg
    <3>1. Reach(k)' =>
            \/ OwnerOf(k) # NoSeg /\ OwnerOf(k)' # NoSeg /\ names'[k] = names[k]
            \/ \E q \in Procs : /\ Opened(q, k) /\ Opened(q, k)'
                                /\ Handle(q, k)' = Handle(q, k)
      BY <1>1, <1>2, <1>5, <1>7, <2>2, <2>3 DEF Reach
    <3> QED BY <3>1, ContentsStay
  <2> QED BY <1>2, <1>4, <2>2, <2>3, <2>4, CloseStep
<1> QED BY <1>6, <1>7

(* A session with an object on a block has it open.                        *)
LEMMA ObjectsAreOpened ==
  ASSUME Sound, NEW p \in Procs, NEW k \in Keys, objs[p][k] > 0
  PROVE  Opened(p, k)
<1>1. Born(k)
  BY DEF Born
<1>2. Region(p, k) # NoSeg /\ Region(p, k) = Handle(p, k)
  <2>1. mapCounter[p][k] = objs[p][k] + InFlight(p, k) /\ mapCounter[p][k] = held[p][k]
    BY DEF Sound, ObjIInv, IInv, EveryPointerHasAFinalizer, CounterCountsPointers
  <2>2. objs[p][k] \in Nat /\ InFlight(p, k) \in {0, 1}
    BY DEF Sound, ObjIInv, ObjTypeOK, InFlight
  <2>3. held[p][k] > 0
    BY <2>1, <2>2
  <2> QED BY <2>3 DEF Sound, ObjIInv, IInv, PointersStayMapped, RegionOfHandle
<1> QED BY <1>1, <1>2, OpenedMeans

(* A finalizer closes the block when it gives back the last pointer.       *)
LEMMA FinalizingCloses ==
  ASSUME Sound, NEW p \in Procs, NEW k \in Keys, Finalize(p, k)
  PROVE  Service!Close(p, k) \/ UNCHANGED Service!blockVars
<1>0. TypeOK /\ PointersCounted /\ Unmap(p, k) /\ UNCHANGED mail
  BY ObjIInvParts DEF Sound, Finalize
<1>1. CASE mapCounter[p][k] = 1
  <2>1. /\ OthersKept(p, k)
        /\ ~KeyInMap(p, k)'
        /\ names' = IF Owns(p, k) THEN [names EXCEPT ![k] = NoSeg] ELSE names
    BY <1>0, <1>1, UnmapEffect, ObjectAssumption
  <2>2. Opened(p, k)
    BY ObjectsAreOpened DEF Finalize
  <2> QED BY <1>0, <2>1, <2>2, ErasingCloses
<1>2. CASE mapCounter[p][k] # 1
  <2>1. AllKept /\ UNCHANGED names
    BY <1>0, <1>2, UnmapEffect, ObjectAssumption
  <2> QED BY <1>0, <2>1, KeepsBlocks DEF AllKept, Kept, Mailed
<1> QED BY <1>1, <1>2

(* freeSharedMemory closes the block in the caller's session, which does   *)
(* not own it for want of objects on it.                                   *)
LEMMA FreeingCloses ==
  ASSUME Sound, NEW p \in Procs, NEW k \in Keys, FreeById(p, k)
  PROVE  Service!Close(p, k) \/ UNCHANGED Service!blockVars
<1>0. TypeOK /\ SessionsSound /\ PointersCounted /\ UNCHANGED mail
  BY ObjIInvParts DEF Sound, FreeById
<1>1. ~Owns(p, k)
  <2>1. Region(p, k) = NoSeg
    BY <1>0 DEF FreeById, PointersCounted, PointersStayMapped, TypeOK
  <2> QED BY <1>0, <2>1 DEF SessionsSound, OwnersArePublished
<1>2. OthersKept(p, k) /\ ~KeyInMap(p, k)' /\ UNCHANGED names
  BY <1>0, <1>1, FreeEffect DEF FreeById
<1>3. ~Owns(p, k)' /\ Handle(p, k)' = NoSeg
  BY <1>2, NotListed
<1>4. CASE Opened(p, k)
  BY <1>0, <1>1, <1>2, <1>4, ErasingCloses
<1>5. CASE ~Opened(p, k) /\ Born(k)
  <2>1. Handle(p, k) = NoSeg
    BY <1>5, OpenedMeans
  <2>2. \A q \in Procs, l \in Keys :
           Handle(q, l)' = Handle(q, l) /\ (Owns(q, l)' <=> Owns(q, l))
    BY <1>1, <1>2, <1>3, <2>1 DEF OthersKept, Kept
  <2> QED BY <1>0, <1>2, <2>2, KeepsBlocks DEF Mailed
<1>6. CASE ~Born(k)
  BY <1>0, <1>2, <1>3, <1>6, UnbornUnnoticed
<1> QED BY <1>4, <1>5, <1>6

(* Removing a name frees the block, for everybody.                         *)
LEMMA RemovingFrees ==
  ASSUME Sound, NEW p \in Procs, RemoveName(p)
  PROVE  \E k \in Keys : Service!FreeName(k)
<1>0. TypeOK /\ Unlink(p) /\ UNCHANGED mail
  BY ObjIInvParts DEF Sound, RemoveName, objVars
<1>1. PICK k \in Keys : k = call[p].key
  BY <1>0 DEF Unlink, TypeOK, NoCall
<1>2. names'[k] = NoSeg /\ \A l \in Keys : l # k => names'[l] = names[l]
  BY <1>0, <1>1 DEF Unlink, TypeOK
<1>3. \A q \in Procs, l \in Keys :
         Handle(q, l)' = Handle(q, l) /\ (Owns(q, l)' <=> Owns(q, l))
  BY <1>0, KeepEffect DEF Unlink, AllKept, Kept
<1>4. \A l \in Keys : Born(l)' <=> Born(l)
  BY <1>0, <1>3, BornMeans DEF Mailed
<1>5. ASSUME NEW l \in Keys, l # k
      PROVE  /\ OwnerOf(l)' = OwnerOf(l)
             /\ ContentsOf(l)' = IF Reach(l)' THEN ContentsOf(l) ELSE NoSeg
  BY <1>2, <1>3, <1>4, <1>5, BlockUnnoticed
<1>6. \A q \in Procs, l \in Keys : Opened(q, l)' <=> Opened(q, l)
  BY <1>3, <1>4, OpenedMeans
<1>7. OwnerOf(k)' = NoSeg
  BY <1>2, OwnerMeans
<1>8. ContentsOf(k)' = IF Reach(k)' THEN ContentsOf(k) ELSE NoSeg
  <2>1. Reach(k)' => \E q \in Procs : /\ Opened(q, k) /\ Opened(q, k)'
                                      /\ Handle(q, k)' = Handle(q, k)
    BY <1>3, <1>6, <1>7 DEF Reach
  <2> QED BY <2>1, ContentsStay
<1> QED BY <1>5, <1>6, <1>7, <1>8, FreeStep

(* What one block sees of the end of a session, whatever happens to its    *)
(* name if the session owned it.                                           *)
LEMMA BlockOutlives ==
  ASSUME Sound, NEW p \in Procs, NEW k \in Keys,
         ~KeyInMap(p, k)', \A q \in Procs : q # p => Kept(q, k),
         Mailed(k)' <=> Mailed(k),
         names'[k] = names[k] \/ (Owns(p, k) /\ names'[k] = NoSeg)
  PROVE  /\ ~Opened(p, k)'
         /\ \A q \in Procs : q # p => (Opened(q, k)' <=> Opened(q, k))
         /\ OwnerOf(k)' = IF OwnerOf(k) # p THEN OwnerOf(k)
                          ELSE IF Mailed(k) /\ names'[k] # NoSeg THEN "nobody" ELSE NoSeg
         /\ ContentsOf(k)' = IF Reach(k)' THEN ContentsOf(k) ELSE NoSeg
<1>1. Handle(p, k)' = NoSeg /\ ~Owns(p, k)'
  BY NotListed
<1>2. ~Opened(p, k)'
  BY <1>1, OpenedMeans
<1>3. \A q \in Procs : q # p => Handle(q, k)' = Handle(q, k) /\ (Owns(q, k)' <=> Owns(q, k))
  BY DEF Kept
<1>4. CASE Owns(p, k)
  <2>1. \A q \in Procs : ~Owns(q, k)'
    BY <1>1, <1>3, <1>4 DEF Sound, ObjIInv, OneOwner
  <2>2. Born(k) /\ (Born(k)' <=> Mailed(k))
    BY <1>4, <2>1, BornMeans
  <2>3. Mailed(k) \/ \A q \in Procs : q # p => Handle(q, k) = NoSeg
    BY <1>4 DEF Sound, ObjIInv, UnmailedIsPrivate
  <2>4. \A q \in Procs : q # p => (Opened(q, k)' <=> Opened(q, k))
    BY <1>3, <2>2, <2>3, OpenedMeans
  <2>5. /\ OwnerOf(k) \in {p, NoSeg}
        /\ OwnerOf(k) = p <=> names[k] # NoSeg
    BY <1>4, <2>2, OwnerMeans
  <2>6. OwnerOf(k)' = IF Mailed(k) /\ names'[k] # NoSeg THEN "nobody" ELSE NoSeg
    BY <2>1, <2>2 DEF OwnerOf
  <2>7. OwnerOf(k)' = IF OwnerOf(k) # p THEN OwnerOf(k)
                      ELSE IF Mailed(k) /\ names'[k] # NoSeg THEN "nobody" ELSE NoSeg
    BY <2>5, <2>6
  <2>8. ContentsOf(k)' = IF Reach(k)' THEN ContentsOf(k) ELSE NoSeg
    <3>1. Reach(k)' =>
            \/ OwnerOf(k) # NoSeg /\ OwnerOf(k)' # NoSeg /\ names'[k] = names[k]
            \/ \E q \in Procs : /\ Opened(q, k) /\ Opened(q, k)'
                                /\ Handle(q, k)' = Handle(q, k)
      BY <1>2, <1>3, <2>4, <2>5, <2>6, ObjectAssumption DEF Reach
    <3> QED BY <3>1, ContentsStay
  <2> QED BY <1>2, <2>4, <2>7, <2>8
<1>5. CASE ~Owns(p, k)
  <2>1. \A q \in Procs : Owns(q, k)' <=> Owns(q, k)
    BY <1>1, <1>3, <1>5
  <2>2. Born(k)' <=> Born(k)
    BY <2>1, BornMeans
  <2>3. \A q \in Procs : q # p => (Opened(q, k)' <=> Opened(q, k))
    BY <1>3, <2>2, OpenedMeans
  <2>4. OwnerOf(k)' = OwnerOf(k) /\ OwnerOf(k) # p /\ names'[k] = names[k]
    <3>1. names'[k] = names[k] /\ (names[k] = NoSeg \/ ~Born(k) <=> OwnerOf(k) = NoSeg)
          /\ (names'[k] = NoSeg \/ ~Born(k)' <=> OwnerOf(k)' = NoSeg)
      BY <1>5, OwnerMeans
    <3>2. \A q \in Procs : OwnerOf(k)' = q <=> OwnerOf(k) = q
      BY <1>5, <2>1, <3>1, OwnerMeans
    <3>3. /\ OwnerOf(k) \in Procs \cup {NoSeg, "nobody"}
          /\ OwnerOf(k)' \in Procs \cup {NoSeg, "nobody"}
      BY OwnerMeans
    <3> QED BY <1>5, <2>2, <3>1, <3>2, <3>3, OwnerMeans
  <2>5. ContentsOf(k)' = IF Reach(k)' THEN ContentsOf(k) ELSE NoSeg
    <3>1. Reach(k)' =>
            \/ OwnerOf(k) # NoSeg /\ OwnerOf(k)' # NoSeg /\ names'[k] = names[k]
            \/ \E q \in Procs : /\ Opened(q, k) /\ Opened(q, k)'
                                /\ Handle(q, k)' = Handle(q, k)
      BY <1>2, <1>3, <2>3, <2>4 DEF Reach
    <3> QED BY <3>1, ContentsStay
  <2> QED BY <1>2, <2>3, <2>4, <2>5
<1> QED BY <1>4, <1>5

(* A session exits, or is killed: what it leaves are the names that it has *)
(* not removed and that somebody can read about.                           *)
LEMMA GoingIsGone ==
  ASSUME Sound, NEW p \in Procs, ProcessGone(p), UNCHANGED mail,
         \A k \in Keys : names'[k] = names[k] \/ (Owns(p, k) /\ names'[k] = NoSeg)
  PROVE  \E left \in SUBSET Keys : Service!Gone(p, left)
<1> DEFINE left == {k \in Keys : Mailed(k) /\ names'[k] # NoSeg}
<1>1. /\ \A q \in Procs, l \in Keys : q # p => Kept(q, l)
      /\ \A l \in Keys : ~KeyInMap(p, l)'
  BY GoneEffect, ObjIInvParts DEF Sound
<1>2. ASSUME NEW k \in Keys
      PROVE  /\ ~Opened(p, k)'
             /\ \A q \in Procs : q # p => (Opened(q, k)' <=> Opened(q, k))
             /\ OwnerOf(k)' = IF OwnerOf(k) # p THEN OwnerOf(k)
                              ELSE IF k \in left THEN "nobody" ELSE NoSeg
             /\ ContentsOf(k)' = IF Reach(k)' THEN ContentsOf(k) ELSE NoSeg
  BY <1>1, BlockOutlives DEF Mailed
<1>3. left \in SUBSET Keys
  OBVIOUS
<1> HIDE DEF left
<1>4. Service!Gone(p, left)
  BY <1>2, <1>3, GoneStep
<1> QED BY <1>3, <1>4

(* An exit removes the names the session owns, a kill leaves them.         *)
LEMMA EndsAreGone ==
  ASSUME Sound, NEW p \in Procs, QuitR(p) \/ CrashR(p)
  PROVE  \E left \in SUBSET Keys : Service!Gone(p, left)
<1>1. CASE QuitR(p)
  <2>1. ProcessGone(p) /\ UNCHANGED mail
    BY <1>1 DEF QuitR, Quit, SessionGone
  <2>2. \A k \in Keys : names'[k] = IF Owns(p, k) THEN NoSeg ELSE names[k]
    BY <1>1 DEF QuitR, Quit, Owns
  <2> QED BY <2>1, <2>2, GoingIsGone
<1>2. CASE CrashR(p)
  BY <1>2, GoingIsGone DEF CrashR, Crash, SessionGone, osVars
<1> QED BY <1>1, <1>2

----------------------------------------------------------------------------
(* The steps between, which nobody who uses an object notices *)

(* createEmptySharedObject allocates an id that is not a block yet, or     *)
(* finds its name in use, or fails and gives the id up.                    *)
LEMMA AllocatingUnnoticed ==
  ASSUME Sound, NEW p \in Procs, ShareAllocate(p) \/ ShareAllocateFails(p)
  PROVE  UNCHANGED Service!blockVars
<1>0. TypeOK /\ WellFormed /\ ObjTypeOK /\ SessionsSound
  BY ObjIInvParts DEF Sound
<1>1. PICK k \in Keys : k = task[p].key /\ task[p].at \in {"create", "allocating"}
  BY <1>0, TaskTyped DEF ShareAllocate, ShareAllocateFails, At
<1>2. ~Born(k) /\ ~Owns(p, k)
  BY <1>1, MakingIsUnborn DEF IsOn, Making
<1>3. /\ OthersKept(p, k)
      /\ Owns(p, k)' <=> Owns(p, k)
      /\ \A l \in Keys : l # k => names'[l] = names[l]
  <2>1. CASE ShareAllocate(p)
    <3>1. PICK size \in Sizes : AllocateNameInUse(p, k, size) \/ AllocateCreate(p, k, size)
      BY <1>1, <2>1 DEF ShareAllocate
    <3>2. CASE AllocateNameInUse(p, k, size)
      BY <1>0, <3>2, NameInUseEffect
    <3>3. CASE AllocateCreate(p, k, size)
      BY <1>0, <3>3, CreateEffect DEF TypeOK
    <3> QED BY <3>1, <3>2, <3>3
  <2>2. CASE ShareAllocateFails(p)
    <3>1. k = call[p].key /\ AllocateFails(p)
      BY <1>0, <1>1, <2>2 DEF ShareAllocateFails, SessionsSound, CallsMatchTasks, At
    <3> QED BY <1>0, <3>1, FailureEffect DEF TypeOK
  <2> QED BY <2>1, <2>2
<1>4. UNCHANGED mail
  BY DEF ShareAllocate, ShareAllocateFails
<1> QED BY <1>2, <1>3, <1>4, UnbornUnnoticed

(* Reading the size back and mapping write an entry, but not its handle;   *)
(* all other steps of share(), and wrapping the object, write none.        *)
LEMMA SharingUnnoticed ==
  ASSUME Sound, NEW p \in Procs,
         \/ TakeId(p) \/ ProbeId(p) \/ ShareTruncate(p) \/ ShareAllocated(p)
         \/ ShareSigbus(p) \/ ShareMap(p) \/ ShareMapped(p) \/ ShareMapFails(p) \/ Wrap(p)
         \/ ReadMapped(p) \/ ReadFails(p)
  PROVE  UNCHANGED Service!blockVars
<1>0. WellFormed
  BY ObjIInvParts DEF Sound
<1>1. UNCHANGED <<names, mail>>
  BY DEF TakeId, ProbeId, ShareTruncate, ShareAllocated, ShareSigbus, ShareMap, ShareMapped,
         ShareMapFails, Wrap, ReadMapped, ReadFails, Truncate, ValidateOK, AllocateSigbus,
         MapWithHandle, MmapOK, MmapFails, vars, objVars
<1>2. \A q \in Procs, l \in Keys : Handle(q, l)' = Handle(q, l) /\ (Owns(q, l)' <=> Owns(q, l))
  <2>1. CASE ShareAllocated(p)
    BY <1>0, <2>1, ValidateEffect DEF ShareAllocated, AllKept, Kept
  <2>2. CASE ShareMapped(p) \/ ReadMapped(p)
    <3>1. MmapOK(p)
      BY <2>2 DEF ShareMapped, ReadMapped
    <3>2. PICK k \in Keys : k = call[p].key
      BY <1>0, <3>1, InsideCall DEF MmapOK, HandleSteps
    <3>3. OthersKept(p, k) /\ Handle(p, k)' = Handle(p, k) /\ (Owns(p, k)' <=> Owns(p, k))
      BY <1>0, <3>1, <3>2, MappedEffect
    <3> QED BY <3>3 DEF OthersKept, Kept
  <2>3. CASE \/ TakeId(p) \/ ProbeId(p) \/ ShareTruncate(p) \/ ShareSigbus(p) \/ ShareMap(p)
             \/ ShareMapFails(p) \/ Wrap(p) \/ ReadFails(p)
    <3>1. UNCHANGED sharedObjectList
      BY <2>3 DEF TakeId, ProbeId, ShareTruncate, ShareSigbus, ShareMap, ShareMapFails, Wrap,
                  ReadFails, Truncate, AllocateSigbus, MapWithHandle, MmapFails, vars
    <3> QED BY <3>1, KeepEffect DEF AllKept, Kept
  <2> QED BY <2>1, <2>2, <2>3
<1> QED BY <1>1, <1>2, KeepsBlocks DEF Mailed

(* An object on memory that the session has open already, or on memory     *)
(* that does not exist any more.                                           *)
LEMMA ReadingUnnoticed ==
  ASSUME Sound, NEW p \in Procs, NEW k \in Keys, UNCHANGED mail,
         MapMapped(p, k) \/ MapWithHandle(p, k) \/ MapNotFound(p, k)
  PROVE  UNCHANGED Service!blockVars
<1>0. TypeOK
  BY ObjIInvParts DEF Sound
<1>1. UNCHANGED names
  BY DEF MapMapped, MapWithHandle, MapNotFound
<1>2. \A q \in Procs, l \in Keys : Handle(q, l)' = Handle(q, l) /\ (Owns(q, l)' <=> Owns(q, l))
  <2>1. CASE MapMapped(p, k) \/ MapWithHandle(p, k)
    BY <2>1, KeepEffect DEF MapMapped, MapWithHandle, AllKept, Kept
  <2>2. CASE MapNotFound(p, k)
    BY <1>0, <2>2, NotFoundEffect DEF OthersKept, Kept
  <2> QED BY <2>1, <2>2
<1> QED BY <1>1, <1>2, KeepsBlocks DEF Mailed

(* A message about a block is not the first that makes it one: the sender  *)
(* has an object on it.                                                    *)
LEMMA MailingUnnoticed ==
  ASSUME Sound, NEW p \in Procs, NEW k \in Keys, Serialize(p, k)
  PROVE  UNCHANGED Service!blockVars
<1>1. /\ UNCHANGED <<names, sharedObjectList, objs>>
      /\ mail' = mail \cup {[key |-> k, seg |-> s] : s \in stands[p][k]}
      /\ objs[p][k] > 0
  BY DEF Serialize, vars
<1>2. \A q \in Procs, l \in Keys : Handle(q, l)' = Handle(q, l) /\ (Owns(q, l)' <=> Owns(q, l))
  BY <1>1, KeepEffect DEF AllKept, Kept
<1>3. \A l \in Keys : l # k => (Mailed(l)' <=> Mailed(l))
  BY <1>1 DEF Mailed
<1>4. Born(k) /\ Born(k)'
  BY <1>1 DEF Born
<1>5. \A l \in Keys : Born(l)' <=> Born(l)
  BY <1>2, <1>3, <1>4, BornMeans
<1> QED BY <1>1, <1>2, <1>5, Unnoticed

(* Reading a message opens the block, or finds it open or gone.            *)
LEMMA UnserializingOpens ==
  ASSUME Sound, NEW p \in Procs, NEW m \in mail, Unserialize(p, m)
  PROVE  (\E k \in Keys : Service!Open(p, k)) \/ UNCHANGED Service!blockVars
<1>1. m.key \in Keys /\ UNCHANGED mail
  BY DEF Sound, ObjIInv, ObjTypeOK, Message, Unserialize
<1>2. CASE MapOpen(p, m.key)
  BY <1>1, <1>2, OpeningOpens
<1>3. CASE MapMapped(p, m.key) \/ MapWithHandle(p, m.key) \/ MapNotFound(p, m.key)
  <2>1. PICK k \in Keys : k = m.key
    BY <1>1
  <2> QED BY <1>1, <1>3, <2>1, ReadingUnnoticed
<1> QED BY <1>2, <1>3 DEF Unserialize

----------------------------------------------------------------------------
(* The refinement *)

(* In the beginning there are names that nobody knows, and no blocks.      *)
LEMMA NoBlocksAtFirst == ObjInit => Service!MemInit
<1> SUFFICES ASSUME ObjInit
             PROVE  Service!MemInit
  OBVIOUS
<1>1. \A p \in Procs, k \in Keys : ~Owns(p, k) /\ ~(objs[p][k] > 0)
  BY DEF ObjInit, RegistryInit, Owns, KeyInMap
<1>2. \A k \in Keys : ~Born(k)
  BY <1>1 DEF ObjInit, Born
<1>3. \A k \in Keys : OwnerOf(k) = NoSeg
  BY <1>2 DEF OwnerOf
<1>4. \A p \in Procs, k \in Keys : ~Opened(p, k)
  BY <1>2 DEF Opened
<1>5. \A k \in Keys : ContentsOf(k) = NoSeg
  BY <1>3, <1>4 DEF ContentsOf
<1> QED BY <1>3, <1>4, <1>5 DEF Service!MemInit

(* One step of a session is at most one step of the service.               *)
LEMMA StepsServeBlocks ==
  ASSUME Sound, [ObjNext]_allVars
  PROVE  [Service!ServiceNext]_(Service!blockVars)
<1>1. CASE UNCHANGED allVars
  BY <1>1, KeepEffect, KeepsBlocks DEF allVars, vars, objVars, AllKept, Kept, Mailed
<1>2. CASE ObjNext
  <2>1. PICK p \in Procs :
          \/ Share(p)
          \/ \E k \in Keys : Serialize(p, k)
          \/ \E m \in mail : Unserialize(p, m)
          \/ ReadMapped(p)
          \/ ReadFails(p)
          \/ \E k \in Keys : Duplicate(p, k)
          \/ \E k \in Keys : Finalize(p, k)
          \/ \E k \in Keys : FreeById(p, k)
          \/ RemoveName(p)
          \/ QuitR(p)
          \/ CrashR(p)
    BY <1>2 DEF ObjNext
  <2>2. CASE Share(p)
    <3>1. CASE ShareOwn(p)
      BY <3>1, OwningCreates DEF Service!ServiceNext
    <3>2. CASE ShareAllocate(p) \/ ShareAllocateFails(p)
      BY <3>2, AllocatingUnnoticed
    <3> QED BY <2>2, <3>1, <3>2, SharingUnnoticed DEF Share
  <2>3. CASE ReadMapped(p) \/ ReadFails(p)
    BY <2>3, SharingUnnoticed
  <2>4. CASE \E k \in Keys : Serialize(p, k)
    BY <2>4, MailingUnnoticed
  <2>5. CASE \E m \in mail : Unserialize(p, m)
    BY <2>5, UnserializingOpens DEF Service!ServiceNext
  <2>6. CASE \E k \in Keys : Duplicate(p, k)
    BY <2>6, ReadingUnnoticed DEF Duplicate
  <2>7. CASE \E k \in Keys : Finalize(p, k)
    BY <2>7, FinalizingCloses DEF Service!ServiceNext
  <2>8. CASE \E k \in Keys : FreeById(p, k)
    BY <2>8, FreeingCloses DEF Service!ServiceNext
  <2>9. CASE RemoveName(p)
    BY <2>9, RemovingFrees DEF Service!ServiceNext
  <2>10. CASE QuitR(p) \/ CrashR(p)
    BY <2>10, EndsAreGone DEF Service!ServiceNext
  <2> QED BY <2>1, <2>2, <2>3, <2>4, <2>5, <2>6, <2>7, <2>8, <2>9, <2>10
<1> QED BY <1>1, <1>2

(* Shared objects get what BlockService promises, in every behaviour of    *)
(* any number of sessions: memory that appears whole, that is opened by    *)
(* its name, and that stays what it is while anybody can reach it.         *)
THEOREM ObjectsGetBlocks == ObjSpec => BlocksAsPromised
<1>1. ObjInit => Service!MemInit
  BY NoBlocksAtFirst
<1>2. ObjIInv /\ ObjIInv' /\ [ObjNext]_allVars => [Service!ServiceNext]_(Service!blockVars)
  BY StepsServeBlocks DEF Sound
<1> QED BY <1>1, <1>2, ObjInductiveInvariant, PTL
    DEF ObjSpec, BlocksAsPromised, Service!ServiceSpec

=============================================================================
