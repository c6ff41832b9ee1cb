--------------------------- MODULE RegistryEffects ---------------------------
(***************************************************************************)
(* What the actions of SharedMemory do, entry by entry, for the proofs     *)
(* about its clients, ObjectLifecycle and PkgData.  They see an entry of   *)
(* the registry through four attributes: whether it is listed, its handle, *)
(* its region and its ownership.                                           *)
(***************************************************************************)
EXTENDS SharedMemoryProofs

(* The registry's invariant is kept by whatever disciplined clients do.    *)
LEMMA RegistrySoundStep ==
  ASSUME IInv, Disciplined, [Next]_vars
  PROVE  IInv'
<1>1. WellFormed /\ SegmentsSound /\ PointersCounted
  BY DEF IInv, WellFormed, SegmentsSound, PointersCounted
<1>2. WellFormed' /\ SegmentsSound' /\ PointersCounted'
  BY <1>1, WellFormedStep, SegmentsSoundStep, PointersCountedStep
<1> QED BY <1>2 DEF WellFormed, SegmentsSound, PointersCounted, IInv

----------------------------------------------------------------------------
(* The four attributes of an entry *)

Kept(q, l) ==
  /\ KeyInMap(q, l)' <=> KeyInMap(q, l)
  /\ Handle(q, l)' = Handle(q, l)
  /\ Region(q, l)' = Region(q, l)
  /\ Owns(q, l)' <=> Owns(q, l)

OthersKept(p, k) == \A q \in Procs, l \in Keys : q # p \/ l # k => Kept(q, l)
AllKept == \A q \in Procs, l \in Keys : Kept(q, l)

(* A key that is not listed has nothing.                                   *)
LEMMA NotListed ==
  ASSUME NEW p \in Procs, NEW k \in Keys
  PROVE  /\ ~KeyInMap(p, k) => Handle(p, k) = NoSeg /\ Region(p, k) = NoSeg /\ ~Owns(p, k)
         /\ ~KeyInMap(p, k)' =>
              Handle(p, k)' = NoSeg /\ Region(p, k)' = NoSeg /\ ~Owns(p, k)'
BY DEF Handle, Region, Owns

(* Writing an object.                                                      *)
LEMMA WriteEffect ==
  ASSUME TypeOK, NEW p \in Procs, NEW k \in Keys, NEW so \in SharedObject,
         SetObject(p, k, so)
  PROVE  /\ OthersKept(p, k)
         /\ KeyInMap(p, k)'
         /\ Handle(p, k)' = so.handle
         /\ Region(p, k)' = so.region
         /\ Owns(p, k)' <=> so.ownData
<1>1. so # NoEntry
  BY ConstantsAssumption
<1>2. \A q \in Procs, l \in Keys :
         sharedObjectList'[q][l] = IF q = p /\ l = k THEN so ELSE sharedObjectList[q][l]
  BY SetObjectEffect
<1> QED BY <1>1, <1>2 DEF OthersKept, Kept, KeyInMap, Handle, Region, Owns

(* Erasing an object: its owner takes the name along.                      *)
LEMMA EraseEffect ==
  ASSUME TypeOK, NEW p \in Procs, NEW k \in Keys, KeyInMap(p, k), Erase(p, k)
  PROVE  /\ OthersKept(p, k)
         /\ ~KeyInMap(p, k)'
         /\ names' = IF Owns(p, k) THEN [names EXCEPT ![k] = NoSeg] ELSE names
<1>1. \A q \in Procs, l \in Keys :
         sharedObjectList'[q][l] = IF q = p /\ l = k THEN NoEntry ELSE sharedObjectList[q][l]
  BY SetObjectEffect DEF Erase
<1> QED BY <1>1 DEF Erase, OthersKept, Kept, KeyInMap, Handle, Region, Owns

(* An entry that exists keeps what it has when allocating or mapping looks *)
(* at it, and a new one has nothing.                                       *)
LEMMA EmplacedEffect ==
  ASSUME TypeOK, NEW p \in Procs, NEW k \in Keys, NEW n \in Nat
  PROVE  /\ Emplaced(p, k, n) \in SharedObject
         /\ Emplaced(p, k, n).handle = Handle(p, k)
         /\ Emplaced(p, k, n).region = Region(p, k)
         /\ Emplaced(p, k, n).ownData <=> Owns(p, k)
BY EmplacedTyped DEF Emplaced, NewObject, Handle, Region, Owns

(* A step that writes no entry.                                            *)
LEMMA KeepEffect ==
  ASSUME UNCHANGED sharedObjectList
  PROVE  AllKept
BY DEF AllKept, Kept, KeyInMap, Handle, Region, Owns

(* create_only: failure and success.                                       *)
LEMMA NameInUseEffect ==
  ASSUME TypeOK, NEW p \in Procs, NEW k \in Keys, NEW size \in Sizes,
         AllocateNameInUse(p, k, size)
  PROVE  /\ OthersKept(p, k)
         /\ Handle(p, k)' = Handle(p, k)
         /\ Region(p, k)' = Region(p, k)
         /\ Owns(p, k)' <=> Owns(p, k)
         /\ UNCHANGED <<names, mapCounter, call, held>>
BY EmplacedEffect, WriteEffect, ConstantsAssumption DEF AllocateNameInUse

(* create_only succeeds.                                                   *)
LEMMA CreateEffect ==
  ASSUME TypeOK, NEW p \in Procs, NEW k \in Keys, NEW size \in Sizes,
         AllocateCreate(p, k, size)
  PROVE  \E s \in Segs :
           /\ ~InUse(s)
           /\ names' = [names EXCEPT ![k] = s]
           /\ OthersKept(p, k)
           /\ KeyInMap(p, k)'
           /\ Handle(p, k)' = s
           /\ Region(p, k)' = Region(p, k)
           /\ Owns(p, k)' <=> Owns(p, k)
           /\ call' = [call EXCEPT ![p] = [at |-> "truncate", key |-> k]]
           /\ UNCHANGED <<mapCounter, held>>
<1>1. PICK s \in Segs : /\ ~InUse(s)
                        /\ names' = [names EXCEPT ![k] = s]
                        /\ SetObject(p, k, [Emplaced(p, k, size) EXCEPT !.handle = s])
  BY DEF AllocateCreate
<1> DEFINE so == [Emplaced(p, k, size) EXCEPT !.handle = s]
<1>2. /\ so \in SharedObject
      /\ so.handle = s
      /\ so.region = Region(p, k)
      /\ so.ownData <=> Owns(p, k)
  BY EmplacedEffect, ConstantsAssumption DEF SharedObject
<1>3. SetObject(p, k, so)
  BY <1>1
<1> HIDE DEF so
<1> QED BY <1>1, <1>2, <1>3, WriteEffect DEF AllocateCreate, Goto

(* The rest of an allocation.                                              *)
LEMMA TruncateEffect ==
  ASSUME NEW p \in Procs, Truncate(p)
  PROVE  /\ AllKept
         /\ call' = [call EXCEPT ![p] = [at |-> "validate", key |-> call[p].key]]
         /\ UNCHANGED <<names, mapCounter, held>>
BY KeepEffect DEF Truncate, Goto

(* The size is read back.                                                  *)
LEMMA ValidateEffect ==
  ASSUME WellFormed, NEW p \in Procs, ValidateOK(p)
  PROVE  /\ AllKept
         /\ call' = [call EXCEPT ![p] = NoCall]
         /\ UNCHANGED <<names, mapCounter, held>>
<1>1. call[p].at \in HandleSteps
  BY DEF ValidateOK, HandleSteps, AllocateSteps
<1>2. PICK k \in Keys : k = call[p].key
  BY <1>1, InsideCall
<1> DEFINE so == [sharedObjectList[p][k] EXCEPT !.size = segSize[sharedObjectList[p][k].handle]]
<1>3. /\ so \in SharedObject
      /\ so.handle = Handle(p, k)
      /\ so.region = Region(p, k)
      /\ so.ownData <=> Owns(p, k)
      /\ KeyInMap(p, k)
  BY <1>1, <1>2, InsideCall DEF SharedObject, Handle, Region, Owns, WellFormed, TypeOK
<1>4. SetObject(p, k, so)
  BY <1>2 DEF ValidateOK
<1> HIDE DEF so
<1>5. OthersKept(p, k) /\ Kept(p, k)
  BY <1>3, <1>4, WriteEffect DEF Kept, WellFormed
<1> QED BY <1>5 DEF OthersKept, AllKept, ValidateOK, Return

(* The allocation fails.                                                   *)
LEMMA FailureEffect ==
  ASSUME WellFormed, NEW p \in Procs, AllocateFails(p), NEW k \in Keys, k = call[p].key
  PROVE  /\ names' = [names EXCEPT ![k] = NoSeg]
         /\ OthersKept(p, k)
         /\ KeyInMap(p, k)'
         /\ Handle(p, k)' = NoSeg
         /\ Region(p, k)' = NoSeg
         /\ Owns(p, k)' <=> Owns(p, k)
         /\ call' = [call EXCEPT ![p] = NoCall]
         /\ UNCHANGED <<mapCounter, held>>
<1> DEFINE so == [sharedObjectList[p][k] EXCEPT !.handle = NoSeg]
<1>1. call[p].at \in HandleSteps
  BY DEF AllocateFails, HandleSteps, AllocateSteps
<1>2. KeyInMap(p, k) /\ sharedObjectList[p][k] \in SharedObject
      /\ sharedObjectList[p][k].region = NoSeg
  BY <1>1, InsideCall
<1>3. /\ so \in SharedObject
      /\ so.handle = NoSeg
      /\ so.region = NoSeg
      /\ so.ownData <=> Owns(p, k)
  BY <1>2 DEF SharedObject, Owns
<1>4. SetObject(p, k, so)
  BY DEF AllocateFails
<1> HIDE DEF so
<1> QED BY <1>3, <1>4, WriteEffect DEF WellFormed, AllocateFails, Return

(* Opening a name, or finding none.                                        *)
LEMMA NotFoundEffect ==
  ASSUME TypeOK, NEW p \in Procs, NEW k \in Keys, MapNotFound(p, k)
  PROVE  /\ OthersKept(p, k)
         /\ Handle(p, k)' = Handle(p, k)
         /\ Region(p, k)' = Region(p, k)
         /\ Owns(p, k)' <=> Owns(p, k)
         /\ UNCHANGED <<names, call, held>>
BY EmplacedEffect, WriteEffect DEF MapNotFound

(* The name is found.                                                      *)
LEMMA OpenEffect ==
  ASSUME TypeOK, NEW p \in Procs, NEW k \in Keys, MapOpen(p, k)
  PROVE  /\ names[k] \in Segs
         /\ OthersKept(p, k)
         /\ KeyInMap(p, k)'
         /\ Handle(p, k) = NoSeg
         /\ Handle(p, k)' = names[k]
         /\ Region(p, k)' = Region(p, k)
         /\ Owns(p, k)' <=> Owns(p, k)
         /\ call' = [call EXCEPT ![p] = [at |-> "mmap", key |-> k]]
         /\ UNCHANGED <<names, held>>
<1> DEFINE so == [Emplaced(p, k, 0) EXCEPT !.handle = names[k], !.size = segSize[names[k]]]
<1>0. /\ Emplaced(p, k, 0) \in SharedObject
      /\ Emplaced(p, k, 0).region = Region(p, k)
      /\ Emplaced(p, k, 0).ownData <=> Owns(p, k)
  BY EmplacedEffect
<1>1. names[k] \in Segs /\ segSize[names[k]] \in Nat
  BY DEF MapOpen, HasSharedMemory, TypeOK
<1>2. /\ so \in SharedObject
      /\ so.handle = names[k]
      /\ so.region = Region(p, k)
      /\ so.ownData <=> Owns(p, k)
  BY <1>0, <1>1 DEF SharedObject
<1>3. SetObject(p, k, so)
  BY DEF MapOpen
<1>4. Handle(p, k) = NoSeg
  BY EmplacedEffect DEF MapOpen, Opens
<1> HIDE DEF so
<1> QED BY <1>1, <1>2, <1>3, <1>4, WriteEffect DEF MapOpen, Goto

(* Mapping.                                                                *)
LEMMA MappedEffect ==
  ASSUME WellFormed, NEW p \in Procs, MmapOK(p), NEW k \in Keys, k = call[p].key
  PROVE  /\ OthersKept(p, k)
         /\ KeyInMap(p, k) /\ KeyInMap(p, k)'
         /\ Handle(p, k) # NoSeg
         /\ Handle(p, k)' = Handle(p, k)
         /\ Region(p, k)' = Handle(p, k)
         /\ Owns(p, k)' <=> Owns(p, k)
         /\ mapCounter' = [mapCounter EXCEPT ![p][k] = @ + 1]
         /\ call' = [call EXCEPT ![p] = NoCall]
         /\ UNCHANGED names
<1> DEFINE so == [sharedObjectList[p][k] EXCEPT !.region = sharedObjectList[p][k].handle]
<1>1. call[p].at \in HandleSteps
  BY DEF MmapOK, HandleSteps
<1>2. KeyInMap(p, k) /\ sharedObjectList[p][k] \in SharedObject
      /\ sharedObjectList[p][k].handle \in Segs
  BY <1>1, InsideCall
<1>3. /\ so \in SharedObject
      /\ so.handle = Handle(p, k)
      /\ so.region = Handle(p, k)
      /\ so.ownData <=> Owns(p, k)
      /\ Handle(p, k) # NoSeg
  BY <1>2, ConstantsAssumption DEF SharedObject, Owns, Handle
<1>4. SetObject(p, k, so)
  BY DEF MmapOK
<1> HIDE DEF so
<1> QED BY <1>2, <1>3, <1>4, WriteEffect DEF WellFormed, MmapOK, Return, CountPointer

(* The ownership.                                                          *)
LEMMA OwnershipEffect ==
  ASSUME TypeOK, NEW p \in Procs, NEW k \in Keys, SetOwnership(p, k, TRUE)
  PROVE  /\ OthersKept(p, k)
         /\ KeyInMap(p, k)
         /\ KeyInMap(p, k)'
         /\ Handle(p, k)' = Handle(p, k)
         /\ Region(p, k)' = Region(p, k)
         /\ Owns(p, k)'
         /\ UNCHANGED <<names, mapCounter, call, held>>
<1> DEFINE so == [sharedObjectList[p][k] EXCEPT !.ownData = TRUE]
<1>1. KeyInMap(p, k) /\ sharedObjectList[p][k] \in SharedObject
  BY ObjectTyped DEF SetOwnership
<1>2. /\ so \in SharedObject
      /\ so.handle = Handle(p, k)
      /\ so.region = Region(p, k)
      /\ so.ownData
  BY <1>1 DEF SharedObject, Handle, Region
<1>3. SetObject(p, k, so)
  BY DEF SetOwnership
<1> HIDE DEF so
<1> QED BY <1>1, <1>2, <1>3, WriteEffect DEF SetOwnership

(* Giving back a pointer that is held: the last one erases the object.     *)
LEMMA UnmapEffect ==
  ASSUME TypeOK, PointersCounted, Disciplined, NEW p \in Procs, NEW k \in Keys, Unmap(p, k)
  PROVE  /\ KeyInMap(p, k)
         /\ mapCounter' = [mapCounter EXCEPT ![p][k] = @ - 1]
         /\ IF mapCounter[p][k] = 1
            THEN /\ OthersKept(p, k)
                 /\ ~KeyInMap(p, k)'
                 /\ names' = IF Owns(p, k) THEN [names EXCEPT ![k] = NoSeg] ELSE names
            ELSE AllKept /\ UNCHANGED names
         /\ UNCHANGED call
<1>1. held[p][k] > 0 /\ mapCounter[p][k] = held[p][k] /\ Region(p, k) # NoSeg
  BY DEF Unmap, PointersCounted, PointersStayMapped, CounterCountsPointers
<1>2. KeyInMap(p, k) /\ held[p][k] \in Nat
  BY <1>1 DEF Region, TypeOK
<1>3. mapCounter[p][k] - 1 <= 0 <=> mapCounter[p][k] = 1
  BY <1>1, <1>2
<1>4. CASE mapCounter[p][k] = 1
  BY <1>2, <1>3, <1>4, EraseEffect DEF Unmap
<1>5. CASE mapCounter[p][k] # 1
  BY <1>2, <1>3, <1>5, KeepEffect DEF Unmap
<1> QED BY <1>4, <1>5

(* A user frees an id.                                                     *)
LEMMA FreeEffect ==
  ASSUME TypeOK, NEW p \in Procs, NEW k \in Keys, Free(p, k)
  PROVE  /\ OthersKept(p, k)
         /\ ~KeyInMap(p, k)'
         /\ names' = IF Owns(p, k) THEN [names EXCEPT ![k] = NoSeg] ELSE names
         /\ call' = [call EXCEPT ![p] = [at |-> "unlink", key |-> k]]
<1>1. CASE KeyInMap(p, k)
  BY <1>1, EraseEffect DEF Free, Goto
<1>2. CASE ~KeyInMap(p, k)
  BY <1>2, KeepEffect, NotListed DEF Free, Goto, AllKept, OthersKept, Kept
<1> QED BY <1>1, <1>2

(* The end of a session empties its registry.                              *)
LEMMA GoneEffect ==
  ASSUME TypeOK, NEW p \in Procs, ProcessGone(p)
  PROVE  /\ \A q \in Procs, l \in Keys : q # p => Kept(q, l)
         /\ \A l \in Keys : ~KeyInMap(p, l)'
         /\ mapCounter' = [mapCounter EXCEPT ![p] = [k \in Keys |-> 0]]
         /\ call' = [call EXCEPT ![p] = NoCall]
BY DEF ProcessGone, Return, TypeOK, Kept, KeyInMap, Handle, Region, Owns

(* A call of the registry that starts, goes on or ends.                    *)
LEMMA CallGoesOn ==
  ASSUME TypeOK, NEW p \in Procs, NEW c, call' = [call EXCEPT ![p] = c]
  PROVE  call'[p] = c /\ \A q \in Procs \ {p} : call'[q] = call[q]
BY DEF TypeOK

=============================================================================
