------------------------- MODULE SharedMemoryProofs -------------------------
(***************************************************************************)
(* Proofs about SharedMemory, for any number of processes, keys, segments  *)
(* and sizes.  The safety theorems assume disciplined clients; type        *)
(* correctness does not.                                                   *)
(***************************************************************************)
EXTENDS SharedMemory, TLAPS

(* Writing an entry of the registry changes that entry and no other, and   *)
(* keeps the registry well formed.                                         *)
LEMMA SetObjectEffect ==
  ASSUME TypeOK, NEW p \in Procs, NEW k \in Keys,
         NEW so \in SharedObject \cup {NoEntry}, SetObject(p, k, so)
  PROVE  /\ sharedObjectList' \in [Procs -> [Keys -> SharedObject \cup {NoEntry}]]
         /\ \A q \in Procs, l \in Keys :
              sharedObjectList'[q][l] = IF q = p /\ l = k THEN so
                                        ELSE sharedObjectList[q][l]
BY DEF TypeOK, SetObject

(* An entry that is registered is a record of the type SharedObject.       *)
LEMMA ObjectTyped ==
  ASSUME TypeOK, NEW p \in Procs, NEW k \in Keys, KeyInMap(p, k)
  PROVE  sharedObjectList[p][k] \in SharedObject
BY DEF TypeOK, KeyInMap

(* allocateSharedMemoryInternal and mapSharedMemoryInternal always work on *)
(* an object.                                                              *)
LEMMA EmplacedTyped ==
  ASSUME TypeOK, NEW p \in Procs, NEW k \in Keys, NEW n \in Nat
  PROVE  Emplaced(p, k, n) \in SharedObject
BY ObjectTyped DEF Emplaced, NewObject, SharedObject

(* A process inside a call is inside it on one of the keys.                *)
LEMMA CallTyped ==
  ASSUME TypeOK, NEW p \in Procs, ~Idle(p)
  PROVE  /\ call[p] \in [at : CallSteps, key : Keys]
         /\ call[p].key \in Keys
BY DEF TypeOK, Idle

(* Starting a call, or going on with one, concerns one process.            *)
LEMMA GotoEffect ==
  ASSUME TypeOK, NEW p \in Procs, NEW k \in Keys, NEW a \in CallSteps,
         Goto(p, a, k)
  PROVE  /\ call' \in [Procs -> [at : CallSteps, key : Keys] \cup {NoCall}]
         /\ \A q \in Procs : call'[q] = IF q = p THEN [at |-> a, key |-> k]
                                        ELSE call[q]
BY DEF TypeOK, Goto

(* Returning from a call concerns one process.                             *)
LEMMA ReturnEffect ==
  ASSUME TypeOK, NEW p \in Procs, Return(p)
  PROVE  /\ call' \in [Procs -> [at : CallSteps, key : Keys] \cup {NoCall}]
         /\ \A q \in Procs : call'[q] = IF q = p THEN NoCall ELSE call[q]
BY DEF TypeOK, Return

(* The step of a call is not "idle".                                       *)
LEMMA InsideNotIdle ==
  ASSUME NEW p \in Procs, call[p].at \in CallSteps
  PROVE  ~Idle(p)
BY DEF Idle, NoCall, CallSteps, HandleSteps, AllocateSteps

----------------------------------------------------------------------------
(* The shape of the registry: types, and what an interrupted call can rely *)
(* on.  It does not depend on what clients do.                             *)

WellFormed == TypeOK /\ RegionOfHandle /\ CallsHaveHandles

(* A process starts with an empty registry. *)
LEMMA WellFormedInit == Init => WellFormed
BY ConstantsAssumption
DEF Init, RegistryInit, WellFormed, TypeOK, RegionOfHandle, CallsHaveHandles,
    Region, KeyInMap, NoCall, HandleSteps, AllocateSteps

(* A process that is between calls is at none of their steps.              *)
LEMMA NoCallOutside == /\ NoCall.at \notin CallSteps
                       /\ HandleSteps \subseteq CallSteps
                       /\ "unlink" \notin HandleSteps
BY DEF NoCall, CallSteps, HandleSteps, AllocateSteps

(* A step that writes one entry keeps the shape if the entry is sound and  *)
(* the process is between calls, returns, or goes on with an open handle.  *)
LEMMA WellFormedWrite ==
  ASSUME WellFormed, NEW p \in Procs, NEW k \in Keys,
         NEW so \in SharedObject \cup {NoEntry}, SetObject(p, k, so),
         so # NoEntry => so.region = NoSeg \/ so.region = so.handle,
         \/ Idle(p) /\ call' = call
         \/ Return(p)
         \/ Goto(p, "unlink", k)
         \/ \E a \in HandleSteps : /\ Goto(p, a, k)
                                    /\ so # NoEntry
                                    /\ so.handle # NoSeg
                                    /\ so.region = NoSeg
  PROVE  RegionOfHandle' /\ CallsHaveHandles'
<1>1. TypeOK /\ RegionOfHandle /\ CallsHaveHandles
  BY DEF WellFormed
<1>2. \A q \in Procs, l \in Keys :
         sharedObjectList'[q][l] = IF q = p /\ l = k THEN so
                                   ELSE sharedObjectList[q][l]
  BY <1>1, SetObjectEffect
<1>3. RegionOfHandle'
  BY <1>1, <1>2 DEF RegionOfHandle, Region, Handle, KeyInMap
<1>4. ASSUME NEW q \in Procs, call'[q].at \in HandleSteps
      PROVE  Handle(q, call[q].key)' # NoSeg /\ Region(q, call[q].key)' = NoSeg
  <2>0. "unlink" \in CallSteps
    BY DEF CallSteps
  <2>1. CASE q # p
    <3>1. call'[q] = call[q] /\ ~Idle(q)
      <4>1. \A a \in CallSteps : Goto(p, a, k) => call'[q] = call[q]
        BY <1>1, <2>1, GotoEffect
      <4>2. Return(p) => call'[q] = call[q]
        BY <1>1, <2>1, ReturnEffect
      <4>3. call'[q] = call[q]
        BY <2>0, <4>1, <4>2, NoCallOutside
      <4> QED BY <1>4, <4>3, NoCallOutside DEF Idle
    <3>2. Handle(q, call[q].key) # NoSeg /\ Region(q, call[q].key) = NoSeg
      BY <1>1, <1>4, <3>1 DEF CallsHaveHandles
    <3>3. call[q].key \in Keys
      BY <1>1, <3>1, CallTyped
    <3> QED BY <1>2, <2>1, <3>1, <3>2, <3>3 DEF Handle, Region, KeyInMap
  <2>2. CASE q = p
    <3>1. ASSUME Goto(p, "unlink", k)
          PROVE  FALSE
      <4>1. call'[p] = [at |-> "unlink", key |-> k]
        BY <1>1, <2>0, <3>1, GotoEffect
      <4>2. call'[p].at = "unlink"
        BY <4>1
      <4> QED BY <1>4, <2>2, <4>2, NoCallOutside
    <3>2. ASSUME Return(p)
          PROVE  FALSE
      BY <1>1, <1>4, <2>2, <3>2, NoCallOutside, ReturnEffect
    <3>3. ASSUME Idle(p), call' = call
          PROVE  FALSE
      BY <1>4, <2>2, <3>3, NoCallOutside DEF Idle
    <3>4. PICK a \in HandleSteps : /\ Goto(p, a, k)
                                   /\ so # NoEntry
                                   /\ so.handle # NoSeg
                                   /\ so.region = NoSeg
      BY <3>1, <3>2, <3>3
    <3>5. call'[p] = [at |-> a, key |-> k]
      BY <1>1, <3>4, NoCallOutside, GotoEffect
    <3>6. call'[p].key = k
      BY <3>5
    <3> QED BY <1>2, <2>2, <3>4, <3>6 DEF Handle, Region, KeyInMap
  <2> QED BY <2>1, <2>2
<1> QED BY <1>3, <1>4 DEF CallsHaveHandles

(* A step that writes no entry keeps the shape if the process returns or   *)
(* goes on with an open handle that is not mapped.                         *)
LEMMA WellFormedKeep ==
  ASSUME WellFormed, NEW p \in Procs, UNCHANGED sharedObjectList,
         \/ call' = call
         \/ Return(p)
         \/ \E k \in Keys : Goto(p, "unlink", k)
         \/ \E a \in HandleSteps, k \in Keys : /\ Goto(p, a, k)
                                                /\ Handle(p, k) # NoSeg
                                                /\ Region(p, k) = NoSeg
  PROVE  RegionOfHandle' /\ CallsHaveHandles'
<1>1. TypeOK /\ RegionOfHandle /\ CallsHaveHandles
  BY DEF WellFormed
<1>2. RegionOfHandle'
  BY <1>1 DEF RegionOfHandle, Region, Handle, KeyInMap
<1>3. ASSUME NEW q \in Procs, call'[q].at \in HandleSteps
      PROVE  Handle(q, call[q].key)' # NoSeg /\ Region(q, call[q].key)' = NoSeg
  <2>0. "unlink" \in CallSteps
    BY DEF CallSteps
  <2>1. CASE call'[q] = call[q]
    BY <1>1, <1>3, <2>1 DEF CallsHaveHandles, Handle, Region, KeyInMap
  <2>2. CASE call'[q] # call[q]
    <3>1. q = p
      <4>1. \A a \in CallSteps, k \in Keys : Goto(p, a, k) /\ q # p => call'[q] = call[q]
        BY <1>1, GotoEffect
      <4>2. Return(p) /\ q # p => call'[q] = call[q]
        BY <1>1, ReturnEffect
      <4> QED BY <2>0, <2>2, <4>1, <4>2, NoCallOutside
    <3>2. ASSUME NEW k \in Keys, Goto(p, "unlink", k)
          PROVE  FALSE
      <4>1. call'[p] = [at |-> "unlink", key |-> k]
        BY <1>1, <2>0, <3>2, GotoEffect
      <4>2. call'[p].at = "unlink"
        BY <4>1
      <4> QED BY <1>3, <3>1, <4>2, NoCallOutside
    <3>3. ASSUME Return(p)
          PROVE  FALSE
      BY <1>1, <1>3, <3>1, <3>3, NoCallOutside, ReturnEffect
    <3>4. PICK a \in HandleSteps, k \in Keys : /\ Goto(p, a, k)
                                              /\ Handle(p, k) # NoSeg
                                              /\ Region(p, k) = NoSeg
      BY <2>2, <3>2, <3>3
    <3>5. call'[q] = [at |-> a, key |-> k]
      BY <1>1, <3>1, <3>4, NoCallOutside, GotoEffect
    <3>6. call'[q].key = k
      BY <3>5
    <3> QED BY <3>1, <3>4, <3>6 DEF Handle, Region, KeyInMap
  <2> QED BY <2>1, <2>2
<1> QED BY <1>2, <1>3 DEF CallsHaveHandles

(* The outcomes of allocateSharedMemory before the segment is sized.       *)
LEMMA AllocateWellFormed ==
  ASSUME WellFormed, NEW p \in Procs, Allocate(p)
  PROVE  WellFormed'
<1> USE DEF WellFormed
<1>1. PICK k \in Keys, size \in Sizes :
         \/ UNCHANGED vars
         \/ AllocateNameInUse(p, k, size)
         \/ AllocateCreate(p, k, size)
  BY DEF Allocate, AllocateTooSmall, AllocateOpened
<1>2. /\ size \in Nat
      /\ Emplaced(p, k, size) \in SharedObject
      /\ Emplaced(p, k, size) # NoEntry
  BY ConstantsAssumption, EmplacedTyped
<1>3. Emplaced(p, k, size).region = NoSeg \/ Emplaced(p, k, size).region = Emplaced(p, k, size).handle
  BY <1>2 DEF RegionOfHandle, Region, Handle, Emplaced, NewObject
<1>4. CASE UNCHANGED vars
  BY <1>4 DEF vars, TypeOK, RegionOfHandle, CallsHaveHandles, Region, Handle,
             KeyInMap, Idle
<1>5. CASE AllocateNameInUse(p, k, size)
  <2>1. RegionOfHandle' /\ CallsHaveHandles'
    BY <1>2, <1>3, <1>5, WellFormedWrite DEF AllocateNameInUse, CreatesName
  <2>2. TypeOK'
    BY <1>2, <1>5, SetObjectEffect DEF AllocateNameInUse, TypeOK
  <2> QED BY <2>1, <2>2
<1>6. CASE AllocateCreate(p, k, size)
  <2>1. PICK s \in Segs :
           /\ names' = [names EXCEPT ![k] = s]
           /\ segSize' = [segSize EXCEPT ![s] = 0]
           /\ SetObject(p, k, [Emplaced(p, k, size) EXCEPT !.handle = s])
    BY <1>6 DEF AllocateCreate
  <2> DEFINE so == [Emplaced(p, k, size) EXCEPT !.handle = s]
  <2>2. /\ so \in SharedObject
        /\ so # NoEntry
        /\ so.handle = s
        /\ so.region = Emplaced(p, k, size).region
    BY <1>2, ConstantsAssumption DEF SharedObject
  <2>3. so.region = NoSeg
    BY <1>3, <1>6 DEF AllocateCreate, CreatesName, Emplaced, NewObject
  <2>4. "truncate" \in HandleSteps /\ "truncate" \in CallSteps /\ s # NoSeg
    BY ConstantsAssumption DEF CallSteps, HandleSteps, AllocateSteps
  <2>5. RegionOfHandle' /\ CallsHaveHandles'
    <3> HIDE DEF so
    <3> QED BY <2>1, <2>2, <2>3, <2>4, <1>6, WellFormedWrite DEF AllocateCreate, so
  <2>6. TypeOK'
    BY <1>6, <2>1, <2>2, <2>4, SetObjectEffect, GotoEffect DEF AllocateCreate, TypeOK
  <2> QED BY <2>5, <2>6
<1> QED BY <1>1, <1>4, <1>5, <1>6

(* The outcomes of mapSharedMemory that need no system call. *)
LEMMA MapWellFormed ==
  ASSUME WellFormed, NEW p \in Procs, Map(p)
  PROVE  WellFormed'
<1> USE DEF WellFormed
<1>1. PICK k \in Keys : \/ MapMapped(p, k)
                        \/ MapNotFound(p, k)
                        \/ MapOpen(p, k)
                        \/ MapWithHandle(p, k)
  BY DEF Map
<1>2. /\ Emplaced(p, k, 0) \in SharedObject
      /\ Emplaced(p, k, 0) # NoEntry
  BY ConstantsAssumption, EmplacedTyped
<1>3. "mmap" \in HandleSteps /\ "mmap" \in CallSteps
  BY DEF HandleSteps, CallSteps
<1>4. MapCounterAtEntry(p, k) \in [Procs -> [Keys -> Int]]
  BY DEF MapCounterAtEntry, TypeOK
<1>5. CASE MapMapped(p, k)
  <2>1. RegionOfHandle' /\ CallsHaveHandles'
    BY <1>5, WellFormedKeep DEF MapMapped
  <2>2. TypeOK'
    BY <1>5 DEF MapMapped, CountPointer, TypeOK
  <2> QED BY <2>1, <2>2
<1>6. CASE MapNotFound(p, k)
  <2>1. RegionOfHandle' /\ CallsHaveHandles'
    BY <1>2, <1>6, WellFormedWrite DEF MapNotFound, Opens
  <2>2. TypeOK'
    BY <1>2, <1>4, <1>6, SetObjectEffect DEF MapNotFound, TypeOK
  <2> QED BY <2>1, <2>2
<1>7. CASE MapOpen(p, k)
  <2> DEFINE so == [Emplaced(p, k, 0) EXCEPT !.handle = names[k],
                                             !.size = segSize[names[k]]]
  <2>1. names[k] \in Segs /\ segSize[names[k]] \in Nat /\ names[k] # NoSeg
    BY <1>7, ConstantsAssumption DEF MapOpen, HasSharedMemory, TypeOK
  <2>2. /\ so \in SharedObject
        /\ so # NoEntry
        /\ so.handle = names[k]
        /\ so.region = NoSeg
    BY <1>2, <1>7, <2>1, ConstantsAssumption DEF SharedObject, MapOpen, Opens
  <2>3. SetObject(p, k, so) /\ Goto(p, "mmap", k)
    BY <1>7 DEF MapOpen
  <2>4. RegionOfHandle' /\ CallsHaveHandles'
    <3> HIDE DEF so
    <3> QED BY <1>3, <2>1, <2>2, <2>3, WellFormedWrite
  <2>5. TypeOK'
    BY <1>3, <1>4, <1>7, <2>2, <2>3, SetObjectEffect, GotoEffect DEF MapOpen, TypeOK
  <2> QED BY <2>4, <2>5
<1>8. CASE MapWithHandle(p, k)
  <2>1. Goto(p, "mmap", k) /\ Handle(p, k) # NoSeg /\ Region(p, k) = NoSeg
    BY <1>8 DEF MapWithHandle, Handle, Region
  <2>2. RegionOfHandle' /\ CallsHaveHandles'
    BY <1>3, <1>8, <2>1, WellFormedKeep DEF MapWithHandle
  <2>3. TypeOK'
    BY <1>3, <1>8, <2>1, GotoEffect DEF MapWithHandle, TypeOK
  <2> QED BY <2>2, <2>3
<1> QED BY <1>1, <1>5, <1>6, <1>7, <1>8

(* What a process can count on inside a call that allocates or maps.       *)
LEMMA InsideCall ==
  ASSUME WellFormed, NEW p \in Procs, call[p].at \in HandleSteps
  PROVE  /\ call[p] \in [at : CallSteps, key : Keys]
         /\ call[p].key \in Keys
         /\ KeyInMap(p, call[p].key)
         /\ sharedObjectList[p][call[p].key] \in SharedObject
         /\ sharedObjectList[p][call[p].key].handle \in Segs
         /\ sharedObjectList[p][call[p].key].region = NoSeg
<1>1. ~Idle(p)
  BY NoCallOutside, InsideNotIdle
<1>2. call[p] \in [at : CallSteps, key : Keys] /\ call[p].key \in Keys
  BY <1>1, CallTyped DEF WellFormed
<1>3. Handle(p, call[p].key) # NoSeg /\ Region(p, call[p].key) = NoSeg
  BY DEF WellFormed, CallsHaveHandles
<1>4. KeyInMap(p, call[p].key)
  BY <1>3 DEF Handle
<1>5. sharedObjectList[p][call[p].key] \in SharedObject
  BY <1>2, <1>4, ObjectTyped DEF WellFormed
<1> QED BY <1>2, <1>3, <1>4, <1>5 DEF Handle, Region, SharedObject

(* A process that frees a name is inside a call on a key.                  *)
LEMMA UnlinkEffect ==
  ASSUME TypeOK, NEW p \in Procs, Unlink(p)
  PROVE  /\ call[p].key \in Keys
         /\ ~Idle(p)
         /\ call[p].at \notin HandleSteps
         /\ names' = [names EXCEPT ![call[p].key] = NoSeg]
         /\ Return(p)
         /\ UNCHANGED <<segSize, sharedObjectList, mapCounter, held>>
<1>1. call[p].at = "unlink" /\ call[p].at \in CallSteps
  BY DEF Unlink, CallSteps
<1> QED BY <1>1, InsideNotIdle, CallTyped, NoCallOutside DEF Unlink

(* The end of freeSharedMemory.                                            *)
LEMMA UnlinkWellFormed ==
  ASSUME WellFormed, NEW p \in Procs, Unlink(p)
  PROVE  WellFormed'
<1>1. RegionOfHandle' /\ CallsHaveHandles'
  BY UnlinkEffect, WellFormedKeep DEF WellFormed
<1>2. TypeOK'
  BY UnlinkEffect, ReturnEffect DEF WellFormed, TypeOK
<1> QED BY <1>1, <1>2 DEF WellFormed

(* The outcomes of the system calls of a call that has been started.       *)
LEMMA ContinueWellFormed ==
  ASSUME WellFormed, NEW p \in Procs, Continue(p), ~Unlink(p)
  PROVE  WellFormed'
<1> USE DEF WellFormed
<1>1. call[p].at \in HandleSteps
  BY DEF Continue, Truncate, ValidateOK, AllocateFails, AllocateSigbus, MmapOK,
         MmapFails, CallSteps, HandleSteps, AllocateSteps
<1> DEFINE k == call[p].key
           so == sharedObjectList[p][k]
<1>2. /\ k \in Keys
      /\ KeyInMap(p, k)
      /\ so \in SharedObject
      /\ so # NoEntry
      /\ so.handle \in Segs
      /\ so.region = NoSeg
      /\ segSize[so.handle] \in Nat
  BY <1>1, InsideCall, ConstantsAssumption DEF TypeOK
<1>3. CASE Truncate(p)
  <2>1. Goto(p, "validate", k) /\ "validate" \in HandleSteps /\ "validate" \in CallSteps
    BY <1>3 DEF Truncate, CallSteps, HandleSteps, AllocateSteps
  <2>2. Handle(p, k) # NoSeg /\ Region(p, k) = NoSeg
    BY <1>2, ConstantsAssumption DEF Handle, Region
  <2>3. RegionOfHandle' /\ CallsHaveHandles'
    BY <1>2, <1>3, <2>1, <2>2, WellFormedKeep DEF Truncate
  <2>4. SegmentSize(so.size) \in Nat
    BY <1>2 DEF SegmentSize, SharedObject
  <2>5. TypeOK'
    BY <1>2, <1>3, <2>1, <2>4, GotoEffect DEF Truncate, TypeOK
  <2> QED BY <2>3, <2>5
<1>4. CASE ValidateOK(p)
  <2>1. SetObject(p, k, [so EXCEPT !.size = segSize[so.handle]]) /\ Return(p)
    BY <1>4 DEF ValidateOK
  <2>2. /\ [so EXCEPT !.size = segSize[so.handle]] \in SharedObject
        /\ [so EXCEPT !.size = segSize[so.handle]].region = NoSeg
    BY <1>2 DEF SharedObject
  <2>3. RegionOfHandle' /\ CallsHaveHandles'
    BY <1>2, <2>1, <2>2, WellFormedWrite
  <2>4. TypeOK'
    BY <1>2, <1>4, <2>1, <2>2, SetObjectEffect, ReturnEffect DEF ValidateOK, TypeOK
  <2> QED BY <2>3, <2>4
<1>5. CASE AllocateFails(p)
  <2>1. SetObject(p, k, [so EXCEPT !.handle = NoSeg]) /\ Return(p)
    BY <1>5 DEF AllocateFails
  <2>2. /\ [so EXCEPT !.handle = NoSeg] \in SharedObject
        /\ [so EXCEPT !.handle = NoSeg].region = NoSeg
    BY <1>2 DEF SharedObject
  <2>3. RegionOfHandle' /\ CallsHaveHandles'
    BY <1>2, <2>1, <2>2, WellFormedWrite
  <2>4. TypeOK'
    BY <1>2, <1>5, <2>1, <2>2, SetObjectEffect, ReturnEffect DEF AllocateFails, TypeOK
  <2> QED BY <2>3, <2>4
<1>6. CASE AllocateSigbus(p) \/ MmapFails(p)
  <2>1. Return(p) /\ UNCHANGED <<names, segSize, sharedObjectList, mapCounter, held>>
    BY <1>6 DEF AllocateSigbus, MmapFails
  <2>2. RegionOfHandle' /\ CallsHaveHandles'
    BY <2>1, WellFormedKeep
  <2>3. TypeOK'
    BY <2>1, ReturnEffect DEF TypeOK
  <2> QED BY <2>2, <2>3
<1>7. CASE MmapOK(p)
  <2>1. /\ SetObject(p, k, [so EXCEPT !.region = so.handle])
        /\ Return(p)
        /\ CountPointer(p, k)
        /\ UNCHANGED <<names, segSize>>
    BY <1>7 DEF MmapOK
  <2>2. /\ [so EXCEPT !.region = so.handle] \in SharedObject
        /\ [so EXCEPT !.region = so.handle].region
             = [so EXCEPT !.region = so.handle].handle
    BY <1>2 DEF SharedObject
  <2>3. RegionOfHandle' /\ CallsHaveHandles'
    BY <1>2, <2>1, <2>2, WellFormedWrite
  <2>4. TypeOK'
    BY <1>2, <2>1, <2>2, SetObjectEffect, ReturnEffect DEF CountPointer, TypeOK
  <2> QED BY <2>3, <2>4
<1> QED BY <1>3, <1>4, <1>5, <1>6, <1>7 DEF Continue

(* The calls that end something, and autoReleaseAfterUse. *)
LEMMA ReleaseWellFormed ==
  ASSUME WellFormed, NEW p \in Procs, NEW k \in Keys, NEW own \in BOOLEAN,
         Unmap(p, k) \/ Free(p, k) \/ SetOwnership(p, k, own)
  PROVE  WellFormed'
<1> USE DEF WellFormed
<1>1. CASE Unmap(p, k)
  <2>1. /\ Idle(p)
        /\ UNCHANGED <<segSize, call>>
        /\ held' \in [Procs -> [Keys -> Nat]]
        /\ mapCounter' \in [Procs -> [Keys -> Int]]
        /\ \/ Erase(p, k)
           \/ UNCHANGED <<names, sharedObjectList>>
    <3>1. held' \in [Procs -> [Keys -> Nat]]
      BY <1>1 DEF Unmap, GiveBack, TypeOK
    <3>2. CASE KeyInMap(p, k)
      <4>1. mapCounter' = [mapCounter EXCEPT ![p][k] = @ - 1]
        BY <1>1, <3>2 DEF Unmap
      <4>2. mapCounter' \in [Procs -> [Keys -> Int]]
        BY <4>1 DEF TypeOK
      <4> QED BY <1>1, <3>1, <3>2, <4>2 DEF Unmap
    <3>3. CASE ~KeyInMap(p, k)
      BY <1>1, <3>1, <3>3 DEF Unmap, TypeOK
    <3> QED BY <3>2, <3>3
  <2>2. CASE Erase(p, k)
    <3>1. SetObject(p, k, NoEntry) /\ names' \in [Keys -> Segs \cup {NoSeg}]
      BY <2>2 DEF Erase, TypeOK
    <3>2. RegionOfHandle' /\ CallsHaveHandles'
      BY <2>1, <3>1, WellFormedWrite
    <3>3. TypeOK'
      BY <2>1, <3>1, SetObjectEffect DEF TypeOK
    <3> QED BY <3>2, <3>3
  <2>3. CASE UNCHANGED <<names, sharedObjectList>>
    <3>1. RegionOfHandle' /\ CallsHaveHandles'
      BY <2>1, <2>3, WellFormedKeep
    <3>2. TypeOK'
      BY <2>1, <2>3 DEF TypeOK
    <3> QED BY <3>1, <3>2
  <2> QED BY <2>1, <2>2, <2>3
<1>2. CASE Free(p, k)
  <2>1. /\ Goto(p, "unlink", k)
        /\ "unlink" \in CallSteps
        /\ UNCHANGED segSize
        /\ names' \in [Keys -> Segs \cup {NoSeg}]
        /\ held' \in [Procs -> [Keys -> Nat]]
        /\ mapCounter' \in [Procs -> [Keys -> Int]]
        /\ \/ SetObject(p, k, NoEntry)
           \/ UNCHANGED sharedObjectList
    <3>1. /\ held' \in [Procs -> [Keys -> Nat]]
          /\ "unlink" \in CallSteps
      BY <1>2 DEF Free, TypeOK, CallSteps
    <3>2. CASE KeyInMap(p, k)
      <4>1. mapCounter' = [mapCounter EXCEPT ![p][k] = 0] /\ Erase(p, k)
        BY <1>2, <3>2 DEF Free
      <4>2. mapCounter' \in [Procs -> [Keys -> Int]]
        BY <4>1 DEF TypeOK
      <4>3. SetObject(p, k, NoEntry) /\ names' \in [Keys -> Segs \cup {NoSeg}]
        BY <4>1 DEF Erase, TypeOK
      <4> QED BY <1>2, <3>1, <4>2, <4>3 DEF Free
    <3>3. CASE ~KeyInMap(p, k)
      BY <1>2, <3>1, <3>3 DEF Free, TypeOK
    <3> QED BY <3>2, <3>3
  <2>2. CASE SetObject(p, k, NoEntry)
    <3>1. RegionOfHandle' /\ CallsHaveHandles'
      BY <2>1, <2>2, WellFormedWrite
    <3>2. TypeOK'
      BY <2>1, <2>2, SetObjectEffect, GotoEffect DEF TypeOK
    <3> QED BY <3>1, <3>2
  <2>3. CASE UNCHANGED sharedObjectList
    <3>1. RegionOfHandle' /\ CallsHaveHandles'
      BY <2>1, <2>3, WellFormedKeep
    <3>2. TypeOK'
      BY <2>1, <2>3, GotoEffect DEF TypeOK
    <3> QED BY <3>1, <3>2
  <2> QED BY <2>1, <2>2, <2>3
<1>3. CASE SetOwnership(p, k, own)
  <2> DEFINE so == [sharedObjectList[p][k] EXCEPT !.ownData = own]
  <2>1. /\ Idle(p)
        /\ SetObject(p, k, so)
        /\ UNCHANGED <<names, segSize, mapCounter, call, held>>
        /\ sharedObjectList[p][k] \in SharedObject
    BY <1>3, ObjectTyped DEF SetOwnership
  <2>2. /\ so \in SharedObject
        /\ so.region = sharedObjectList[p][k].region
        /\ so.handle = sharedObjectList[p][k].handle
    BY <2>1 DEF SharedObject
  <2>3. so.region = NoSeg \/ so.region = so.handle
    BY <1>3, <2>2 DEF SetOwnership, RegionOfHandle, Region, Handle
  <2>4. RegionOfHandle' /\ CallsHaveHandles'
    <3> HIDE DEF so
    <3> QED BY <2>1, <2>2, <2>3, WellFormedWrite
  <2>5. TypeOK'
    BY <2>1, <2>2, SetObjectEffect DEF TypeOK
  <2> QED BY <2>4, <2>5
<1> QED BY <1>1, <1>2, <1>3

(* Quit and Crash leave an empty registry to the next process. *)
LEMMA EndWellFormed ==
  ASSUME WellFormed, NEW p \in Procs, Quit(p) \/ Crash(p)
  PROVE  WellFormed'
<1> USE DEF WellFormed
<1>1. /\ ProcessGone(p)
      /\ names' \in [Keys -> Segs \cup {NoSeg}]
      /\ UNCHANGED segSize
  BY DEF Quit, Crash, osVars, TypeOK
<1>2. \A q \in Procs : sharedObjectList'[q] = IF q = p THEN [k \in Keys |-> NoEntry]
                                              ELSE sharedObjectList[q]
  BY <1>1 DEF ProcessGone, TypeOK
<1>3. \A q \in Procs : call'[q] = IF q = p THEN NoCall ELSE call[q]
  BY <1>1 DEF ProcessGone, Return, TypeOK
<1>4. TypeOK'
  BY <1>1 DEF ProcessGone, Return, TypeOK
<1>5. RegionOfHandle'
  BY <1>2 DEF RegionOfHandle, Region, Handle, KeyInMap
<1>6. ASSUME NEW q \in Procs, call'[q].at \in HandleSteps
      PROVE  Handle(q, call[q].key)' # NoSeg /\ Region(q, call[q].key)' = NoSeg
  <2>1. q # p /\ call'[q] = call[q]
    BY <1>3, <1>6, NoCallOutside
  <2> QED BY <1>2, <1>6, <2>1 DEF CallsHaveHandles, Handle, Region, KeyInMap
<1> QED BY <1>4, <1>5, <1>6 DEF CallsHaveHandles

(* No step breaks the shape of the registry. *)
LEMMA WellFormedStep == WellFormed /\ [Next]_vars => WellFormed'
<1> SUFFICES ASSUME WellFormed, [Next]_vars
             PROVE  WellFormed'
  OBVIOUS
<1>1. CASE UNCHANGED vars
  BY <1>1 DEF vars, WellFormed, TypeOK, RegionOfHandle, CallsHaveHandles, Region,
             Handle, KeyInMap, Idle
<1>2. ASSUME NEW p \in Procs, Allocate(p) \/ Map(p) \/ Continue(p)
      PROVE  WellFormed'
  BY <1>2, AllocateWellFormed, MapWellFormed, ContinueWellFormed, UnlinkWellFormed
<1>3. ASSUME NEW p \in Procs, NEW k \in Keys, NEW own \in BOOLEAN,
             Unmap(p, k) \/ Free(p, k) \/ SetOwnership(p, k, own)
      PROVE  WellFormed'
  BY <1>3, ReleaseWellFormed
<1>4. ASSUME NEW p \in Procs, Quit(p) \/ Crash(p)
      PROVE  WellFormed'
  BY <1>4, EndWellFormed
<1> QED BY <1>1, <1>2, <1>3, <1>4 DEF Next

(* The registry is well formed in every state of every execution,          *)
(* whatever clients do.                                                    *)
THEOREM WellFormedAlways == Spec => []WellFormed
<1> QED BY WellFormedInit, WellFormedStep, PTL DEF Spec

(* Every variable keeps its type. *)
THEOREM TypeCorrect == Spec => []TypeOK
<1>1. WellFormed => TypeOK
  BY DEF WellFormed
<1> QED BY <1>1, WellFormedAlways, PTL

----------------------------------------------------------------------------
(* Segments: who may size one, and what objects know about the size.  This *)
(* does not depend on what clients do either.                              *)

SegmentsSound == FreshSegmentIsPrivate /\ SizesFit

(* No process is inside a call and nothing is registered.                  *)
LEMMA SegmentsSoundInit == Init => SegmentsSound
BY DEF Init, RegistryInit, SegmentsSound, FreshSegmentIsPrivate, SizesFit,
       Truncates, Handle, Region, KeyInMap, NoCall

(* The type of what the helpers Handle and Region return.                  *)
LEMMA HandleTyped ==
  ASSUME TypeOK, NEW p \in Procs, NEW k \in Keys
  PROVE  /\ Handle(p, k) \in Segs \cup {NoSeg}
         /\ Region(p, k) \in Segs \cup {NoSeg}
         /\ KeyInMap(p, k) => sharedObjectList[p][k].size \in Nat
BY ObjectTyped DEF Handle, Region, SharedObject

(* A step that sizes no segment, starts no allocation and touches at most  *)
(* one entry keeps the segments sound if that entry's size fits and it is  *)
(* not newly mapped to an empty segment.                                   *)
LEMMA SegmentsFrame ==
  ASSUME WellFormed, SegmentsSound, NEW p \in Procs, NEW k \in Keys,
         UNCHANGED segSize,
         \A q \in Procs : q # p => call'[q] = call[q],
         call'[p].at # "truncate",
         call[p].at = "truncate" => call[p].key = k,
         \A q \in Procs, l \in Keys : q # p \/ l # k =>
            sharedObjectList'[q][l] = sharedObjectList[q][l],
         Handle(p, k)' # NoSeg =>
            sharedObjectList'[p][k].size <= segSize[Handle(p, k)'],
         \/ Region(p, k)' \in {NoSeg, Region(p, k)}
         \/ segSize[Region(p, k)'] > 0
  PROVE  SegmentsSound'
<1>1. TypeOK /\ FreshSegmentIsPrivate /\ SizesFit
  BY DEF WellFormed, SegmentsSound
<1>2. \A q \in Procs, l \in Keys : q # p \/ l # k =>
         /\ Handle(q, l)' = Handle(q, l)
         /\ Region(q, l)' = Region(q, l)
  BY DEF Handle, Region, KeyInMap
<1>3. ASSUME NEW q \in Procs, NEW s \in Segs, Truncates(q, s)'
      PROVE  q # p /\ Truncates(q, s)
  <2>1. q # p /\ call'[q] = call[q] /\ call[q].at = "truncate"
    BY <1>3 DEF Truncates
  <2>2. call[q].key \in Keys
    BY <1>1, <2>1, InsideNotIdle, CallTyped DEF CallSteps, HandleSteps, AllocateSteps
  <2> QED BY <1>2, <1>3, <2>1, <2>2 DEF Truncates
<1>4. FreshSegmentIsPrivate'
  <2>1. ASSUME NEW q \in Procs, NEW s \in Segs, Truncates(q, s)'
        PROVE  /\ segSize'[s] = 0
               /\ \A r \in Procs : Truncates(r, s)' => r = q
               /\ \A r \in Procs, l \in Keys : Region(r, l)' # s
    <3>1. q # p /\ Truncates(q, s)
      BY <2>1, <1>3
    <3>2. /\ segSize[s] = 0
          /\ \A r \in Procs : Truncates(r, s) => r = q
          /\ \A r \in Procs, l \in Keys : Region(r, l) # s
      BY <1>1, <3>1 DEF FreshSegmentIsPrivate
    <3>3. \A r \in Procs : Truncates(r, s)' => r = q
      BY <1>3, <3>2
    <3>4. Region(p, k)' # s
      BY <3>2, ConstantsAssumption
    <3>5. \A r \in Procs, l \in Keys : Region(r, l)' # s
      BY <1>2, <3>2, <3>4
    <3> QED BY <3>2, <3>3, <3>5
  <2> QED BY <2>1 DEF FreshSegmentIsPrivate
<1>5. SizesFit'
  <2>1. ASSUME NEW q \in Procs, NEW l \in Keys, Handle(q, l)' # NoSeg,
               call'[q] # [at |-> "truncate", key |-> l]
        PROVE  sharedObjectList'[q][l].size <= segSize'[Handle(q, l)']
    <3>1. CASE q = p /\ l = k
      BY <3>1, <2>1
    <3>2. CASE q # p \/ l # k
      <4>1. /\ Handle(q, l)' = Handle(q, l)
            /\ sharedObjectList'[q][l] = sharedObjectList[q][l]
        BY <1>2, <3>2
      <4>2. call[q] # [at |-> "truncate", key |-> l]
        BY <2>1, <3>2
      <4> QED BY <1>1, <2>1, <4>1, <4>2 DEF SizesFit
    <3> QED BY <3>1, <3>2
  <2> QED BY <2>1 DEF SizesFit
<1> QED BY <1>4, <1>5 DEF SegmentsSound

(* Between which calls or steps a process may be when it writes an entry   *)
(* without starting an allocation.                                         *)
Calm(p, k) ==
  \/ Idle(p) /\ call' = call
  \/ Idle(p) /\ \E a \in {"mmap", "unlink"} : Goto(p, a, k)
  \/ call[p].key = k /\ Return(p)

(* What SegmentsFrame asks of the calls holds for a calm step. *)
LEMMA CalmEffect ==
  ASSUME TypeOK, NEW p \in Procs, NEW k \in Keys, Calm(p, k)
  PROVE  /\ \A q \in Procs : q # p => call'[q] = call[q]
         /\ call'[p].at # "truncate"
         /\ call[p].at = "truncate" => call[p].key = k
<1>0. {"mmap", "unlink"} \subseteq CallSteps /\ NoCall.at # "truncate"
  BY DEF CallSteps, HandleSteps, NoCall
<1>1. CASE Idle(p) /\ call' = call
  BY <1>0, <1>1 DEF Idle
<1>2. CASE Idle(p) /\ \E a \in {"mmap", "unlink"} : Goto(p, a, k)
  <2>0. PICK a \in {"mmap", "unlink"} : Goto(p, a, k)
    BY <1>2
  <2>1. \A q \in Procs : call'[q] = IF q = p THEN [at |-> a, key |-> k] ELSE call[q]
    BY <1>0, <2>0, GotoEffect
  <2>2. call'[p] = [at |-> a, key |-> k]
    BY <2>1
  <2>3. call'[p].at = a
    BY <2>2
  <2> QED BY <1>0, <1>2, <2>0, <2>1, <2>3 DEF Idle
<1>3. CASE call[p].key = k /\ Return(p)
  BY <1>0, <1>3, ReturnEffect
<1> QED BY <1>1, <1>2, <1>3 DEF Calm

(* A calm step that writes an entry whose size fits.                       *)
LEMMA SegmentsWrite ==
  ASSUME WellFormed, SegmentsSound, NEW p \in Procs, NEW k \in Keys,
         NEW so \in SharedObject \cup {NoEntry}, SetObject(p, k, so),
         UNCHANGED segSize, Calm(p, k),
         so # NoEntry => /\ so.handle = NoSeg \/ so.size <= segSize[so.handle]
                         /\ \/ so.region \in {NoSeg, Region(p, k)}
                            \/ segSize[so.region] > 0
  PROVE  SegmentsSound'
<1>1. TypeOK
  BY DEF WellFormed
<1>2. \A q \in Procs, l \in Keys :
         sharedObjectList'[q][l] = IF q = p /\ l = k THEN so
                                   ELSE sharedObjectList[q][l]
  BY <1>1, SetObjectEffect
<1>3. /\ Handle(p, k)' = IF so = NoEntry THEN NoSeg ELSE so.handle
      /\ Region(p, k)' = IF so = NoEntry THEN NoSeg ELSE so.region
  BY <1>2 DEF Handle, Region, KeyInMap
<1> QED BY <1>1, <1>2, <1>3, CalmEffect, SegmentsFrame

(* A calm step that writes no entry. *)
LEMMA SegmentsKeep ==
  ASSUME WellFormed, SegmentsSound, NEW p \in Procs, NEW k \in Keys,
         UNCHANGED <<segSize, sharedObjectList>>,
         call' = call \/ (call[p].at # "truncate" /\ Calm(p, k))
  PROVE  SegmentsSound'
<1>1. TypeOK
  BY DEF WellFormed
<1>2. CASE call' = call
  BY <1>2 DEF SegmentsSound, FreshSegmentIsPrivate, SizesFit, Truncates, Handle,
             Region, KeyInMap
<1>3. CASE call[p].at # "truncate" /\ Calm(p, k)
  <2>1. /\ Handle(p, k)' = Handle(p, k)
        /\ Region(p, k)' = Region(p, k)
    BY DEF Handle, Region, KeyInMap
  <2>2. call[p] # [at |-> "truncate", key |-> k]
    BY <1>3
  <2>3. Handle(p, k) # NoSeg => sharedObjectList[p][k].size <= segSize[Handle(p, k)]
    BY <2>2 DEF SegmentsSound, SizesFit
  <2> QED BY <1>1, <1>3, <2>1, <2>3, CalmEffect, SegmentsFrame
<1> QED BY <1>2, <1>3

(* A name is created on a segment that nobody has open.                    *)
LEMMA CreateSegmentsSound ==
  ASSUME WellFormed, SegmentsSound, NEW p \in Procs, NEW k \in Keys,
         NEW size \in Sizes, AllocateCreate(p, k, size)
  PROVE  SegmentsSound'
<1>1. TypeOK /\ RegionOfHandle /\ FreshSegmentIsPrivate /\ SizesFit
  BY DEF WellFormed, SegmentsSound
<1>2. /\ Emplaced(p, k, size) \in SharedObject
      /\ "truncate" \in CallSteps
      /\ Idle(p)
  BY <1>1, ConstantsAssumption, EmplacedTyped
  DEF CallSteps, HandleSteps, AllocateSteps, AllocateCreate, CreatesName
<1>3. PICK s \in Segs :
         /\ ~InUse(s)
         /\ segSize' = [segSize EXCEPT ![s] = 0]
         /\ SetObject(p, k, [Emplaced(p, k, size) EXCEPT !.handle = s])
  BY DEF AllocateCreate
<1> DEFINE so == [Emplaced(p, k, size) EXCEPT !.handle = s]
<1>4. /\ so \in SharedObject
      /\ so.handle = s
      /\ so.region = NoSeg
  BY <1>1, <1>2, ConstantsAssumption
  DEF SharedObject, AllocateCreate, CreatesName, Emplaced, NewObject,
      RegionOfHandle, Region, Handle
<1>5. \A q \in Procs, l \in Keys :
         sharedObjectList'[q][l] = IF q = p /\ l = k THEN so
                                   ELSE sharedObjectList[q][l]
  BY <1>1, <1>3, <1>4, SetObjectEffect
<1>6. \A q \in Procs : call'[q] = IF q = p THEN [at |-> "truncate", key |-> k]
                                  ELSE call[q]
  BY <1>1, <1>2, GotoEffect DEF AllocateCreate
<1>7. \A q \in Procs, l \in Keys : Handle(q, l) # s /\ Region(q, l) # s
  BY <1>1, <1>3, ConstantsAssumption
  DEF InUse, Handle, RegionOfHandle
<1>8. \A q \in Procs, l \in Keys :
         /\ Handle(q, l)' = IF q = p /\ l = k THEN s ELSE Handle(q, l)
         /\ Region(q, l)' = IF q = p /\ l = k THEN NoSeg ELSE Region(q, l)
  <2>1. so # NoEntry
    BY <1>4, ConstantsAssumption
  <2> HIDE DEF so
  <2> QED BY <1>4, <1>5, <2>1 DEF Handle, Region, KeyInMap
<1>9. \A t \in Segs : segSize'[t] = IF t = s THEN 0 ELSE segSize[t]
  BY <1>1, <1>3 DEF TypeOK
<1>10. ASSUME NEW q \in Procs, NEW t \in Segs, Truncates(q, t)'
       PROVE  IF q = p THEN t = s ELSE t # s /\ Truncates(q, t)
  <2>1. CASE q = p
    <3>1. call'[p] = [at |-> "truncate", key |-> k]
      BY <1>6
    <3>2. call'[p].key = k
      BY <3>1
    <3> QED BY <1>8, <1>10, <2>1, <3>2 DEF Truncates
  <2>2. CASE q # p
    <3>1. call'[q] = call[q] /\ call[q].at = "truncate"
      BY <1>6, <1>10, <2>2 DEF Truncates
    <3>2. call[q].key \in Keys
      BY <1>1, <3>1, InsideNotIdle, CallTyped, <1>2
    <3> QED BY <1>7, <1>8, <1>10, <2>2, <3>1, <3>2 DEF Truncates
  <2> QED BY <2>1, <2>2
<1>11. FreshSegmentIsPrivate'
  <2>1. ASSUME NEW q \in Procs, NEW t \in Segs, Truncates(q, t)'
        PROVE  /\ segSize'[t] = 0
               /\ \A r \in Procs : Truncates(r, t)' => r = q
               /\ \A r \in Procs, l \in Keys : Region(r, l)' # t
    <3>1. CASE q = p
      BY <3>1, <2>1, <1>7, <1>8, <1>9, <1>10, ConstantsAssumption
    <3>2. CASE q # p
      <4>1. t # s /\ Truncates(q, t)
        BY <2>1, <3>2, <1>10
      <4>2. /\ segSize[t] = 0
            /\ \A r \in Procs : Truncates(r, t) => r = q
            /\ \A r \in Procs, l \in Keys : Region(r, l) # t
        BY <1>1, <4>1 DEF FreshSegmentIsPrivate
      <4>3. \A r \in Procs : Truncates(r, t)' => r = q
        BY <4>1, <4>2, <1>10
      <4> QED BY <4>1, <4>2, <4>3, <1>8, <1>9, ConstantsAssumption
    <3> QED BY <3>1, <3>2
  <2> QED BY <2>1 DEF FreshSegmentIsPrivate
<1>12. SizesFit'
  <2>1. ASSUME NEW q \in Procs, NEW l \in Keys, Handle(q, l)' # NoSeg,
               call'[q] # [at |-> "truncate", key |-> l]
        PROVE  sharedObjectList'[q][l].size <= segSize'[Handle(q, l)']
    <3>1. q # p \/ l # k
      BY <1>6, <2>1
    <3>2. /\ Handle(q, l)' = Handle(q, l)
          /\ sharedObjectList'[q][l] = sharedObjectList[q][l]
          /\ Handle(q, l) \in Segs
          /\ segSize'[Handle(q, l)] = segSize[Handle(q, l)]
      BY <1>1, <1>5, <1>7, <1>8, <1>9, <2>1, <3>1, HandleTyped
    <3>3. call[q] # [at |-> "truncate", key |-> l]
      <4>1. CASE q = p
        <5>1. call[q].at = "idle"
          BY <1>2, <4>1 DEF Idle, NoCall
        <5> QED BY <5>1
      <4>2. CASE q # p
        BY <1>6, <2>1, <4>2
      <4> QED BY <4>1, <4>2
    <3> QED BY <1>1, <2>1, <3>2, <3>3 DEF SizesFit
  <2> QED BY <2>1 DEF SizesFit
<1> QED BY <1>11, <1>12 DEF SegmentsSound

(* The creator sizes its segment: the others find it grown.                *)
LEMMA TruncateSegmentsSound ==
  ASSUME WellFormed, SegmentsSound, NEW p \in Procs, Truncate(p)
  PROVE  SegmentsSound'
<1>1. TypeOK /\ FreshSegmentIsPrivate /\ SizesFit
  BY DEF WellFormed, SegmentsSound
<1> DEFINE k == call[p].key
           s == sharedObjectList[p][k].handle
           n == sharedObjectList[p][k].size
<1>2. /\ call[p].at = "truncate"
      /\ call[p].at \in HandleSteps
      /\ "validate" \in CallSteps
  BY DEF Truncate, CallSteps, HandleSteps, AllocateSteps
<1>3. k \in Keys /\ KeyInMap(p, k) /\ s \in Segs /\ n \in Nat
  BY <1>2, InsideCall DEF SharedObject
<1>4. Truncates(p, s)
  BY <1>2, <1>3 DEF Truncates, Handle
<1>5. /\ segSize[s] = 0
      /\ \A q \in Procs : Truncates(q, s) => q = p
  BY <1>1, <1>3, <1>4 DEF FreshSegmentIsPrivate
<1>6. \A t \in Segs : segSize'[t] = IF t = s THEN SegmentSize(n) ELSE segSize[t]
  BY <1>1 DEF Truncate, TypeOK
<1>7. SegmentSize(n) \in Nat /\ n <= SegmentSize(n)
  BY <1>3 DEF SegmentSize
<1>8. \A q \in Procs : call'[q] = IF q = p THEN [at |-> "validate", key |-> k]
                                  ELSE call[q]
  BY <1>1, <1>2, <1>3, GotoEffect DEF Truncate
<1>9. \A q \in Procs, l \in Keys :
         /\ Handle(q, l)' = Handle(q, l)
         /\ Region(q, l)' = Region(q, l)
         /\ sharedObjectList'[q][l] = sharedObjectList[q][l]
  BY DEF Truncate, Handle, Region, KeyInMap
<1>10. ASSUME NEW q \in Procs, NEW t \in Segs, Truncates(q, t)'
       PROVE  q # p /\ t # s /\ Truncates(q, t)
  <2>1. call'[q].at = "truncate"
    BY <1>10 DEF Truncates
  <2>2. q # p
    <3>1. call'[p] = [at |-> "validate", key |-> k]
      BY <1>8
    <3>2. call'[p].at = "validate"
      BY <3>1
    <3> QED BY <2>1, <3>2
  <2>3. call'[q] = call[q]
    BY <1>8, <2>2
  <2>4. call[q].key \in Keys
    BY <1>1, <1>2, <2>1, <2>3, NoCallOutside, InsideNotIdle, CallTyped
  <2>5. Truncates(q, t)
    BY <1>9, <1>10, <2>3, <2>4 DEF Truncates
  <2> QED BY <1>5, <2>2, <2>5
<1> HIDE DEF k, s, n
<1>11. FreshSegmentIsPrivate'
  <2>1. ASSUME NEW q \in Procs, NEW t \in Segs, Truncates(q, t)'
        PROVE  /\ segSize'[t] = 0
               /\ \A r \in Procs : Truncates(r, t)' => r = q
               /\ \A r \in Procs, l \in Keys : Region(r, l)' # t
    <3>1. t # s /\ Truncates(q, t)
      BY <2>1, <1>10
    <3>2. /\ segSize[t] = 0
          /\ \A r \in Procs : Truncates(r, t) => r = q
          /\ \A r \in Procs, l \in Keys : Region(r, l) # t
      BY <1>1, <3>1 DEF FreshSegmentIsPrivate
    <3> QED BY <1>6, <1>9, <1>10, <3>1, <3>2
  <2> QED BY <2>1 DEF FreshSegmentIsPrivate
<1>12. SizesFit'
  <2>1. ASSUME NEW q \in Procs, NEW l \in Keys, Handle(q, l)' # NoSeg,
               call'[q] # [at |-> "truncate", key |-> l]
        PROVE  sharedObjectList'[q][l].size <= segSize'[Handle(q, l)']
    <3>1. /\ Handle(q, l) # NoSeg
          /\ Handle(q, l) \in Segs
          /\ KeyInMap(q, l)
          /\ sharedObjectList[q][l].size \in Nat
          /\ segSize[Handle(q, l)] \in Nat
      BY <1>1, <1>9, <2>1, HandleTyped DEF Handle, TypeOK
    <3>2. CASE q = p /\ l = k
      BY <1>3, <1>6, <1>7, <1>9, <3>2 DEF Handle, s, n
    <3>3. CASE q # p \/ l # k
      <4>1. call[q] # [at |-> "truncate", key |-> l]
        <5>1. CASE q = p
          BY <3>3, <5>1 DEF k
        <5>2. CASE q # p
          BY <1>8, <2>1, <5>2
        <5> QED BY <5>1, <5>2
      <4>2. sharedObjectList[q][l].size <= segSize[Handle(q, l)]
        BY <1>1, <3>1, <4>1 DEF SizesFit
      <4>3. segSize[Handle(q, l)] <= segSize'[Handle(q, l)]
        BY <1>5, <1>6, <1>7, <3>1
      <4>4. segSize'[Handle(q, l)] \in Nat
        BY <1>6, <1>7, <3>1
      <4> QED BY <1>9, <3>1, <4>2, <4>3, <4>4
    <3> QED BY <3>2, <3>3
  <2> QED BY <2>1 DEF SizesFit
<1> QED BY <1>11, <1>12 DEF SegmentsSound

(* What allocateSharedMemory and mapSharedMemory do before a system call.  *)
LEMMA CallSegmentsSound ==
  ASSUME WellFormed, SegmentsSound, NEW p \in Procs, Allocate(p) \/ Map(p)
  PROVE  SegmentsSound'
<1>1. TypeOK /\ RegionOfHandle
  BY DEF WellFormed
<1>2. CASE Allocate(p)
  <2>1. PICK k \in Keys, size \in Sizes :
           \/ UNCHANGED vars
           \/ AllocateNameInUse(p, k, size)
           \/ AllocateCreate(p, k, size)
    BY <1>2 DEF Allocate, AllocateTooSmall, AllocateOpened
  <2>2. CASE UNCHANGED vars
    BY <2>2, SegmentsKeep DEF vars
  <2>3. CASE AllocateNameInUse(p, k, size)
    <3>1. /\ Emplaced(p, k, size) \in SharedObject
          /\ Emplaced(p, k, size).handle = NoSeg
          /\ Emplaced(p, k, size).region = NoSeg
      BY <1>1, <2>3, ConstantsAssumption, EmplacedTyped
      DEF AllocateNameInUse, CreatesName, Emplaced, NewObject, RegionOfHandle,
          Region, Handle
    <3>2. Calm(p, k) /\ SetObject(p, k, Emplaced(p, k, size)) /\ UNCHANGED segSize
      BY <2>3 DEF AllocateNameInUse, CreatesName, Calm
    <3> QED BY <3>1, <3>2, SegmentsWrite
  <2>4. CASE AllocateCreate(p, k, size)
    BY <2>4, CreateSegmentsSound
  <2> QED BY <2>1, <2>2, <2>3, <2>4
<1>3. CASE Map(p)
  <2>1. PICK k \in Keys : \/ MapMapped(p, k)
                          \/ MapNotFound(p, k)
                          \/ MapOpen(p, k)
                          \/ MapWithHandle(p, k)
    BY <1>3 DEF Map
  <2>2. Emplaced(p, k, 0) \in SharedObject
    BY <1>1, ConstantsAssumption, EmplacedTyped
  <2>3. CASE MapMapped(p, k)
    BY <2>3, SegmentsKeep DEF MapMapped
  <2>4. CASE MapNotFound(p, k)
    BY <2>2, <2>4, SegmentsWrite DEF MapNotFound, Opens, Calm
  <2>5. CASE MapOpen(p, k)
    <3> DEFINE so == [Emplaced(p, k, 0) EXCEPT !.handle = names[k],
                                               !.size = segSize[names[k]]]
    <3>1. names[k] \in Segs /\ segSize[names[k]] \in Nat
      BY <1>1, <2>5, ConstantsAssumption DEF MapOpen, HasSharedMemory, TypeOK
    <3>2. /\ so \in SharedObject
          /\ so.size = segSize[so.handle]
          /\ so.size <= segSize[so.handle]
          /\ so.region = NoSeg
      <4>1. /\ so \in SharedObject
            /\ so.handle = names[k]
            /\ so.size = segSize[names[k]]
            /\ so.region = Emplaced(p, k, 0).region
        BY <2>2, <3>1 DEF SharedObject
      <4>2. Emplaced(p, k, 0).region = NoSeg
        BY <2>5 DEF MapOpen, Opens
      <4> HIDE DEF so
      <4>3. so.size = segSize[so.handle] /\ so.size \in Nat
        BY <3>1, <4>1
      <4> QED BY <4>1, <4>2, <4>3
    <3>3. SetObject(p, k, so) /\ Calm(p, k) /\ UNCHANGED segSize
      BY <2>5 DEF MapOpen, Opens, Calm
    <3> HIDE DEF so
    <3> QED BY <3>2, <3>3, SegmentsWrite
  <2>6. CASE MapWithHandle(p, k)
    <3>1. call[p].at # "truncate" /\ Calm(p, k)
      BY <2>6 DEF MapWithHandle, Calm, Idle, NoCall
    <3> QED BY <2>6, <3>1, SegmentsKeep DEF MapWithHandle
  <2> QED BY <2>1, <2>3, <2>4, <2>5, <2>6
<1> QED BY <1>2, <1>3

(* The outcomes of system calls. *)
LEMMA ContinueSegmentsSound ==
  ASSUME WellFormed, SegmentsSound, NEW p \in Procs, Continue(p), ~Unlink(p)
  PROVE  SegmentsSound'
<1>1. TypeOK /\ SizesFit
  BY DEF WellFormed, SegmentsSound
<1>2. call[p].at \in HandleSteps
  BY DEF Continue, Truncate, ValidateOK, AllocateFails, AllocateSigbus, MmapOK,
         MmapFails, HandleSteps, AllocateSteps
<1> DEFINE k == call[p].key
           so == sharedObjectList[p][k]
<1>3. /\ k \in Keys
      /\ KeyInMap(p, k)
      /\ so \in SharedObject
      /\ so.handle \in Segs
      /\ so.region = NoSeg
      /\ segSize[so.handle] \in Nat
  BY <1>1, <1>2, InsideCall DEF TypeOK
<1>4. CASE Truncate(p)
  BY <1>4, TruncateSegmentsSound
<1>5. CASE ValidateOK(p)
  <2> DEFINE new == [so EXCEPT !.size = segSize[so.handle]]
  <2>1. SetObject(p, k, new) /\ Calm(p, k) /\ UNCHANGED segSize
    BY <1>5 DEF ValidateOK, Calm
  <2>2. /\ new \in SharedObject
        /\ new.region = NoSeg
        /\ new.size = segSize[new.handle]
        /\ new.size <= segSize[new.handle]
    BY <1>3 DEF SharedObject
  <2> HIDE DEF new
  <2> QED BY <1>3, <2>1, <2>2, SegmentsWrite
<1>6. CASE AllocateFails(p)
  <2> DEFINE new == [so EXCEPT !.handle = NoSeg]
  <2>1. SetObject(p, k, new) /\ Calm(p, k) /\ UNCHANGED segSize
    BY <1>6 DEF AllocateFails, Calm
  <2>2. new \in SharedObject /\ new.region = NoSeg /\ new.handle = NoSeg
    BY <1>3 DEF SharedObject
  <2> HIDE DEF new
  <2> QED BY <1>3, <2>1, <2>2, SegmentsWrite
<1>7. CASE AllocateSigbus(p) \/ MmapFails(p)
  <2>1. /\ UNCHANGED <<segSize, sharedObjectList>>
        /\ call[p].at # "truncate"
        /\ Calm(p, k)
    BY <1>7 DEF AllocateSigbus, MmapFails, Calm
  <2> QED BY <1>3, <2>1, SegmentsKeep
<1>8. CASE MmapOK(p)
  <2> DEFINE new == [so EXCEPT !.region = so.handle]
  <2>1. /\ SetObject(p, k, new)
        /\ Calm(p, k)
        /\ UNCHANGED segSize
        /\ call[p].at # "truncate"
        /\ segSize[so.handle] > 0
    BY <1>8 DEF MmapOK, Calm
  <2>2. so.size <= segSize[so.handle]
    <3>1. Handle(p, k) = so.handle /\ Handle(p, k) # NoSeg
      BY <1>3, ConstantsAssumption DEF Handle
    <3>2. call[p] # [at |-> "truncate", key |-> k]
      BY <2>1
    <3> QED BY <1>1, <1>3, <3>1, <3>2 DEF SizesFit
  <2>3. /\ new \in SharedObject
        /\ new.size <= segSize[new.handle]
        /\ segSize[new.region] > 0
    BY <1>3, <2>1, <2>2 DEF SharedObject
  <2> HIDE DEF new
  <2> QED BY <1>3, <2>1, <2>3, SegmentsWrite
<1> QED BY <1>4, <1>5, <1>6, <1>7, <1>8 DEF Continue

(* The end of freeSharedMemory touches no segment.                         *)
LEMMA UnlinkSegmentsSound ==
  ASSUME WellFormed, SegmentsSound, NEW p \in Procs, Unlink(p)
  PROVE  SegmentsSound'
<1>1. call[p].at # "truncate"
  BY DEF Unlink
<1> QED BY <1>1, UnlinkEffect, SegmentsKeep DEF WellFormed, Calm

(* Erasing an entry, and autoReleaseAfterUse.                              *)
LEMMA ReleaseSegmentsSound ==
  ASSUME WellFormed, SegmentsSound, NEW p \in Procs, NEW k \in Keys,
         NEW own \in BOOLEAN,
         Unmap(p, k) \/ Free(p, k) \/ SetOwnership(p, k, own)
  PROVE  SegmentsSound'
<1>1. TypeOK /\ SizesFit
  BY DEF WellFormed, SegmentsSound
<1>2. CASE Unmap(p, k) \/ Free(p, k)
  <2>1. /\ Calm(p, k)
        /\ call[p].at # "truncate"
        /\ UNCHANGED segSize
        /\ SetObject(p, k, NoEntry) \/ UNCHANGED sharedObjectList
    <3>1. CASE Unmap(p, k)
      BY <3>1 DEF Unmap, Erase, Calm, Idle, NoCall
    <3>2. CASE Free(p, k)
      BY <3>2 DEF Free, Erase, Calm, Idle, NoCall
    <3> QED BY <1>2, <3>1, <3>2
  <2>2. CASE SetObject(p, k, NoEntry)
    BY <2>1, <2>2, SegmentsWrite
  <2>3. CASE UNCHANGED sharedObjectList
    BY <2>1, <2>3, SegmentsKeep
  <2> QED BY <2>1, <2>2, <2>3
<1>3. CASE SetOwnership(p, k, own)
  <2> DEFINE old == sharedObjectList[p][k]
             so == [old EXCEPT !.ownData = own]
  <2>1. /\ SetObject(p, k, so)
        /\ Calm(p, k)
        /\ UNCHANGED segSize
        /\ KeyInMap(p, k)
        /\ old \in SharedObject
    BY <1>1, <1>3, ObjectTyped DEF SetOwnership, Calm
  <2>2. call[p] # [at |-> "truncate", key |-> k]
    <3>1. call[p].at = "idle"
      BY <1>3 DEF SetOwnership, Idle, NoCall
    <3> QED BY <3>1
  <2>3. old.handle = NoSeg \/ old.size <= segSize[old.handle]
    BY <1>1, <2>1, <2>2 DEF SizesFit, Handle
  <2>4. /\ so \in SharedObject
        /\ so.handle = NoSeg \/ so.size <= segSize[so.handle]
        /\ so.region = Region(p, k)
    BY <2>1, <2>3 DEF SharedObject, Region
  <2> HIDE DEF so
  <2> QED BY <2>1, <2>4, SegmentsWrite
<1> QED BY <1>2, <1>3

(* The end of a process closes handles and regions, nothing else.          *)
LEMMA EndSegmentsSound ==
  ASSUME WellFormed, SegmentsSound, NEW p \in Procs, Quit(p) \/ Crash(p)
  PROVE  SegmentsSound'
<1>1. TypeOK /\ FreshSegmentIsPrivate /\ SizesFit
  BY DEF WellFormed, SegmentsSound
<1>2. ProcessGone(p) /\ UNCHANGED segSize
  BY DEF Quit, Crash, osVars
<1>3. \A q \in Procs : sharedObjectList'[q] = IF q = p THEN [k \in Keys |-> NoEntry]
                                              ELSE sharedObjectList[q]
  BY <1>1, <1>2 DEF ProcessGone, TypeOK
<1>4. \A q \in Procs : call'[q] = IF q = p THEN NoCall ELSE call[q]
  BY <1>1, <1>2 DEF ProcessGone, Return, TypeOK
<1>5. \A q \in Procs, l \in Keys :
         /\ Handle(q, l)' = IF q = p THEN NoSeg ELSE Handle(q, l)
         /\ Region(q, l)' = IF q = p THEN NoSeg ELSE Region(q, l)
         /\ q # p => sharedObjectList'[q][l] = sharedObjectList[q][l]
  BY <1>3 DEF Handle, Region, KeyInMap
<1>6. ASSUME NEW q \in Procs, NEW s \in Segs, Truncates(q, s)'
      PROVE  Truncates(q, s)
  <2>1. q # p /\ call'[q] = call[q] /\ call[q].at = "truncate"
    BY <1>4, <1>6 DEF Truncates, NoCall
  <2>2. call[q].key \in Keys
    BY <1>1, <2>1, InsideNotIdle, CallTyped DEF CallSteps, HandleSteps, AllocateSteps
  <2> QED BY <1>5, <1>6, <2>1, <2>2 DEF Truncates
<1>7. FreshSegmentIsPrivate'
  BY <1>1, <1>2, <1>5, <1>6, ConstantsAssumption DEF FreshSegmentIsPrivate
<1>8. SizesFit'
  BY <1>1, <1>2, <1>4, <1>5 DEF SizesFit
<1> QED BY <1>7, <1>8 DEF SegmentsSound

(* No step makes a segment unsound.                                        *)
LEMMA SegmentsSoundStep ==
  WellFormed /\ SegmentsSound /\ [Next]_vars => SegmentsSound'
<1> SUFFICES ASSUME WellFormed, SegmentsSound, [Next]_vars
             PROVE  SegmentsSound'
  OBVIOUS
<1>1. CASE UNCHANGED vars
  BY <1>1 DEF vars, SegmentsSound, FreshSegmentIsPrivate, SizesFit, Truncates,
             Region, Handle, KeyInMap
<1>2. ASSUME NEW p \in Procs, Allocate(p) \/ Map(p) \/ Continue(p)
      PROVE  SegmentsSound'
  BY <1>2, CallSegmentsSound, ContinueSegmentsSound, UnlinkSegmentsSound
<1>3. ASSUME NEW p \in Procs, NEW k \in Keys, NEW own \in BOOLEAN,
             Unmap(p, k) \/ Free(p, k) \/ SetOwnership(p, k, own)
      PROVE  SegmentsSound'
  BY <1>3, ReleaseSegmentsSound
<1>4. ASSUME NEW p \in Procs, Quit(p) \/ Crash(p)
      PROVE  SegmentsSound'
  BY <1>4, EndSegmentsSound
<1> QED BY <1>1, <1>2, <1>3, <1>4 DEF Next

(* The size reported for mapped memory never exceeds the mapping, in every *)
(* execution and whatever clients do: a copy of that many bytes is safe.   *)
THEOREM ReportedSizeCorrect == Spec => []ReportedSizeWithinMapping
<1>1. WellFormed /\ SegmentsSound => ReportedSizeWithinMapping
  <2> SUFFICES ASSUME WellFormed, SegmentsSound, NEW p \in Procs, NEW k \in Keys,
                      Region(p, k) # NoSeg
               PROVE  sharedObjectList[p][k].size <= segSize[Region(p, k)]
    BY DEF ReportedSizeWithinMapping
  <2>1. Region(p, k) = Handle(p, k)
    BY DEF WellFormed, RegionOfHandle
  <2>2. call[p] # [at |-> "truncate", key |-> k]
    <3> SUFFICES ASSUME call[p] = [at |-> "truncate", key |-> k]
                 PROVE  FALSE
      OBVIOUS
    <3>1. call[p].at \in HandleSteps /\ call[p].key = k
      BY DEF HandleSteps, AllocateSteps
    <3> QED BY <3>1 DEF WellFormed, CallsHaveHandles
  <2> QED BY <2>1, <2>2 DEF SegmentsSound, SizesFit
<1> QED
  BY <1>1, WellFormedInit, WellFormedStep, SegmentsSoundInit, SegmentsSoundStep,
     PTL DEF Spec

----------------------------------------------------------------------------
(* Pointers, for clients that give back only what they hold.               *)

PointersCounted == PointersStayMapped /\ CounterCountsPointers

(* No pointer has been handed out.                                         *)
LEMMA PointersCountedInit == Init => PointersCounted
BY DEF Init, RegistryInit, PointersCounted, PointersStayMapped,
       CounterCountsPointers, Region, KeyInMap

(* A step that touches one key of one process, and leaves that key counted. *)
LEMMA CountedFrame ==
  ASSUME PointersCounted, NEW p \in Procs, NEW k \in Keys,
         \A q \in Procs, l \in Keys : q # p \/ l # k =>
            /\ sharedObjectList'[q][l] = sharedObjectList[q][l]
            /\ mapCounter'[q][l] = mapCounter[q][l]
            /\ held'[q][l] = held[q][l],
         held'[p][k] > 0 <=> Region(p, k)' # NoSeg,
         mapCounter'[p][k] = held'[p][k]
  PROVE  PointersCounted'
<1>1. \A q \in Procs, l \in Keys : q # p \/ l # k => Region(q, l)' = Region(q, l)
  BY DEF Region, KeyInMap
<1>2. PointersStayMapped'
  BY <1>1 DEF PointersCounted, PointersStayMapped
<1>3. CounterCountsPointers'
  BY DEF PointersCounted, CounterCountsPointers
<1> QED BY <1>2, <1>3 DEF PointersCounted

(* A step that writes an entry without changing what is mapped, and no     *)
(* counter.                                                                *)
LEMMA CountedWrite ==
  ASSUME TypeOK, PointersCounted, NEW p \in Procs, NEW k \in Keys,
         NEW so \in SharedObject, SetObject(p, k, so),
         so.region = Region(p, k),
         UNCHANGED <<mapCounter, held>>
  PROVE  PointersCounted'
<1>1. \A q \in Procs, l \in Keys :
         sharedObjectList'[q][l] = IF q = p /\ l = k THEN so
                                   ELSE sharedObjectList[q][l]
  BY SetObjectEffect
<1>2. Region(p, k)' = Region(p, k)
  BY <1>1, ConstantsAssumption DEF Region, KeyInMap
<1> QED
  BY <1>1, <1>2, CountedFrame
  DEF PointersCounted, PointersStayMapped, CounterCountsPointers

(* A step that leaves registry and counters alone.                         *)
LEMMA CountedKeep ==
  ASSUME PointersCounted, UNCHANGED <<sharedObjectList, mapCounter, held>>
  PROVE  PointersCounted'
BY DEF PointersCounted, PointersStayMapped, CounterCountsPointers, Region, KeyInMap

(* Erasing an entry whose pointers have all been given back or are void.   *)
LEMMA CountedErase ==
  ASSUME TypeOK, PointersCounted, NEW p \in Procs, NEW k \in Keys,
         SetObject(p, k, NoEntry),
         mapCounter' = [mapCounter EXCEPT ![p][k] = 0],
         held' = [held EXCEPT ![p][k] = 0]
  PROVE  PointersCounted'
<1>1. \A q \in Procs, l \in Keys :
         /\ sharedObjectList'[q][l] = IF q = p /\ l = k THEN NoEntry
                                      ELSE sharedObjectList[q][l]
         /\ mapCounter'[q][l] = IF q = p /\ l = k THEN 0 ELSE mapCounter[q][l]
         /\ held'[q][l] = IF q = p /\ l = k THEN 0 ELSE held[q][l]
  BY SetObjectEffect DEF TypeOK
<1>2. Region(p, k)' = NoSeg
  BY <1>1 DEF Region, KeyInMap
<1> QED BY <1>1, <1>2, CountedFrame

(* Handing out a pointer to mapped memory.                                 *)
LEMMA CountedPointer ==
  ASSUME TypeOK, PointersCounted, NEW p \in Procs, NEW k \in Keys,
         CountPointer(p, k), Region(p, k)' # NoSeg,
         \A q \in Procs, l \in Keys : q # p \/ l # k =>
            sharedObjectList'[q][l] = sharedObjectList[q][l]
  PROVE  PointersCounted'
<1>1. \A q \in Procs, l \in Keys :
         /\ held[q][l] \in Nat
         /\ mapCounter[q][l] = held[q][l]
         /\ mapCounter'[q][l] = mapCounter[q][l] + (IF q = p /\ l = k THEN 1 ELSE 0)
         /\ held'[q][l] = held[q][l] + (IF q = p /\ l = k THEN 1 ELSE 0)
  BY DEF TypeOK, CountPointer, PointersCounted, CounterCountsPointers
<1> QED BY <1>1, CountedFrame

(* unmapSharedMemory of a pointer that is held.                            *)
LEMMA UnmapCounted ==
  ASSUME Disciplined, TypeOK, PointersCounted, NEW p \in Procs, NEW k \in Keys,
         Unmap(p, k)
  PROVE  PointersCounted'
<1>1. /\ held[p][k] > 0
      /\ held[p][k] \in Nat
      /\ mapCounter[p][k] = held[p][k]
      /\ Region(p, k) # NoSeg
      /\ KeyInMap(p, k)
  BY DEF Unmap, TypeOK, PointersCounted, PointersStayMapped, CounterCountsPointers,
         Region
<1>2. /\ held' = [held EXCEPT ![p][k] = @ - 1]
      /\ mapCounter' = [mapCounter EXCEPT ![p][k] = @ - 1]
  BY <1>1 DEF Unmap, GiveBack
<1>3. CASE held[p][k] = 1
  <2>1. SetObject(p, k, NoEntry)
    BY <1>1, <1>3 DEF Unmap, Erase
  <2>2. /\ held' = [held EXCEPT ![p][k] = 0]
        /\ mapCounter' = [mapCounter EXCEPT ![p][k] = 0]
    BY <1>1, <1>2, <1>3
  <2> QED BY <2>1, <2>2, CountedErase
<1>4. CASE held[p][k] # 1
  <2>1. UNCHANGED sharedObjectList
    BY <1>1, <1>4 DEF Unmap
  <2>2. Region(p, k)' # NoSeg
    BY <1>1, <2>1 DEF Region, KeyInMap
  <2>3. \A q \in Procs, l \in Keys :
           /\ mapCounter'[q][l] = IF q = p /\ l = k THEN held[p][k] - 1
                                  ELSE mapCounter[q][l]
           /\ held'[q][l] = IF q = p /\ l = k THEN held[p][k] - 1 ELSE held[q][l]
    BY <1>1, <1>2 DEF TypeOK
  <2>4. held'[p][k] > 0 /\ mapCounter'[p][k] = held'[p][k]
    BY <1>1, <1>4, <2>3
  <2> QED BY <2>1, <2>2, <2>3, <2>4, CountedFrame
<1> QED BY <1>3, <1>4

(* A key without region has no pointers, and a counter of 0.               *)
LEMMA UnmappedHasNoPointers ==
  ASSUME TypeOK, PointersCounted, NEW p \in Procs, NEW k \in Keys,
         Region(p, k) = NoSeg
  PROVE  held[p][k] = 0 /\ mapCounter[p][k] = 0
BY DEF TypeOK, PointersCounted, PointersStayMapped, CounterCountsPointers

(* freeSharedMemory makes the pointers of the caller void. *)
LEMMA FreeCounted ==
  ASSUME TypeOK, PointersCounted, NEW p \in Procs, NEW k \in Keys, Free(p, k)
  PROVE  PointersCounted'
<1>1. CASE KeyInMap(p, k)
  BY <1>1, CountedErase DEF Free, Erase
<1>2. CASE ~KeyInMap(p, k)
  <2>1. held[p][k] = 0
    BY <1>2, UnmappedHasNoPointers DEF Region
  <2>2. held' = held
    BY <2>1 DEF Free, TypeOK
  <2>3. UNCHANGED <<sharedObjectList, mapCounter>>
    BY <1>2 DEF Free
  <2> QED BY <2>2, <2>3, CountedKeep
<1> QED BY <1>1, <1>2

(* The counter that mapSharedMemoryInternal resets for a new key was 0.    *)
LEMMA EntryKeepsCounter ==
  ASSUME TypeOK, PointersCounted, NEW p \in Procs, NEW k \in Keys
  PROVE  MapCounterAtEntry(p, k) = mapCounter
<1>1. CASE KeyInMap(p, k)
  BY <1>1 DEF MapCounterAtEntry
<1>2. CASE ~KeyInMap(p, k)
  <2>1. mapCounter[p][k] = 0
    BY <1>2, UnmappedHasNoPointers DEF Region
  <2> QED BY <1>2, <2>1 DEF MapCounterAtEntry, TypeOK
<1> QED BY <1>1, <1>2

(* What allocateSharedMemory and mapSharedMemory do before a system call.  *)
LEMMA CallCounted ==
  ASSUME WellFormed, PointersCounted, NEW p \in Procs, Allocate(p) \/ Map(p)
  PROVE  PointersCounted'
<1>1. TypeOK /\ RegionOfHandle
  BY DEF WellFormed
<1>2. ASSUME NEW k \in Keys, NEW n \in Nat
      PROVE  /\ Emplaced(p, k, n) \in SharedObject
             /\ Emplaced(p, k, n).region = Region(p, k)
  BY <1>1, <1>2, EmplacedTyped DEF Emplaced, Region, NewObject
<1>3. CASE Allocate(p)
  <2>1. PICK k \in Keys, size \in Sizes :
           \/ UNCHANGED vars
           \/ AllocateNameInUse(p, k, size)
           \/ AllocateCreate(p, k, size)
    BY <1>3 DEF Allocate, AllocateTooSmall, AllocateOpened
  <2>2. size \in Nat
    BY ConstantsAssumption
  <2>3. CASE UNCHANGED vars
    BY <2>3, CountedKeep DEF vars
  <2>4. CASE AllocateNameInUse(p, k, size)
    BY <1>1, <1>2, <2>2, <2>4, CountedWrite DEF AllocateNameInUse
  <2>5. CASE AllocateCreate(p, k, size)
    <3>1. PICK s \in Segs : SetObject(p, k, [Emplaced(p, k, size) EXCEPT !.handle = s])
      BY <2>5 DEF AllocateCreate
    <3> DEFINE so == [Emplaced(p, k, size) EXCEPT !.handle = s]
    <3>2. so \in SharedObject /\ so.region = Region(p, k)
      BY <1>2, <2>2 DEF SharedObject
    <3>3. UNCHANGED <<mapCounter, held>>
      BY <2>5 DEF AllocateCreate
    <3> HIDE DEF so
    <3> QED BY <1>1, <3>1, <3>2, <3>3, CountedWrite DEF so
  <2> QED BY <2>1, <2>3, <2>4, <2>5
<1>4. CASE Map(p)
  <2>1. PICK k \in Keys : \/ MapMapped(p, k)
                          \/ MapNotFound(p, k)
                          \/ MapOpen(p, k)
                          \/ MapWithHandle(p, k)
    BY <1>4 DEF Map
  <2>2. CASE MapMapped(p, k)
    <3>1. Region(p, k)' # NoSeg
      BY <2>2 DEF MapMapped, Region, KeyInMap
    <3> QED BY <1>1, <2>2, <3>1, CountedPointer DEF MapMapped
  <2>3. CASE MapNotFound(p, k)
    BY <1>1, <1>2, <2>3, EntryKeepsCounter, CountedWrite DEF MapNotFound
  <2>4. CASE MapOpen(p, k)
    <3> DEFINE so == [Emplaced(p, k, 0) EXCEPT !.handle = names[k],
                                               !.size = segSize[names[k]]]
    <3>1. names[k] \in Segs /\ segSize[names[k]] \in Nat
      BY <1>1, <2>4, ConstantsAssumption DEF MapOpen, HasSharedMemory, TypeOK
    <3>2. so \in SharedObject /\ so.region = Region(p, k)
      <4>1. /\ Emplaced(p, k, 0) \in SharedObject
            /\ Emplaced(p, k, 0).region = Region(p, k)
        BY <1>2
      <4>2. so \in SharedObject /\ so.region = Emplaced(p, k, 0).region
        BY <3>1, <4>1 DEF SharedObject
      <4> QED BY <4>1, <4>2
    <3>3. SetObject(p, k, so) /\ UNCHANGED <<mapCounter, held>>
      BY <1>1, <2>4, EntryKeepsCounter DEF MapOpen
    <3> HIDE DEF so
    <3> QED BY <1>1, <3>2, <3>3, CountedWrite
  <2>5. CASE MapWithHandle(p, k)
    BY <2>5, CountedKeep DEF MapWithHandle
  <2> QED BY <2>1, <2>2, <2>3, <2>4, <2>5
<1> QED BY <1>3, <1>4

(* The outcomes of system calls. *)
LEMMA ContinueCounted ==
  ASSUME WellFormed, PointersCounted, NEW p \in Procs, Continue(p), ~Unlink(p)
  PROVE  PointersCounted'
<1>1. TypeOK
  BY DEF WellFormed
<1>2. call[p].at \in HandleSteps
  BY DEF Continue, Truncate, ValidateOK, AllocateFails, AllocateSigbus, MmapOK,
         MmapFails, HandleSteps, AllocateSteps
<1>3. PICK k \in Keys : k = call[p].key
  BY <1>2, InsideCall
<1> DEFINE so == sharedObjectList[p][k]
<1>4. /\ KeyInMap(p, k)
      /\ so \in SharedObject
      /\ so.handle \in Segs
      /\ so.region = NoSeg
      /\ Region(p, k) = NoSeg
      /\ segSize[so.handle] \in Nat
  BY <1>1, <1>2, <1>3, InsideCall DEF TypeOK, Region
<1>5. CASE Truncate(p) \/ AllocateSigbus(p) \/ MmapFails(p)
  BY <1>5, CountedKeep DEF Truncate, AllocateSigbus, MmapFails
<1>6. CASE ValidateOK(p)
  <2> DEFINE new == [so EXCEPT !.size = segSize[so.handle]]
  <2>1. SetObject(p, k, new) /\ UNCHANGED <<mapCounter, held>>
    BY <1>3, <1>6 DEF ValidateOK
  <2>2. new \in SharedObject /\ new.region = Region(p, k)
    BY <1>4 DEF SharedObject
  <2> HIDE DEF new
  <2> QED BY <1>1, <2>1, <2>2, CountedWrite
<1>7. CASE AllocateFails(p)
  <2> DEFINE new == [so EXCEPT !.handle = NoSeg]
  <2>1. SetObject(p, k, new) /\ UNCHANGED <<mapCounter, held>>
    BY <1>3, <1>7 DEF AllocateFails
  <2>2. new \in SharedObject /\ new.region = Region(p, k)
    BY <1>4 DEF SharedObject
  <2> HIDE DEF new
  <2> QED BY <1>1, <2>1, <2>2, CountedWrite
<1>8. CASE MmapOK(p)
  <2> DEFINE new == [so EXCEPT !.region = so.handle]
  <2>1. SetObject(p, k, new) /\ CountPointer(p, k)
    BY <1>3, <1>8 DEF MmapOK
  <2>2. new \in SharedObject /\ new.region # NoSeg
    BY <1>4, ConstantsAssumption DEF SharedObject
  <2> HIDE DEF new, so
  <2>3. \A q \in Procs, l \in Keys :
           sharedObjectList'[q][l] = IF q = p /\ l = k THEN new
                                     ELSE sharedObjectList[q][l]
    BY <1>1, <2>1, <2>2, SetObjectEffect
  <2>4. Region(p, k)' # NoSeg
    BY <2>2, <2>3, ConstantsAssumption DEF Region, KeyInMap
  <2> QED BY <1>1, <2>1, <2>3, <2>4, CountedPointer
<1> QED BY <1>5, <1>6, <1>7, <1>8 DEF Continue

(* The end of a process takes its pointers with it.                        *)
LEMMA EndCounted ==
  ASSUME WellFormed, PointersCounted, NEW p \in Procs, Quit(p) \/ Crash(p)
  PROVE  PointersCounted'
<1>1. TypeOK /\ ProcessGone(p)
  BY DEF WellFormed, Quit, Crash
<1>2. \A q \in Procs :
         /\ sharedObjectList'[q] = IF q = p THEN [k \in Keys |-> NoEntry]
                                   ELSE sharedObjectList[q]
         /\ mapCounter'[q] = IF q = p THEN [k \in Keys |-> 0] ELSE mapCounter[q]
         /\ held'[q] = IF q = p THEN [k \in Keys |-> 0] ELSE held[q]
  BY <1>1 DEF ProcessGone, TypeOK
<1>3. \A q \in Procs, l \in Keys :
         /\ Region(q, l)' = IF q = p THEN NoSeg ELSE Region(q, l)
         /\ mapCounter'[q][l] = IF q = p THEN 0 ELSE mapCounter[q][l]
         /\ held'[q][l] = IF q = p THEN 0 ELSE held[q][l]
  BY <1>2 DEF Region, KeyInMap
<1> QED BY <1>3 DEF PointersCounted, PointersStayMapped, CounterCountsPointers

(* No step of a disciplined client miscounts.                              *)
LEMMA PointersCountedStep ==
  ASSUME Disciplined
  PROVE  WellFormed /\ PointersCounted /\ [Next]_vars => PointersCounted'
<1> SUFFICES ASSUME WellFormed, PointersCounted, [Next]_vars
             PROVE  PointersCounted'
  OBVIOUS
<1>0. TypeOK
  BY DEF WellFormed
<1>1. CASE UNCHANGED vars
  BY <1>1, CountedKeep DEF vars
<1>2. ASSUME NEW p \in Procs, Allocate(p) \/ Map(p) \/ Continue(p)
      PROVE  PointersCounted'
  BY <1>0, <1>2, CallCounted, ContinueCounted, UnlinkEffect, CountedKeep
<1>3. ASSUME NEW p \in Procs, NEW k \in Keys, Unmap(p, k) \/ Free(p, k)
      PROVE  PointersCounted'
  BY <1>0, <1>3, UnmapCounted, FreeCounted
<1>4. ASSUME NEW p \in Procs, NEW k \in Keys, NEW own \in BOOLEAN,
             SetOwnership(p, k, own)
      PROVE  PointersCounted'
  <2> DEFINE so == [sharedObjectList[p][k] EXCEPT !.ownData = own]
  <2>1. /\ SetObject(p, k, so)
        /\ UNCHANGED <<mapCounter, held>>
        /\ KeyInMap(p, k)
        /\ sharedObjectList[p][k] \in SharedObject
    BY <1>0, <1>4, ObjectTyped DEF SetOwnership
  <2>2. so \in SharedObject /\ so.region = Region(p, k)
    BY <2>1 DEF SharedObject, Region
  <2> HIDE DEF so
  <2> QED BY <1>0, <2>1, <2>2, CountedWrite
<1>5. ASSUME NEW p \in Procs, Quit(p) \/ Crash(p)
      PROVE  PointersCounted'
  BY <1>5, EndCounted
<1> QED BY <1>1, <1>2, <1>3, <1>4, <1>5 DEF Next

(* The inductive invariant holds in every execution of disciplined clients. *)
THEOREM InductiveInvariant ==
  ASSUME Disciplined
  PROVE  Spec => []IInv
<1>1. Init => WellFormed /\ SegmentsSound /\ PointersCounted
  BY WellFormedInit, SegmentsSoundInit, PointersCountedInit
<1>2. WellFormed /\ SegmentsSound /\ PointersCounted /\ [Next]_vars
      => (WellFormed /\ SegmentsSound /\ PointersCounted)'
  BY WellFormedStep, SegmentsSoundStep, PointersCountedStep
<1>3. WellFormed /\ SegmentsSound /\ PointersCounted => IInv
  BY DEF WellFormed, SegmentsSound, PointersCounted, IInv
<1> QED BY <1>1, <1>2, <1>3, PTL DEF Spec

(* A pointer that mapSharedMemory returned is mapped until it is given     *)
(* back, and the mapping goes with the last one.                           *)
THEOREM PointersCorrect ==
  ASSUME Disciplined
  PROVE  Spec => []PointersStayMapped
<1>1. IInv => PointersStayMapped
  BY DEF IInv
<1> QED BY <1>1, InductiveInvariant, PTL

(* The counter of a key is the number of pointers outstanding.             *)
THEOREM CounterCorrect ==
  ASSUME Disciplined
  PROVE  Spec => []CounterCountsPointers
<1>1. IInv => CounterCountsPointers
  BY DEF IInv
<1> QED BY <1>1, InductiveInvariant, PTL

----------------------------------------------------------------------------
(* What a single step may not do *)

(* A mapped region is unmapped or stays: mapping again is for keys without *)
(* region only.                                                            *)
LEMMA RegionStep ==
  ASSUME WellFormed, Next, NEW q \in Procs, NEW l \in Keys, Region(q, l) # NoSeg
  PROVE  Region(q, l)' \in {Region(q, l), NoSeg}
<1>1. TypeOK /\ RegionOfHandle /\ CallsHaveHandles
  BY DEF WellFormed
<1>2. ASSUME NEW p \in Procs, NEW k \in Keys,
             NEW so \in SharedObject \cup {NoEntry}, SetObject(p, k, so),
             so # NoEntry => so.region \in {NoSeg, Region(p, k)} \/ Region(p, k) = NoSeg
      PROVE  Region(q, l)' \in {Region(q, l), NoSeg}
  <2>1. sharedObjectList'[q][l] = IF q = p /\ l = k THEN so
                                  ELSE sharedObjectList[q][l]
    BY <1>1, <1>2, SetObjectEffect
  <2> QED BY <1>2, <2>1 DEF Region, KeyInMap
<1>3. ASSUME UNCHANGED sharedObjectList
      PROVE  Region(q, l)' \in {Region(q, l), NoSeg}
  BY <1>3 DEF Region, KeyInMap
<1>4. ASSUME NEW p \in Procs, Allocate(p)
      PROVE  Region(q, l)' \in {Region(q, l), NoSeg}
  <2>1. PICK k \in Keys, size \in Sizes :
           \/ UNCHANGED vars
           \/ AllocateNameInUse(p, k, size)
           \/ AllocateCreate(p, k, size)
    BY <1>4 DEF Allocate, AllocateTooSmall, AllocateOpened
  <2>2. Emplaced(p, k, size) \in SharedObject
    BY <1>1, ConstantsAssumption, EmplacedTyped
  <2>3. Region(p, k) = Emplaced(p, k, size).region
    BY DEF Emplaced, Region, NewObject
  <2>4. CASE UNCHANGED vars
    BY <1>3, <2>4 DEF vars
  <2>5. CASE AllocateNameInUse(p, k, size)
    BY <1>2, <2>2, <2>3, <2>5 DEF AllocateNameInUse
  <2>6. CASE AllocateCreate(p, k, size)
    <3>1. PICK s \in Segs : SetObject(p, k, [Emplaced(p, k, size) EXCEPT !.handle = s])
      BY <2>6 DEF AllocateCreate
    <3> DEFINE so == [Emplaced(p, k, size) EXCEPT !.handle = s]
    <3>2. so \in SharedObject /\ so.region = Region(p, k)
      BY <2>2, <2>3 DEF SharedObject
    <3> HIDE DEF so
    <3> QED BY <1>2, <3>1, <3>2 DEF so
  <2> QED BY <2>1, <2>4, <2>5, <2>6
<1>5. ASSUME NEW p \in Procs, Map(p)
      PROVE  Region(q, l)' \in {Region(q, l), NoSeg}
  <2>1. PICK k \in Keys : \/ MapMapped(p, k)
                          \/ MapNotFound(p, k)
                          \/ MapOpen(p, k)
                          \/ MapWithHandle(p, k)
    BY <1>5 DEF Map
  <2>2. Emplaced(p, k, 0) \in SharedObject /\ Region(p, k) = Emplaced(p, k, 0).region
    BY <1>1, ConstantsAssumption, EmplacedTyped DEF Emplaced, Region, NewObject
  <2>3. CASE MapMapped(p, k) \/ MapWithHandle(p, k)
    BY <1>3, <2>3 DEF MapMapped, MapWithHandle
  <2>4. CASE MapNotFound(p, k)
    BY <1>2, <2>2, <2>4 DEF MapNotFound
  <2>5. CASE MapOpen(p, k)
    <3> DEFINE so == [Emplaced(p, k, 0) EXCEPT !.handle = names[k],
                                               !.size = segSize[names[k]]]
    <3>1. names[k] \in Segs /\ segSize[names[k]] \in Nat
      BY <1>1, <2>5, ConstantsAssumption DEF MapOpen, HasSharedMemory, TypeOK
    <3>2. so \in SharedObject
      BY <2>2, <3>1 DEF SharedObject
    <3>3. SetObject(p, k, so) /\ Region(p, k) = NoSeg
      BY <2>2, <2>5 DEF MapOpen, Opens
    <3> HIDE DEF so
    <3> QED BY <1>2, <3>2, <3>3
  <2> QED BY <2>1, <2>3, <2>4, <2>5
<1>6. ASSUME NEW p \in Procs, Continue(p), ~Unlink(p)
      PROVE  Region(q, l)' \in {Region(q, l), NoSeg}
  <2>1. call[p].at \in HandleSteps
    BY <1>6 DEF Continue, Truncate, ValidateOK, AllocateFails, AllocateSigbus, MmapOK,
           MmapFails, HandleSteps, AllocateSteps
  <2>2. PICK k \in Keys : k = call[p].key
    BY <2>1, InsideCall
  <2>3. ~(q = p /\ l = k)
    BY <1>1, <2>1, <2>2 DEF CallsHaveHandles
  <2>4. sharedObjectList'[q][l] = sharedObjectList[q][l]
    BY <1>1, <1>6, <2>2, <2>3 DEF Continue, Truncate, ValidateOK, AllocateFails,
       AllocateSigbus, MmapOK, MmapFails, SetObject, TypeOK
  <2> QED BY <2>4 DEF Region, KeyInMap
<1>7. ASSUME NEW p \in Procs, NEW k \in Keys, Unmap(p, k) \/ Free(p, k)
      PROVE  Region(q, l)' \in {Region(q, l), NoSeg}
  <2>1. SetObject(p, k, NoEntry) \/ UNCHANGED sharedObjectList
    <3>1. CASE Unmap(p, k)
      BY <3>1 DEF Unmap, Erase
    <3>2. CASE Free(p, k)
      BY <3>2 DEF Free, Erase
    <3> QED BY <1>7, <3>1, <3>2
  <2> QED BY <1>2, <1>3, <2>1
<1>8. ASSUME NEW p \in Procs, NEW k \in Keys, NEW own \in BOOLEAN,
             SetOwnership(p, k, own)
      PROVE  Region(q, l)' \in {Region(q, l), NoSeg}
  <2> DEFINE so == [sharedObjectList[p][k] EXCEPT !.ownData = own]
  <2>1. SetObject(p, k, so) /\ KeyInMap(p, k) /\ sharedObjectList[p][k] \in SharedObject
    BY <1>1, <1>8, ObjectTyped DEF SetOwnership
  <2>2. so \in SharedObject /\ so.region = Region(p, k)
    BY <2>1 DEF SharedObject, Region
  <2> HIDE DEF so
  <2> QED BY <1>2, <2>1, <2>2
<1>9. ASSUME NEW p \in Procs, Quit(p) \/ Crash(p)
      PROVE  Region(q, l)' \in {Region(q, l), NoSeg}
  <2>1. sharedObjectList'[q] = IF q = p THEN [k \in Keys |-> NoEntry]
                               ELSE sharedObjectList[q]
    BY <1>1, <1>9 DEF Quit, Crash, ProcessGone, TypeOK
  <2> QED BY <2>1 DEF Region, KeyInMap
<1>10. ASSUME NEW p \in Procs, Unlink(p)
       PROVE  Region(q, l)' \in {Region(q, l), NoSeg}
  BY <1>1, <1>3, <1>10, UnlinkEffect
<1> QED BY <1>4, <1>5, <1>6, <1>7, <1>8, <1>9, <1>10 DEF Next

(* While a process holds pointers to a key, they lead to the same segment. *)
THEOREM PointersFixed ==
  ASSUME Disciplined
  PROVE  Spec => PointersNeverRetargeted
<1>1. WellFormed /\ PointersStayMapped /\ PointersStayMapped' /\ [Next]_vars
      => [\A p \in Procs, k \in Keys :
            held[p][k] > 0 /\ held'[p][k] > 0 => Region(p, k)' = Region(p, k)]_vars
  BY RegionStep DEF PointersStayMapped
<1>2. IInv => WellFormed /\ PointersStayMapped
  BY DEF IInv, WellFormed
<1> QED BY <1>1, <1>2, InductiveInvariant, PTL DEF Spec, PointersNeverRetargeted

(* Nobody resizes a segment that some process has mapped, in any execution *)
(* and whatever clients do.                                                *)
THEOREM MappedSizeFixed == Spec => MappedMemoryKeepsSize
<1> DEFINE Keeps == \A p \in Procs, k \in Keys :
              Region(p, k) # NoSeg => segSize'[Region(p, k)] = segSize[Region(p, k)]
<1>1. ASSUME WellFormed, SegmentsSound, Next
      PROVE  Keeps
  <2>1. SUFFICES ASSUME NEW q \in Procs, NEW l \in Keys, Region(q, l) # NoSeg
                 PROVE  segSize'[Region(q, l)] = segSize[Region(q, l)]
    OBVIOUS
  <2>2. TypeOK /\ FreshSegmentIsPrivate /\ Region(q, l) = Handle(q, l)
    BY <1>1, <2>1 DEF WellFormed, SegmentsSound, RegionOfHandle
  <2>3. ASSUME NEW p \in Procs, NEW k \in Keys, NEW size \in Sizes,
               AllocateCreate(p, k, size)
        PROVE  segSize'[Region(q, l)] = segSize[Region(q, l)]
    <3>1. PICK s \in Segs : ~InUse(s) /\ segSize' = [segSize EXCEPT ![s] = 0]
      BY <2>3 DEF AllocateCreate
    <3>2. s # Region(q, l)
      BY <2>1, <2>2, <3>1 DEF InUse, Handle
    <3> QED BY <2>2, <3>1, <3>2 DEF TypeOK
  <2>4. ASSUME NEW p \in Procs, Truncate(p)
        PROVE  segSize'[Region(q, l)] = segSize[Region(q, l)]
    <3> DEFINE k == call[p].key
               s == sharedObjectList[p][k].handle
    <3>1. call[p].at = "truncate" /\ call[p].at \in HandleSteps
      BY <2>4 DEF Truncate, HandleSteps, AllocateSteps
    <3>2. k \in Keys /\ KeyInMap(p, k) /\ s \in Segs
      BY <1>1, <3>1, InsideCall
    <3>3. Truncates(p, s)
      BY <3>1, <3>2 DEF Truncates, Handle
    <3>4. s # Region(q, l)
      BY <2>2, <3>2, <3>3 DEF FreshSegmentIsPrivate
    <3> QED BY <2>2, <2>4, <3>4 DEF Truncate, TypeOK
  <2>5. CASE UNCHANGED segSize
    BY <2>5
  <2>6. \/ UNCHANGED segSize
        \/ \E p \in Procs : Truncate(p)
        \/ \E p \in Procs, k \in Keys, size \in Sizes : AllocateCreate(p, k, size)
    BY <1>1 DEF Next, Allocate, AllocateTooSmall, AllocateOpened, AllocateNameInUse,
       Map, MapMapped, MapNotFound, MapOpen, MapWithHandle, Continue, ValidateOK,
       AllocateFails, AllocateSigbus, MmapOK, MmapFails, Unlink, Unmap, Free,
       SetOwnership, Quit, Crash, osVars, vars
  <2> QED BY <2>3, <2>4, <2>5, <2>6
<1>2. WellFormed /\ SegmentsSound /\ [Next]_vars => [Keeps]_vars
  BY <1>1
<1> QED
  BY <1>2, WellFormedInit, WellFormedStep, SegmentsSoundInit, SegmentsSoundStep,
     PTL DEF Spec, MappedMemoryKeepsSize

(* A name ends with an explicit free, a failed allocation, or the last     *)
(* pointer of an owner; readers come and go without touching it.           *)
THEOREM NamesOutliveReaders ==
  ASSUME Disciplined
  PROVE  Spec => NamesEndWithOwner
<1> DEFINE Justified(k) ==
      \E p \in Procs :
         \/ (Unlink(p) \/ AllocateFails(p)) /\ call[p].key = k
         \/ KeyInMap(p, k) /\ sharedObjectList[p][k].ownData /\ held'[p][k] = 0
<1>1. ASSUME WellFormed, PointersCounted, Next,
             NEW k \in Keys, names[k] # NoSeg, names'[k] = NoSeg
      PROVE  Justified(k)
  <2>1. TypeOK
    BY <1>1 DEF WellFormed
  <2>2. names' # names
    BY <1>1
  <2>3. CASE \E p \in Procs, l \in Keys, size \in Sizes : AllocateCreate(p, l, size)
    <3>1. PICK l \in Keys, s \in Segs : names' = [names EXCEPT ![l] = s]
      BY <2>3 DEF AllocateCreate
    <3> QED BY <1>1, <2>1, <3>1, ConstantsAssumption DEF TypeOK
  <2>4. CASE \E p \in Procs : Unlink(p) \/ AllocateFails(p)
    <3>1. PICK p \in Procs : Unlink(p) \/ AllocateFails(p)
      BY <2>4
    <3>2. call[p].key = k
      BY <1>1, <2>1, <3>1 DEF Unlink, AllocateFails, TypeOK
    <3> QED BY <3>1, <3>2
  <2>5. CASE \E p \in Procs, l \in Keys : Free(p, l)
    <3>1. PICK p \in Procs, l \in Keys : Free(p, l)
      BY <2>5
    <3>2. /\ KeyInMap(p, l)
          /\ Erase(p, l)
      BY <2>2, <3>1 DEF Free
    <3>3. l = k /\ sharedObjectList[p][l].ownData
      BY <1>1, <2>1, <3>2 DEF Erase, TypeOK
    <3>4. held'[p][l] = 0
      BY <2>1, <3>1 DEF Free, TypeOK
    <3> QED BY <3>2, <3>3, <3>4
  <2>6. CASE \E p \in Procs, l \in Keys : Unmap(p, l)
    <3>1. PICK p \in Procs, l \in Keys : Unmap(p, l)
      BY <2>6
    <3>2. /\ KeyInMap(p, l)
          /\ mapCounter[p][l] - 1 <= 0
          /\ Erase(p, l)
      BY <2>2, <3>1 DEF Unmap
    <3>3. l = k /\ sharedObjectList[p][l].ownData
      BY <1>1, <2>1, <3>2 DEF Erase, TypeOK
    <3>4. held[p][l] \in Nat /\ held[p][l] <= 1
      BY <1>1, <2>1, <3>2 DEF PointersCounted, CounterCountsPointers, TypeOK
    <3>5. held'[p][l] = 0
      BY <2>1, <3>1, <3>4 DEF Unmap, GiveBack, TypeOK
    <3> QED BY <3>2, <3>3, <3>5
  <2>7. CASE \E p \in Procs : Quit(p)
    <3>1. PICK p \in Procs : Quit(p)
      BY <2>7
    <3>2. KeyInMap(p, k) /\ sharedObjectList[p][k].ownData
      BY <1>1, <3>1 DEF Quit
    <3>3. held'[p][k] = 0
      BY <2>1, <3>1 DEF Quit, ProcessGone, TypeOK
    <3> QED BY <3>2, <3>3
  <2>8. \/ UNCHANGED names
        \/ \E p \in Procs, l \in Keys, size \in Sizes : AllocateCreate(p, l, size)
        \/ \E p \in Procs : Unlink(p) \/ AllocateFails(p) \/ Quit(p)
        \/ \E p \in Procs, l \in Keys : Free(p, l) \/ Unmap(p, l)
    BY <1>1 DEF Next, Allocate, AllocateTooSmall, AllocateOpened, AllocateNameInUse,
       Map, MapMapped, MapNotFound, MapOpen, MapWithHandle, Continue, Truncate,
       ValidateOK, AllocateSigbus, MmapOK, MmapFails, SetOwnership, Crash, osVars, vars
  <2> QED BY <2>2, <2>3, <2>4, <2>5, <2>6, <2>7, <2>8
<1>2. WellFormed /\ PointersCounted /\ [Next]_vars
      => [\A k \in Keys : names[k] # NoSeg /\ names'[k] = NoSeg =>
            \E p \in Procs :
               \/ (Unlink(p) \/ AllocateFails(p)) /\ call[p].key = k
               \/ /\ KeyInMap(p, k)
                  /\ sharedObjectList[p][k].ownData
                  /\ held'[p][k] = 0]_vars
  BY <1>1
<1>3. IInv => WellFormed /\ PointersCounted
  BY DEF IInv, WellFormed, PointersCounted
<1> QED BY <1>2, <1>3, InductiveInvariant, PTL DEF Spec, NamesEndWithOwner

----------------------------------------------------------------------------
(* The registry implements the table of counted pointers                   *)

(* What a step does to the counters: nothing, one pointer more or less, no *)
(* pointer left on a key, or none left in a process.                       *)
LEMMA CounterStep ==
  ASSUME Disciplined, WellFormed, PointersCounted, Next
  PROVE  \/ mapCounter' = mapCounter
         \/ \E p \in Procs, k \in Keys :
              \/ mapCounter' = [mapCounter EXCEPT ![p][k] = @ + 1]
              \/ /\ mapCounter[p][k] > 0
                 /\ mapCounter' = [mapCounter EXCEPT ![p][k] = @ - 1]
              \/ mapCounter' = [mapCounter EXCEPT ![p][k] = 0]
         \/ \E p \in Procs : mapCounter' = [mapCounter EXCEPT ![p] = [k \in Keys |-> 0]]
<1>1. TypeOK
  BY DEF WellFormed
<1>2. ASSUME NEW p \in Procs, NEW k \in Keys, Unmap(p, k)
      PROVE  mapCounter[p][k] > 0 /\ mapCounter' = [mapCounter EXCEPT ![p][k] = @ - 1]
  <2>1. held[p][k] > 0 /\ mapCounter[p][k] = held[p][k] /\ Region(p, k) # NoSeg
    BY <1>1, <1>2 DEF Unmap, PointersCounted, PointersStayMapped, CounterCountsPointers,
       TypeOK
  <2>2. KeyInMap(p, k)
    BY <2>1 DEF Region
  <2> QED BY <1>2, <2>1, <2>2 DEF Unmap
<1>3. ASSUME NEW p \in Procs, NEW k \in Keys,
             MapMapped(p, k) \/ MapNotFound(p, k) \/ MapOpen(p, k) \/ MapWithHandle(p, k)
      PROVE  \/ mapCounter' = mapCounter
             \/ mapCounter' = [mapCounter EXCEPT ![p][k] = @ + 1]
  BY <1>1, <1>3, EntryKeepsCounter
     DEF MapMapped, MapNotFound, MapOpen, MapWithHandle, CountPointer
<1>4. ASSUME NEW p \in Procs, MmapOK(p)
      PROVE  \E k \in Keys : mapCounter' = [mapCounter EXCEPT ![p][k] = @ + 1]
  <2>1. call[p].at \in HandleSteps
    BY <1>4 DEF MmapOK, HandleSteps
  <2>2. call[p].key \in Keys
    BY <2>1, InsideCall
  <2> QED BY <1>4, <2>2 DEF MmapOK, CountPointer
<1>5. ASSUME NEW p \in Procs, Continue(p), ~MmapOK(p)
      PROVE  mapCounter' = mapCounter
  BY <1>5 DEF Continue, Truncate, ValidateOK, AllocateFails, AllocateSigbus, MmapFails,
     Unlink
<1>6. ASSUME NEW p \in Procs, NEW k \in Keys, Free(p, k)
      PROVE  \/ mapCounter' = mapCounter
             \/ mapCounter' = [mapCounter EXCEPT ![p][k] = 0]
  BY <1>6 DEF Free
<1>7. ASSUME NEW p \in Procs, Quit(p) \/ Crash(p)
      PROVE  mapCounter' = [mapCounter EXCEPT ![p] = [k \in Keys |-> 0]]
  BY <1>7 DEF Quit, Crash, ProcessGone
<1>8. ASSUME NEW p \in Procs, Allocate(p)
      PROVE  mapCounter' = mapCounter
  BY <1>8 DEF Allocate, AllocateTooSmall, AllocateOpened, AllocateNameInUse,
     AllocateCreate, vars
<1>9. ASSUME NEW p \in Procs, NEW k \in Keys, NEW own \in BOOLEAN, SetOwnership(p, k, own)
      PROVE  mapCounter' = mapCounter
  BY <1>9 DEF SetOwnership
<1> QED BY <1>2, <1>3, <1>4, <1>5, <1>6, <1>7, <1>8, <1>9 DEF Next, Map

(* A key whose counter does not change still leads where it led.           *)
LEMMA SameCounterSameRegion ==
  ASSUME WellFormed, PointersCounted, PointersCounted', Next,
         NEW q \in Procs, NEW l \in Keys, mapCounter'[q][l] = mapCounter[q][l]
  PROVE  Region(q, l)' = Region(q, l)
<1>1. /\ mapCounter[q][l] = held[q][l]
      /\ mapCounter'[q][l] = held'[q][l]
      /\ held[q][l] > 0 <=> Region(q, l) # NoSeg
      /\ held'[q][l] > 0 <=> Region(q, l)' # NoSeg
  BY DEF PointersCounted, PointersStayMapped, CounterCountsPointers
<1>2. CASE Region(q, l) = NoSeg
  BY <1>1, <1>2
<1>3. CASE Region(q, l) # NoSeg
  BY <1>1, <1>3, RegionStep
<1> QED BY <1>2, <1>3

(* A step that changes the counter of at most one key is the step of the   *)
(* table that writes this counter and the key's region.                    *)
LEMMA TableEntry ==
  ASSUME WellFormed, PointersCounted, PointersCounted', Next,
         NEW p \in Procs, NEW k \in Keys, NEW n,
         mapCounter' = [mapCounter EXCEPT ![p][k] = n]
  PROVE  Table!Outstanding(p, k, n, Region(p, k)')
<1>1. mapCounter \in [Procs -> [Keys -> Int]]
  BY DEF WellFormed, TypeOK
<1>2. \A q \in Procs, l \in Keys :
         q # p \/ l # k => mapCounter'[q][l] = mapCounter[q][l]
  BY <1>1
<1>3. \A q \in Procs, l \in Keys :
         q # p \/ l # k => Region(q, l)' = Region(q, l)
  BY <1>2, SameCounterSameRegion
<1>4. Leads' = [Leads EXCEPT ![p][k] = Region(p, k)']
  BY <1>3 DEF Leads
<1> QED BY <1>4 DEF Table!Outstanding

(* Every step of the registry is a step of the table or invisible.         *)
LEMMA TableStep ==
  ASSUME Disciplined, WellFormed, PointersCounted, TypeOK', PointersCounted', [Next]_vars
  PROVE  [Table!TableNext]_(Table!table)
<1> USE DEF Table!TableNext, Table!table
<1>0. TypeOK
  BY DEF WellFormed
<1>1. ASSUME NEW p \in Procs, NEW k \in Keys
      PROVE  /\ mapCounter[p][k] \in Nat
             /\ mapCounter'[p][k] \in Nat
             /\ mapCounter[p][k] > 0 <=> Region(p, k) # NoSeg
             /\ mapCounter'[p][k] > 0 <=> Region(p, k)' # NoSeg
             /\ Leads[p][k] = Region(p, k)
             /\ Region(p, k)' \in Segs \cup {NoSeg}
  <2>1. Region(p, k)' \in Segs \cup {NoSeg}
    BY DEF TypeOK, Region, KeyInMap, SharedObject
  <2> QED BY <1>0, <2>1 DEF TypeOK, PointersCounted, PointersStayMapped,
                            CounterCountsPointers, Leads
<1>2. CASE UNCHANGED vars
  BY <1>2 DEF vars, Leads, Region, KeyInMap
<1>3. CASE Next /\ mapCounter' = mapCounter
  BY <1>3, SameCounterSameRegion DEF Leads
<1>4. ASSUME Next, NEW p \in Procs, NEW k \in Keys,
             mapCounter' = [mapCounter EXCEPT ![p][k] = @ + 1]
      PROVE  Table!Grant(p, k)
  <2>1. Table!Outstanding(p, k, mapCounter[p][k] + 1, Region(p, k)')
    BY <1>4, TableEntry
  <2>2. mapCounter'[p][k] = mapCounter[p][k] + 1
    BY <1>0, <1>4 DEF TypeOK
  <2>3. Region(p, k)' \in Segs
    BY <1>1, <2>2
  <2>4. mapCounter[p][k] > 0 => Region(p, k)' = Leads[p][k]
    BY <1>1, <1>4, <2>3, RegionStep, ConstantsAssumption
  <2> QED BY <2>1, <2>3, <2>4 DEF Table!Grant
<1>5. ASSUME Next, NEW p \in Procs, NEW k \in Keys, mapCounter[p][k] > 0,
             mapCounter' = [mapCounter EXCEPT ![p][k] = @ - 1]
      PROVE  Table!GiveBackOne(p, k)
  <2>1. Table!Outstanding(p, k, mapCounter[p][k] - 1, Region(p, k)')
    BY <1>5, TableEntry
  <2>2. mapCounter'[p][k] = mapCounter[p][k] - 1
    BY <1>0, <1>5 DEF TypeOK
  <2>3. Region(p, k)' = IF mapCounter[p][k] = 1 THEN NoSeg ELSE Leads[p][k]
    BY <1>1, <1>5, <2>2, RegionStep
  <2> QED BY <1>5, <2>1, <2>3 DEF Table!GiveBackOne
<1>6. ASSUME Next, NEW p \in Procs, NEW k \in Keys,
             mapCounter' = [mapCounter EXCEPT ![p][k] = 0]
      PROVE  Table!Revoke(p, k)
  <2>1. Table!Outstanding(p, k, 0, Region(p, k)')
    BY <1>6, TableEntry
  <2>2. Region(p, k)' = NoSeg
    BY <1>0, <1>1, <1>6 DEF TypeOK
  <2> QED BY <2>1, <2>2 DEF Table!Revoke
<1>7. ASSUME Next, NEW p \in Procs,
             mapCounter' = [mapCounter EXCEPT ![p] = [k \in Keys |-> 0]]
      PROVE  Table!Leave(p)
  <2>1. \A k \in Keys : Region(p, k)' = NoSeg
    BY <1>0, <1>1, <1>7 DEF TypeOK
  <2>2. \A q \in Procs, k \in Keys : q # p => Region(q, k)' = Region(q, k)
    BY <1>0, <1>7, SameCounterSameRegion DEF TypeOK
  <2>3. Leads' = [Leads EXCEPT ![p] = [k \in Keys |-> NoSeg]]
    BY <2>1, <2>2 DEF Leads
  <2> QED BY <1>7, <2>3 DEF Table!Leave, Table!None
<1> QED BY <1>2, <1>3, <1>4, <1>5, <1>6, <1>7, CounterStep

(* With disciplined clients the registry implements the table of counted   *)
(* pointers, whatever the system calls return and whoever is killed.       *)
THEOREM RegistryIsATable ==
  ASSUME Disciplined
  PROVE  Spec => TableImplemented
<1>1. Init => Table!TableInit
  BY DEF Init, RegistryInit, Table!TableInit, Table!None, Leads, Region, KeyInMap
<1>2. IInv /\ IInv' /\ [Next]_vars => [Table!TableNext]_(Table!table)
  <2>1. IInv => WellFormed /\ PointersCounted /\ TypeOK
    BY DEF IInv, WellFormed, PointersCounted
  <2>2. IInv' => TypeOK' /\ PointersCounted'
    BY DEF IInv, PointersCounted
  <2> QED BY <2>1, <2>2, TableStep
<1> QED BY <1>1, <1>2, InductiveInvariant, PTL DEF Spec, TableImplemented, Table!TableSpec

=============================================================================
