------------------------ MODULE ObjectLifecycleProofs ------------------------
(***************************************************************************)
(* Proofs about ObjectLifecycle, for any number of sessions, ids and       *)
(* segments.  The inductive invariant ObjIInv stands on that of the        *)
(* registry: sessions drive the registry as disciplined clients, so that   *)
(* what SharedMemoryProofs shows of it can be used.                        *)
(***************************************************************************)
EXTENDS ObjectLifecycle, RegistryEffects

(* The steps of a task are distinct, and none of them is NoTask's.         *)
LEMMA TaskStepsKnown ==
  /\ NoTask.at = "none" /\ NoTask.key = NoKey /\ NoTask.seg = NoSeg
  /\ "none" \notin TaskSteps
  /\ Searching \cup Making \cup {"wrap", "reading"} = TaskSteps
BY DEF NoTask, TaskSteps, Searching, Making

(* What a session is inside of concerns an id.                             *)
LEMMA TaskTyped ==
  ASSUME ObjTypeOK, NEW p \in Procs, task[p].at # "none"
  PROVE  /\ task[p] \in [at : TaskSteps, key : Keys, seg : Segs \cup {NoSeg}]
         /\ task[p].key \in Keys
         /\ task[p].at \in TaskSteps
         /\ task[p].seg \in Segs \cup {NoSeg}
BY DEF ObjTypeOK, NoTask

----------------------------------------------------------------------------
(* Sessions are disciplined clients of the registry                        *)

(* Every step of a session is a step of the registry or leaves it alone.   *)
LEMMA SessionsUseTheRegistry ==
  ASSUME ObjTypeOK, [ObjNext]_allVars
  PROVE  [Next]_vars
<1>1. CASE UNCHANGED allVars
  BY <1>1 DEF allVars, vars
<1>2. ASSUME NEW p \in Procs, Share(p)
      PROVE  [Next]_vars
  <2>1. CASE ShareAllocate(p)
    <3>1. task[p].key \in Keys
      BY <2>1, TaskTyped DEF ShareAllocate, At
    <3> QED BY <2>1, <3>1 DEF ShareAllocate, Next, Allocate
  <2>2. CASE ShareMap(p)
    <3>1. task[p].key \in Keys
      BY <2>2, TaskTyped DEF ShareMap, At
    <3> QED BY <2>2, <3>1 DEF ShareMap, Next, Map
  <2>3. CASE ShareOwn(p)
    <3>1. task[p].key \in Keys
      BY <2>3, TaskTyped DEF ShareOwn, At
    <3> QED BY <2>3, <3>1 DEF ShareOwn, Next
  <2>4. CASE TakeId(p) \/ ProbeId(p) \/ Wrap(p)
    BY <2>4 DEF TakeId, ProbeId, Wrap, vars
  <2>5. CASE \/ ShareTruncate(p) \/ ShareAllocated(p) \/ ShareAllocateFails(p)
             \/ ShareSigbus(p) \/ ShareMapped(p) \/ ShareMapFails(p)
    BY <2>5 DEF ShareTruncate, ShareAllocated, ShareAllocateFails, ShareSigbus,
       ShareMapped, ShareMapFails, Next, Continue
  <2> QED BY <1>2, <2>1, <2>2, <2>3, <2>4, <2>5 DEF Share
<1>3. ASSUME NEW p \in Procs, NEW m \in mail, Unserialize(p, m)
      PROVE  [Next]_vars
  <2>1. m.key \in Keys
    BY DEF ObjTypeOK, Message
  <2> QED BY <1>3, <2>1 DEF Unserialize, Next, Map
<1>4. ASSUME NEW p \in Procs, NEW k \in Keys,
             Serialize(p, k) \/ Duplicate(p, k) \/ Finalize(p, k) \/ FreeById(p, k)
      PROVE  [Next]_vars
  BY <1>4 DEF Serialize, Duplicate, Finalize, FreeById, Next, Map, vars
<1>5. ASSUME NEW p \in Procs,
             ReadMapped(p) \/ ReadFails(p) \/ RemoveName(p) \/ QuitR(p) \/ CrashR(p)
      PROVE  [Next]_vars
  BY <1>5 DEF ReadMapped, ReadFails, RemoveName, QuitR, CrashR, Next, Continue
<1> QED BY <1>1, <1>2, <1>3, <1>4, <1>5 DEF ObjNext

(* Leaked names or not, the registry starts in a state of its invariant.   *)
LEMMA RegistryStartsSound == ObjInit => IInv
<1> SUFFICES ASSUME ObjInit
             PROVE  IInv
  OBVIOUS
<1>1. TypeOK
  BY ConstantsAssumption DEF ObjInit, RegistryInit, TypeOK
<1>2. PointersStayMapped /\ CounterCountsPointers /\ RegionOfHandle /\ SizesFit
  BY DEF ObjInit, RegistryInit, PointersStayMapped, CounterCountsPointers,
     RegionOfHandle, SizesFit, Region, Handle, KeyInMap
<1>3. CallsHaveHandles /\ FreshSegmentIsPrivate
  BY DEF ObjInit, RegistryInit, CallsHaveHandles, FreshSegmentIsPrivate, Truncates,
     NoCall, HandleSteps, AllocateSteps
<1> QED BY <1>1, <1>2, <1>3 DEF IInv

(* The registry keeps its invariant under sessions.                        *)
LEMMA RegistryStaysSound ==
  ASSUME ObjIInv, [ObjNext]_allVars
  PROVE  IInv'
<1>1. [Next]_vars
  BY SessionsUseTheRegistry DEF ObjIInv
<1> QED BY <1>1, RegistrySoundStep, ObjectAssumption DEF ObjIInv

----------------------------------------------------------------------------
(* Steps of sessions                                                       *)

(* Who wants a name is its owner or the session that is making it: an      *)
(* owner has a pointer, so this says as much as NoLeakedName.              *)
NamesAreWanted ==
  \A k \in Keys : names[k] # NoSeg /\ k \notin accident =>
    \E p \in Procs : Owns(p, k) \/ IsOn(p, k, Making)

(* An owner holds a pointer, and the making of memory is a task.           *)
LEMMA OwnersHold ==
  ASSUME TypeOK, PointersStayMapped, OwnersArePublished
  PROVE  NamesAreWanted <=> NoLeakedName
BY DEF TypeOK, PointersStayMapped, OwnersArePublished, NamesAreWanted, NoLeakedName,
   IsOn, Making

(* What ObjIInv says of sessions, next to the registry's invariant.        *)
SessionsSound ==
  /\ CallsMatchTasks
  /\ EveryPointerHasAFinalizer
  /\ IdsAreFresh
  /\ CreationIsPrivate
  /\ IdsMeanOneSegment
  /\ TasksHaveSegments
  /\ ObjectsStand
  /\ OneOwner
  /\ OwnersArePublished
  /\ NamesAreWanted
  /\ ObjectsHaveOrigin
  /\ UnmailedIsPrivate

(* The invariant as the lemmas on steps take it apart and compose it.      *)
LEMMA ObjIInvParts ==
  /\ ObjIInv <=> IInv /\ ObjTypeOK /\ SessionsSound
  /\ ObjIInv => WellFormed /\ PointersCounted /\ TypeOK
<1>1. IInv => TypeOK /\ PointersStayMapped
  BY DEF IInv
<1>2. IInv => WellFormed /\ PointersCounted
  BY DEF IInv, WellFormed, PointersCounted
<1> QED BY <1>1, <1>2, OwnersHold DEF ObjIInv, SessionsSound

(* Going on, ending, and being handed a task change nothing for others.    *)
LEMMA TaskGoesOn ==
  ASSUME ObjTypeOK, NEW p \in Procs, NEW from, from # "none", At(p, from), NEW to,
         NextTask(p, to)
  PROVE  /\ task[p].key \in Keys
         /\ task'[p].at = to /\ task'[p].key = task[p].key /\ task'[p].seg = task[p].seg
         /\ \A q \in Procs \ {p} : task'[q] = task[q]
BY TaskTyped DEF ObjTypeOK, At, NextTask

(* A task that ends leaves nothing.                                        *)
LEMMA TaskEnds ==
  ASSUME ObjTypeOK, NEW p \in Procs, EndTask(p)
  PROVE  /\ task'[p].at = "none" /\ task'[p].key = NoKey /\ task'[p].seg = NoSeg
         /\ \A q \in Procs \ {p} : task'[q] = task[q]
BY TaskStepsKnown DEF ObjTypeOK, EndTask

(* A task that a message starts is about its id and segment.               *)
LEMMA TaskStarts ==
  ASSUME ObjTypeOK, NEW p \in Procs, NEW at, NEW m \in Message, Reads(p, at, m)
  PROVE  /\ task'[p].at = at /\ task'[p].key = m.key /\ task'[p].seg = m.seg
         /\ \A q \in Procs \ {p} : task'[q] = task[q]
BY DEF ObjTypeOK, Reads, Message

(* A function goes on within the search, or within the making, of memory.  *)
LEMMA Continues ==
  ASSUME TypeOK, ObjTypeOK, SessionsSound, NEW p \in Procs, NEW to \in TaskSteps,
         \/ task[p].at \in {"search", "probe"} /\ to \in Searching
         \/ task[p].at \in Making \ {"own"} /\ to \in Making \ {"own"},
         NextTask(p, to), AllKept, CallsMatchTasks',
         UNCHANGED <<names, mapCounter, lastId, objs, mail, stands, freed>>, UNCHANGED accident
  PROVE  SessionsSound'
<1> USE DEF SessionsSound, AllKept, Kept
<1>0. /\ task[p].key \in Keys
      /\ task'[p].at = to /\ task'[p].key = task[p].key /\ task'[p].seg = task[p].seg
      /\ \A q \in Procs \ {p} : task'[q] = task[q]
  BY TaskGoesOn DEF At, Searching, Making
<1>1. CallsMatchTasks'
  OBVIOUS
<1>2. EveryPointerHasAFinalizer'
  BY <1>0 DEF EveryPointerHasAFinalizer, InFlight, Searching, Making
<1>3. IdsAreFresh'
  BY <1>0 DEF IdsAreFresh, Mailed
<1>4. CreationIsPrivate'
  BY <1>0 DEF CreationIsPrivate, IsOn, Mailed, Searching, Making
<1>5. IdsMeanOneSegment'
  BY <1>0 DEF IdsMeanOneSegment, Means
<1>6. TasksHaveSegments'
  BY <1>0 DEF TasksHaveSegments, Searching, Making
<1>7. ObjectsStand'
  BY <1>0 DEF ObjectsStand
<1>8. OneOwner'
  BY <1>0 DEF OneOwner
<1>9. OwnersArePublished'
  BY <1>0 DEF OwnersArePublished, IsOn, Searching, Making
<1>10. NamesAreWanted'
  BY <1>0 DEF NamesAreWanted, IsOn, Searching, Making
<1>11. ObjectsHaveOrigin'
  BY <1>0 DEF ObjectsHaveOrigin, IsOn, Mailed, Searching, Making
<1>12. UnmailedIsPrivate'
  BY <1>0 DEF UnmailedIsPrivate, Mailed
<1> QED BY <1>1, <1>2, <1>3, <1>4, <1>5, <1>6, <1>7, <1>8, <1>9, <1>10, <1>11, <1>12

(* A function ends with an error, with no pointer in hand.                 *)
LEMMA GivesUp ==
  ASSUME TypeOK, ObjTypeOK, SessionsSound, NEW p \in Procs, task[p].at \notin {"none",
         "own", "wrap"}, EndTask(p), AllKept,
         accident \subseteq accident',
         task[p].at \in Making => task[p].key \in accident', CallsMatchTasks',
         UNCHANGED <<names, mapCounter, lastId, objs, mail, stands, freed>>
  PROVE  SessionsSound'
<1> USE DEF SessionsSound, AllKept, Kept
<1>0. /\ task'[p].at = "none" /\ task'[p].key = NoKey /\ task'[p].seg = NoSeg
      /\ \A q \in Procs \ {p} : task'[q] = task[q]
      /\ NoKey \notin Keys
  BY TaskEnds, ConstantsAssumption
<1>1. CallsMatchTasks'
  OBVIOUS
<1>2. EveryPointerHasAFinalizer'
  BY <1>0 DEF EveryPointerHasAFinalizer, InFlight
<1>3. IdsAreFresh'
  BY <1>0 DEF IdsAreFresh, Mailed
<1>4. CreationIsPrivate'
  BY <1>0 DEF CreationIsPrivate, IsOn, Mailed, Searching, Making
<1>5. IdsMeanOneSegment'
  BY <1>0 DEF IdsMeanOneSegment, Means
<1>6. TasksHaveSegments'
  BY <1>0 DEF TasksHaveSegments, Making
<1>7. ObjectsStand'
  BY <1>0 DEF ObjectsStand
<1>8. OneOwner'
  BY <1>0 DEF OneOwner
<1>9. OwnersArePublished'
  BY <1>0 DEF OwnersArePublished, IsOn, Making
<1>10. NamesAreWanted'
  BY <1>0 DEF NamesAreWanted, IsOn, Making
<1>11. ObjectsHaveOrigin'
  BY <1>0 DEF ObjectsHaveOrigin, IsOn, Mailed, Searching, Making
<1>12. UnmailedIsPrivate'
  BY <1>0 DEF UnmailedIsPrivate, Mailed
<1> QED BY <1>1, <1>2, <1>3, <1>4, <1>5, <1>6, <1>7, <1>8, <1>9, <1>10, <1>11, <1>12

(* Memory that is mapped already is handed out again, for an object whose  *)
(* message, or another object, has brought the id.                         *)
LEMMA TakesPointer ==
  ASSUME TypeOK, ObjTypeOK, SessionsSound, NEW p \in Procs, NEW m \in Message, At(p,
         "none"), Idle(p),
         m.key \in Keys, Mailed(m.key) \/ objs[p][m.key] > 0,
         \A s \in Segs \cup {NoSeg} : Means(m.key, s) => m.seg = s,
         mapCounter' = [mapCounter EXCEPT ![p][m.key] = @ + 1],
         Reads(p, "wrap", m), AllKept,
         UNCHANGED <<names, call, lastId, objs, mail, stands, freed, accident>>
  PROVE  SessionsSound'
<1> USE DEF SessionsSound, AllKept, Kept
<1>0. /\ task'[p].at = "wrap" /\ task'[p].key = m.key /\ task'[p].seg = m.seg
      /\ \A q \in Procs \ {p} : task'[q] = task[q]
      /\ m.seg # NoSeg /\ NoTask.key \notin Keys
      /\ \A l \in Keys : task[p].key # l
  BY TaskStarts, TaskStepsKnown, ConstantsAssumption DEF Message, At, ObjTypeOK
<1>1. CallsMatchTasks'
  BY <1>0 DEF CallsMatchTasks, At, Idle, NoCall, AllocateSteps
<1>2. EveryPointerHasAFinalizer'
  BY <1>0 DEF EveryPointerHasAFinalizer, InFlight, TypeOK, ObjTypeOK
<1>3. IdsAreFresh'
  BY <1>0 DEF IdsAreFresh, Mailed
<1>4. CreationIsPrivate'
  BY <1>0 DEF CreationIsPrivate, IsOn, Mailed, Searching, Making
<1>5. IdsMeanOneSegment'
  <2>1. ASSUME NEW l \in Keys, NEW x \in Segs \cup {NoSeg}, Means(l, x)
        PROVE  Means(l, x)'
    <3>1. l = m.key => m.seg = x
      BY <2>1
    <3> QED BY <1>0, <2>1, <3>1 DEF Means
  <2> QED BY <2>1 DEF IdsMeanOneSegment
<1>6. TasksHaveSegments'
  BY <1>0 DEF TasksHaveSegments, Making
<1>7. ObjectsStand'
  BY <1>0 DEF ObjectsStand
<1>8. OneOwner'
  BY <1>0 DEF OneOwner
<1>9. OwnersArePublished'
  BY <1>0 DEF OwnersArePublished, IsOn, Making
<1>10. NamesAreWanted'
  BY <1>0 DEF NamesAreWanted, IsOn, Making
<1>11. ObjectsHaveOrigin'
  BY <1>0 DEF ObjectsHaveOrigin, IsOn, Mailed, Searching, Making
<1>12. UnmailedIsPrivate'
  BY <1>0 DEF UnmailedIsPrivate, Mailed
<1> QED BY <1>1, <1>2, <1>3, <1>4, <1>5, <1>6, <1>7, <1>8, <1>9, <1>10, <1>11, <1>12

(* getNextId takes a number that nobody has heard of.                      *)
LEMMA TakeIdSound ==
  ASSUME ObjIInv, NEW p \in Procs, TakeId(p)
  PROVE  SessionsSound'
<1> USE DEF SessionsSound, AllKept, Kept, vars
<1>0. TypeOK /\ ObjTypeOK /\ SessionsSound
  BY ObjIInvParts
<1>1. PICK k \in Keys : k = lastId + 1
  BY <1>0, ObjectAssumption DEF TakeId, ObjTypeOK
<1>2. /\ k > lastId
      /\ task'[p].at = "probe" /\ task'[p].key = k /\ task'[p].seg = NoSeg
      /\ \A q \in Procs \ {p} : task'[q] = task[q]
      /\ lastId' = k /\ lastId \in Nat
      /\ \A l \in Keys : l > k => l > lastId /\ l # k
  BY <1>0, <1>1, ObjectAssumption DEF TakeId, ObjTypeOK
<1>3. AllKept /\ UNCHANGED <<vars, objs, mail, stands, accident, freed>>
  BY KeepEffect DEF TakeId, vars
<1>4. task[p].at \in {"none", "search"} /\ Idle(p)
  BY DEF TakeId
<1>5. /\ ~Mailed(k)
      /\ \A q \in Procs :
           task[q].key # k /\ ~KeyInMap(q, k) /\ ~Owns(q, k) /\ objs[q][k] = 0
  BY <1>0, <1>2, NotListed DEF IdsAreFresh
<1>6. CallsMatchTasks'
  BY <1>0, <1>2, <1>3, <1>4, <1>5 DEF CallsMatchTasks, At, Idle, NoCall, AllocateSteps
<1>7. EveryPointerHasAFinalizer'
  BY <1>0, <1>2, <1>3, <1>4, <1>5 DEF EveryPointerHasAFinalizer, InFlight
<1>8. IdsAreFresh'
  BY <1>0, <1>2, <1>3, <1>4, <1>5 DEF IdsAreFresh, Mailed
<1>9. CreationIsPrivate'
  BY <1>0, <1>2, <1>3, <1>4, <1>5 DEF CreationIsPrivate, IsOn, Mailed, Searching, Making
<1>10. IdsMeanOneSegment'
  BY <1>0, <1>2, <1>3, <1>4, <1>5 DEF IdsMeanOneSegment, Means
<1>11. TasksHaveSegments'
  BY <1>0, <1>2, <1>3, <1>4, <1>5 DEF TasksHaveSegments, Making
<1>12. ObjectsStand'
  BY <1>0, <1>2, <1>3, <1>4, <1>5 DEF ObjectsStand
<1>13. OneOwner'
  BY <1>0, <1>2, <1>3, <1>4, <1>5 DEF OneOwner
<1>14. OwnersArePublished'
  BY <1>0, <1>2, <1>3, <1>4, <1>5 DEF OwnersArePublished, IsOn, Making
<1>15. NamesAreWanted'
  BY <1>0, <1>2, <1>3, <1>4, <1>5 DEF NamesAreWanted, IsOn, Making
<1>16. ObjectsHaveOrigin'
  BY <1>0, <1>2, <1>3, <1>4, <1>5 DEF ObjectsHaveOrigin, IsOn, Mailed, Searching, Making
<1>17. UnmailedIsPrivate'
  BY <1>0, <1>2, <1>3, <1>4, <1>5 DEF UnmailedIsPrivate, Mailed
<1> QED BY <1>6, <1>7, <1>8, <1>9, <1>10, <1>11, <1>12, <1>13, <1>14, <1>15, <1>16, <1>17

(* The probe, and the steps of an allocation that tell a session nothing.  *)
LEMMA ProbeIdSound ==
  ASSUME ObjIInv, NEW p \in Procs, ProbeId(p)
  PROVE  SessionsSound'
<1>0. TypeOK /\ ObjTypeOK /\ SessionsSound
  BY ObjIInvParts
<1>1. PICK to \in {"search", "create"} : NextTask(p, to)
  BY DEF ProbeId
<1>2. AllKept /\ UNCHANGED <<vars, lastId, objs, mail, stands, accident, freed>>
  BY KeepEffect DEF ProbeId, vars
<1>3. At(p, "probe")
  BY DEF ProbeId
<1>4. CallsMatchTasks'
  <2>1. task'[p].at = to /\ \A q \in Procs \ {p} : task'[q] = task[q]
    BY <1>0, <1>1, <1>3, TaskGoesOn
  <2> QED BY <1>0, <1>2, <1>3, <2>1 DEF SessionsSound, CallsMatchTasks, At, AllocateSteps, vars
<1>5. to \in Searching /\ to \in TaskSteps
  BY DEF Searching, TaskSteps
<1> QED BY <1>0, <1>1, <1>2, <1>3, <1>4, <1>5, Continues DEF vars, At

(* The allocation is through.                                              *)
LEMMA ShareAllocatedSound ==
  ASSUME ObjIInv, NEW p \in Procs, ShareAllocated(p)
  PROVE  SessionsSound'
<1>0. TypeOK /\ WellFormed /\ ObjTypeOK /\ SessionsSound
  BY ObjIInvParts
<1>1. AllKept /\ call' = [call EXCEPT ![p] = NoCall] /\ UNCHANGED <<names, mapCounter>>
  BY <1>0, ValidateEffect DEF ShareAllocated
<1>2. CallsMatchTasks'
  <2>1. task'[p].at = "map" /\ \A q \in Procs \ {p} : task'[q] = task[q]
    BY <1>0, TaskGoesOn DEF ShareAllocated
  <2>2. call'[p] = NoCall /\ \A q \in Procs \ {p} : call'[q] = call[q]
    BY <1>0, <1>1, CallGoesOn
  <2>3. UNCHANGED freed
    BY DEF ShareAllocated
  <2> QED BY <1>0, <2>1, <2>2, <2>3 DEF SessionsSound, CallsMatchTasks, At, AllocateSteps, NoCall
<1>3. "map" \in Making /\ "map" \in TaskSteps /\ task[p].at \in Making \ {"own"}
  BY DEF Making, TaskSteps, ShareAllocated, At
<1> QED BY <1>0, <1>1, <1>2, <1>3, Continues DEF ShareAllocated

(* share() asks for its memory to be mapped.                               *)
LEMMA ShareMapSound ==
  ASSUME ObjIInv, NEW p \in Procs, ShareMap(p)
  PROVE  SessionsSound'
<1>0. TypeOK /\ ObjTypeOK /\ SessionsSound
  BY ObjIInvParts
<1>1. AllKept /\ UNCHANGED <<names, mapCounter>>
  BY KeepEffect DEF ShareMap, MapWithHandle
<1>2. CallsMatchTasks'
  <2>1. /\ task'[p].at = "mapping" /\ task'[p].key = task[p].key
        /\ \A q \in Procs \ {p} : task'[q] = task[q]
    BY <1>0, TaskGoesOn DEF ShareMap
  <2>2. call'[p] = [at |-> "mmap", key |-> task[p].key] /\ \A q \in Procs \ {p} : call'[q] = call[q]
    BY <1>0, CallGoesOn DEF ShareMap, MapWithHandle, Goto
  <2>3. UNCHANGED freed
    BY DEF ShareMap
  <2> QED BY <1>0, <2>1, <2>2, <2>3 DEF SessionsSound, CallsMatchTasks, At, AllocateSteps
<1>3. "mapping" \in Making /\ "mapping" \in TaskSteps /\ task[p].at \in Making \ {"own"}
  BY DEF Making, TaskSteps, ShareMap, At
<1> QED BY <1>0, <1>1, <1>2, <1>3, Continues DEF ShareMap

(* The errors that leave the memory to nobody, and those of a reader.      *)
LEMMA ErrorsSound ==
  ASSUME ObjIInv, NEW p \in Procs, ShareSigbus(p) \/ ShareMapFails(p) \/ ReadFails(p)
  PROVE  SessionsSound'
<1>0. TypeOK /\ ObjTypeOK /\ SessionsSound
  BY ObjIInvParts
<1>1. AllKept /\ Return(p) /\ UNCHANGED <<names, mapCounter>> /\ EndTask(p)
  BY KeepEffect DEF ShareSigbus, ShareMapFails, ReadFails, AllocateSigbus, MmapFails
<1>2. CallsMatchTasks'
  <2>1. task'[p].at = "none" /\ \A q \in Procs \ {p} : task'[q] = task[q]
    BY <1>0, <1>1, TaskEnds
  <2>2. call'[p] = NoCall /\ \A q \in Procs \ {p} : call'[q] = call[q]
    BY <1>0, <1>1, CallGoesOn DEF Return
  <2> QED BY <1>0, <2>1, <2>2 DEF SessionsSound, CallsMatchTasks, At, AllocateSteps, NoCall,
             ShareSigbus, ShareMapFails, ReadFails
<1>3. /\ task[p].at \notin {"none", "own", "wrap"}
      /\ accident \subseteq accident'
      /\ task[p].at \in Making => task[p].key \in accident'
      /\ UNCHANGED <<lastId, objs, mail, stands, freed>>
  BY DEF ShareSigbus, ShareMapFails, ReadFails, At, Accident, Making
<1> QED BY <1>0, <1>1, <1>2, <1>3, GivesUp

(* The segment gets its size.                                              *)
LEMMA ShareTruncateSound ==
  ASSUME ObjIInv, NEW p \in Procs, ShareTruncate(p)
  PROVE  SessionsSound'
<1> USE DEF SessionsSound, AllKept, OthersKept, Kept
<1>0. TypeOK /\ WellFormed /\ PointersCounted /\ ObjTypeOK /\ SessionsSound
  BY ObjIInvParts
<1>1. AllKept /\ UNCHANGED <<names, mapCounter, objVars>>
  BY TruncateEffect DEF ShareTruncate
<1>2. /\ call[p].at = "truncate" /\ At(p, "allocating")
      /\ call'[p] = [at |-> "validate", key |-> call[p].key]
      /\ \A q \in Procs \ {p} : call'[q] = call[q]
  BY <1>0, CallGoesOn, TruncateEffect DEF ShareTruncate, Truncate
<1> USE DEF objVars
<1>3. CallsMatchTasks'
  BY <1>0, <1>1, <1>2 DEF CallsMatchTasks, At, Idle, NoCall, AllocateSteps
<1>4. EveryPointerHasAFinalizer'
  BY <1>0, <1>1, <1>2 DEF EveryPointerHasAFinalizer, InFlight
<1>5. IdsAreFresh'
  BY <1>0, <1>1, <1>2 DEF IdsAreFresh, Mailed
<1>6. CreationIsPrivate'
  BY <1>0, <1>1, <1>2 DEF CreationIsPrivate, IsOn, Mailed, Searching, Making
<1>7. IdsMeanOneSegment'
  BY <1>0, <1>1, <1>2 DEF IdsMeanOneSegment, Means
<1>8. TasksHaveSegments'
  BY <1>0, <1>1, <1>2 DEF TasksHaveSegments, Making
<1>9. ObjectsStand'
  BY <1>0, <1>1, <1>2 DEF ObjectsStand
<1>10. OneOwner'
  BY <1>0, <1>1, <1>2 DEF OneOwner
<1>11. OwnersArePublished'
  BY <1>0, <1>1, <1>2 DEF OwnersArePublished, IsOn, Making
<1>12. NamesAreWanted'
  BY <1>0, <1>1, <1>2 DEF NamesAreWanted, IsOn, Making
<1>13. ObjectsHaveOrigin'
  BY <1>0, <1>1, <1>2 DEF ObjectsHaveOrigin, IsOn, Mailed, Searching, Making
<1>14. UnmailedIsPrivate'
  BY <1>0, <1>1, <1>2 DEF UnmailedIsPrivate, Mailed
<1> QED BY <1>3, <1>4, <1>5, <1>6, <1>7, <1>8, <1>9, <1>10, <1>11, <1>12, <1>13, <1>14

(* A name comes into being, for an id that its session alone knows.        *)
LEMMA CreateSound ==
  ASSUME ObjIInv, NEW p \in Procs, NEW k \in Keys, k = task[p].key, ShareAllocate(p),
         ~HasSharedMemory(k)
  PROVE  SessionsSound'
<1> USE DEF SessionsSound, AllKept, OthersKept, Kept
<1>0. TypeOK /\ WellFormed /\ PointersCounted /\ ObjTypeOK /\ SessionsSound
  BY ObjIInvParts
<1>1. PICK size \in Sizes : AllocateCreate(p, k, size)
  BY DEF ShareAllocate
<1>2. At(p, "create") /\ UNCHANGED <<lastId, objs, mail, stands, accident, freed>>
  BY DEF ShareAllocate
<1>3. PICK s \in Segs :
           /\ names' = [names EXCEPT ![k] = s]
           /\ OthersKept(p, k)
           /\ KeyInMap(p, k)'
           /\ Handle(p, k)' = s
           /\ Region(p, k)' = Region(p, k)
           /\ Owns(p, k)' <=> Owns(p, k)
           /\ call' = [call EXCEPT ![p] = [at |-> "truncate", key |-> k]]
           /\ UNCHANGED mapCounter
  BY <1>0, <1>1, CreateEffect
<1>4. s # NoSeg /\ names'[k] = s /\ \A l \in Keys \ {k} : names'[l] = names[l]
  BY <1>0, <1>3, ConstantsAssumption DEF TypeOK
<1>5. /\ task'[p].at = "allocating" /\ task'[p].key = k /\ task'[p].seg = s
      /\ \A q \in Procs \ {p} : task'[q] = task[q]
  <2>1. task' = [task EXCEPT ![p].at = "allocating", ![p].seg = names'[k]]
    BY DEF ShareAllocate
  <2>2. task[p] \in [at : TaskSteps, key : Keys, seg : Segs \cup {NoSeg}]
    BY <1>0, <1>2, TaskTyped DEF At
  <2> QED BY <1>0, <1>4, <2>1, <2>2 DEF ObjTypeOK
<1>6. /\ call'[p] = [at |-> "truncate", key |-> k]
      /\ \A q \in Procs \ {p} : call'[q] = call[q]
  BY <1>0, <1>3, CallGoesOn
<1>7. /\ ~Mailed(k) /\ ~(k > lastId)
      /\ \A q \in Procs : /\ ~KeyInMap(q, k) /\ Handle(q, k) = NoSeg /\ ~Owns(q, k)
                          /\ Region(q, k) = NoSeg
                          /\ objs[q][k] = 0 /\ stands[q][k] = {}
                          /\ q # p => task[q].key # k
  BY <1>0, <1>2, NotListed
  DEF At, CreationIsPrivate, IdsAreFresh, IsOn, Searching, ObjectsStand
<1>8. CallsMatchTasks'
  BY <1>0, <1>2, <1>5, <1>6 DEF CallsMatchTasks, At, AllocateSteps
<1>9. EveryPointerHasAFinalizer'
  BY <1>0, <1>2, <1>3, <1>5 DEF EveryPointerHasAFinalizer, InFlight, At
<1>10. IdsAreFresh'
  BY <1>0, <1>2, <1>3, <1>4, <1>5, <1>7 DEF IdsAreFresh, Mailed
<1>11. CreationIsPrivate'
  <2>1. ASSUME NEW q \in Procs, NEW l \in Keys, IsOn(q, l, Searching \cup Making)'
        PROVE  /\ ~Mailed(l)'
               /\ \A r \in Procs : objs'[r][l] = 0
               /\ \A r \in Procs \ {q} : ~KeyInMap(r, l)' /\ task'[r].key # l
               /\ ~Owns(q, l)'
               /\ task'[q].at \in Searching => ~KeyInMap(q, l)'
    <3>1. CASE q = p
      BY <1>0, <1>2, <1>3, <1>5, <1>7, <2>1, <3>1
      DEF CreationIsPrivate, IsOn, Mailed, Searching, Making
    <3>2. CASE q # p
      BY <1>0, <1>2, <1>3, <1>5, <1>7, <2>1, <3>2
      DEF CreationIsPrivate, IsOn, Mailed, Searching, Making
    <3> QED BY <3>1, <3>2
  <2> QED BY <2>1 DEF CreationIsPrivate
<1>12. IdsMeanOneSegment'
  <2>1. Means(k, s)'
    BY <1>2, <1>3, <1>4, <1>5, <1>7 DEF Means, Mailed
  <2>2. ASSUME NEW l \in Keys \ {k}, NEW x \in Segs \cup {NoSeg}, Means(l, x)
        PROVE  Means(l, x)'
    BY <1>2, <1>3, <1>4, <1>5, <2>2 DEF Means
  <2> QED BY <1>0, <2>1, <2>2 DEF IdsMeanOneSegment
<1>13. TasksHaveSegments'
  BY <1>0, <1>2, <1>3, <1>4, <1>5, <1>7 DEF TasksHaveSegments, Making
<1>14. ObjectsStand'
  BY <1>0, <1>2, <1>3, <1>4, <1>5, <1>7 DEF ObjectsStand
<1>15. OneOwner'
  BY <1>0, <1>2, <1>3, <1>4, <1>5, <1>7 DEF OneOwner
<1>16. OwnersArePublished'
  <2>1. ASSUME NEW q \in Procs, NEW l \in Keys
        PROVE  /\ Owns(q, l)' => Region(q, l)' # NoSeg
               /\ Owns(q, l)' \/ IsOn(q, l, Making)' =>
                    /\ Handle(q, l)' # NoSeg
                    /\ l \notin freed' => names'[l] = Handle(q, l)'
    <3>1. CASE q = p /\ l = k
      BY <1>0, <1>2, <1>3, <1>4, <1>5, <1>7, <3>1 DEF OwnersArePublished, IsOn, Making
    <3>2. CASE q # p \/ l # k
      BY <1>0, <1>2, <1>3, <1>4, <1>5, <1>7, <3>2 DEF OwnersArePublished, IsOn, Making
    <3> QED BY <3>1, <3>2
  <2> QED BY <2>1 DEF OwnersArePublished
<1>17. NamesAreWanted'
  <2>1. ASSUME NEW l \in Keys, names'[l] # NoSeg, l \notin accident'
        PROVE  \E q \in Procs : Owns(q, l)' \/ IsOn(q, l, Making)'
    <3>1. CASE l = k
      BY <1>5, <3>1 DEF IsOn, Making
    <3>2. CASE l # k
      <4>1. PICK q \in Procs : Owns(q, l) \/ IsOn(q, l, Making)
        BY <1>0, <1>2, <1>4, <2>1, <3>2 DEF NamesAreWanted
      <4>2. Owns(q, l)' \/ IsOn(q, l, Making)'
        BY <1>3, <1>5, <3>2, <4>1 DEF IsOn
      <4> QED BY <4>2
    <3> QED BY <3>1, <3>2
  <2> QED BY <2>1 DEF NamesAreWanted
<1>18. ObjectsHaveOrigin'
  BY <1>0, <1>2, <1>3, <1>4, <1>5, <1>7
  DEF ObjectsHaveOrigin, IsOn, Mailed, Searching, Making
<1>19. UnmailedIsPrivate'
  BY <1>0, <1>2, <1>3, <1>4, <1>5, <1>7 DEF UnmailedIsPrivate, Mailed
<1> QED BY <1>8, <1>9, <1>10, <1>11, <1>12, <1>13, <1>14, <1>15, <1>16, <1>17, <1>18, <1>19

(* The name exists already: the session lists the key and has nothing.     *)
LEMMA NameInUseSound ==
  ASSUME ObjIInv, NEW p \in Procs, NEW k \in Keys, k = task[p].key, NEW size \in Sizes,
         At(p, "create"), AllocateNameInUse(p, k, size), EndTask(p),
         UNCHANGED <<lastId, objs, mail, stands, accident, freed>>
  PROVE  SessionsSound'
<1> USE DEF SessionsSound, AllKept, OthersKept, Kept
<1>0. TypeOK /\ WellFormed /\ PointersCounted /\ ObjTypeOK /\ SessionsSound
  BY ObjIInvParts
<1>1. /\ OthersKept(p, k)
      /\ Handle(p, k)' = Handle(p, k)
      /\ Region(p, k)' = Region(p, k)
      /\ Owns(p, k)' <=> Owns(p, k)
      /\ UNCHANGED <<names, mapCounter, call>>
  BY <1>0, NameInUseEffect
<1>2. /\ task'[p].at = "none" /\ task'[p].key = NoKey /\ task'[p].seg = NoSeg
      /\ \A q \in Procs \ {p} : task'[q] = task[q]
      /\ NoKey \notin Keys /\ Idle(p)
  BY <1>0, TaskEnds, ConstantsAssumption DEF AllocateNameInUse, CreatesName
<1>3. ~(k > lastId) /\ \A q \in Procs \ {p} : task[q].key # k
  BY <1>0 DEF At, CreationIsPrivate, IdsAreFresh, IsOn, Searching
<1>4. CallsMatchTasks'
  BY <1>0, <1>1, <1>2, <1>3 DEF CallsMatchTasks, At, Idle, NoCall, AllocateSteps
<1>5. EveryPointerHasAFinalizer'
  BY <1>0, <1>1, <1>2 DEF EveryPointerHasAFinalizer, InFlight, At
<1>6. IdsAreFresh'
  BY <1>0, <1>1, <1>2, <1>3 DEF IdsAreFresh, Mailed
<1>7. CreationIsPrivate'
  BY <1>0, <1>1, <1>2, <1>3 DEF CreationIsPrivate, IsOn, Mailed, Searching, Making
<1>8. IdsMeanOneSegment'
  BY <1>0, <1>1, <1>2, <1>3 DEF IdsMeanOneSegment, Means
<1>9. TasksHaveSegments'
  BY <1>0, <1>1, <1>2, <1>3 DEF TasksHaveSegments, Making
<1>10. ObjectsStand'
  BY <1>0, <1>1, <1>2, <1>3 DEF ObjectsStand
<1>11. OneOwner'
  BY <1>0, <1>1, <1>2, <1>3 DEF OneOwner
<1>12. OwnersArePublished'
  BY <1>0, <1>1, <1>2, <1>3 DEF OwnersArePublished, IsOn, Making, At
<1>13. NamesAreWanted'
  BY <1>0, <1>1, <1>2, <1>3 DEF NamesAreWanted, IsOn, Making, At
<1>14. ObjectsHaveOrigin'
  BY <1>0, <1>1, <1>2, <1>3 DEF ObjectsHaveOrigin, IsOn, Mailed, Searching, Making
<1>15. UnmailedIsPrivate'
  BY <1>0, <1>1, <1>2, <1>3 DEF UnmailedIsPrivate, Mailed
<1> QED BY <1>4, <1>5, <1>6, <1>7, <1>8, <1>9, <1>10, <1>11, <1>12, <1>13, <1>14, <1>15

(* Whether or not the name exists, an allocation starts or ends soundly.   *)
LEMMA ShareAllocateSound ==
  ASSUME ObjIInv, NEW p \in Procs, ShareAllocate(p)
  PROVE  SessionsSound'
<1>1. PICK k \in Keys : k = task[p].key
  BY ObjIInvParts, TaskTyped DEF ShareAllocate, At
<1>2. CASE HasSharedMemory(k)
  BY <1>1, <1>2, NameInUseSound DEF ShareAllocate
<1>3. CASE ~HasSharedMemory(k)
  BY <1>1, <1>3, CreateSound
<1> QED BY <1>2, <1>3

(* The allocation fails and takes its name away.                           *)
LEMMA ShareAllocateFailsSound ==
  ASSUME ObjIInv, NEW p \in Procs, ShareAllocateFails(p)
  PROVE  SessionsSound'
<1> USE DEF SessionsSound, AllKept, OthersKept, Kept
<1>0. TypeOK /\ WellFormed /\ PointersCounted /\ ObjTypeOK /\ SessionsSound
  BY ObjIInvParts
<1>1. PICK k \in Keys : k = task[p].key /\ k = call[p].key
  BY <1>0, TaskTyped DEF ShareAllocateFails, CallsMatchTasks, At
<1>2. /\ names' = [names EXCEPT ![k] = NoSeg]
      /\ OthersKept(p, k)
      /\ Handle(p, k)' = NoSeg
      /\ Region(p, k)' = NoSeg
      /\ Owns(p, k)' <=> Owns(p, k)
      /\ call' = [call EXCEPT ![p] = NoCall]
      /\ UNCHANGED <<mapCounter, lastId, objs, mail, stands, accident, freed>>
  BY <1>0, <1>1, FailureEffect DEF ShareAllocateFails
<1>3. names'[k] = NoSeg /\ \A l \in Keys \ {k} : names'[l] = names[l]
  BY <1>0, <1>2 DEF TypeOK
<1>4. /\ task'[p].at = "none" /\ task'[p].key = NoKey /\ task'[p].seg = NoSeg
      /\ \A q \in Procs \ {p} : task'[q] = task[q]
      /\ NoKey \notin Keys
  BY <1>0, TaskEnds, ConstantsAssumption DEF ShareAllocateFails
<1>5. call'[p] = NoCall /\ \A q \in Procs \ {p} : call'[q] = call[q]
  BY <1>0, <1>2, CallGoesOn
<1>6. /\ At(p, "allocating") /\ ~(k > lastId)
      /\ \A q \in Procs : ~Owns(q, k) /\ (q # p => task[q].key # k)
  BY <1>0, <1>1, NotListed
  DEF ShareAllocateFails, At, CreationIsPrivate, IdsAreFresh, IsOn, Making
<1>7. CallsMatchTasks'
  BY <1>0, <1>2, <1>4, <1>5 DEF CallsMatchTasks, At, NoCall, AllocateSteps
<1>8. EveryPointerHasAFinalizer'
  BY <1>0, <1>2, <1>4, <1>6 DEF EveryPointerHasAFinalizer, InFlight, At
<1>9. IdsAreFresh'
  BY <1>0, <1>1, <1>2, <1>3, <1>4, <1>6 DEF IdsAreFresh, Mailed
<1>10. CreationIsPrivate'
  BY <1>0, <1>1, <1>2, <1>3, <1>4, <1>6
  DEF CreationIsPrivate, IsOn, Mailed, Searching, Making
<1>11. IdsMeanOneSegment'
  BY <1>0, <1>1, <1>2, <1>3, <1>4, <1>6 DEF IdsMeanOneSegment, Means
<1>12. TasksHaveSegments'
  BY <1>0, <1>1, <1>2, <1>3, <1>4, <1>6 DEF TasksHaveSegments, Making
<1>13. ObjectsStand'
  BY <1>0, <1>1, <1>2, <1>3, <1>4, <1>6 DEF ObjectsStand
<1>14. OneOwner'
  BY <1>0, <1>1, <1>2, <1>3, <1>4, <1>6 DEF OneOwner
<1>15. OwnersArePublished'
  BY <1>0, <1>1, <1>2, <1>3, <1>4, <1>6 DEF OwnersArePublished, IsOn, Making
<1>16. NamesAreWanted'
  <2>1. ASSUME NEW l \in Keys, names'[l] # NoSeg, l \notin accident'
        PROVE  \E q \in Procs : Owns(q, l)' \/ IsOn(q, l, Making)'
    <3>1. PICK q \in Procs : Owns(q, l) \/ IsOn(q, l, Making)
      BY <1>0, <1>1, <1>2, <1>3, <1>4, <1>6, <2>1 DEF NamesAreWanted
    <3>2. Owns(q, l)' \/ IsOn(q, l, Making)'
      BY <1>0, <1>1, <1>2, <1>3, <1>4, <1>6, <2>1, <3>1 DEF IsOn, Making
    <3> QED BY <3>2
  <2> QED BY <2>1 DEF NamesAreWanted
<1>17. ObjectsHaveOrigin'
  BY <1>0, <1>1, <1>2, <1>3, <1>4, <1>6
  DEF ObjectsHaveOrigin, IsOn, Mailed, Searching, Making
<1>18. UnmailedIsPrivate'
  BY <1>0, <1>1, <1>2, <1>3, <1>4, <1>6 DEF UnmailedIsPrivate, Mailed
<1> QED BY <1>7, <1>8, <1>9, <1>10, <1>11, <1>12, <1>13, <1>14, <1>15, <1>16, <1>17, <1>18

(* The creator's pointer, and a reader's.                                  *)
LEMMA ShareMappedSound ==
  ASSUME ObjIInv, NEW p \in Procs, ShareMapped(p)
  PROVE  SessionsSound'
<1> USE DEF SessionsSound, AllKept, OthersKept, Kept
<1>0. TypeOK /\ WellFormed /\ PointersCounted /\ ObjTypeOK /\ SessionsSound
  BY ObjIInvParts
<1>1. PICK k \in Keys : k = task[p].key /\ k = call[p].key
  <2>1. task[p].key \in Keys
    BY <1>0, TaskTyped DEF ShareMapped, At
  <2>2. call[p] = [at |-> "mmap", key |-> task[p].key]
    BY <1>0 DEF ShareMapped, CallsMatchTasks, At
  <2> QED BY <2>1, <2>2
<1>2. /\ OthersKept(p, k)
      /\ KeyInMap(p, k) /\ KeyInMap(p, k)'
      /\ Handle(p, k) # NoSeg
      /\ Handle(p, k)' = Handle(p, k)
      /\ Region(p, k)' = Handle(p, k)
      /\ Owns(p, k)' <=> Owns(p, k)
      /\ call' = [call EXCEPT ![p] = NoCall]
      /\ UNCHANGED <<names, lastId, objs, mail, stands, accident, freed>>
  BY <1>0, <1>1, MappedEffect DEF ShareMapped
<1>3. /\ mapCounter'[p][k] = mapCounter[p][k] + 1
      /\ \A q \in Procs, l \in Keys : q # p \/ l # k => mapCounter'[q][l] = mapCounter[q][l]
  BY <1>0, <1>1, MappedEffect DEF TypeOK, ShareMapped
<1>4. /\ task[p].at = "mapping"
      /\ task'[p].at = "own" /\ task'[p].key = k /\ task'[p].seg = task[p].seg
      /\ \A q \in Procs \ {p} : task'[q] = task[q]
  BY <1>0, <1>1, TaskGoesOn DEF ShareMapped, At
<1>5. call'[p] = NoCall /\ \A q \in Procs \ {p} : call'[q] = call[q]
  BY <1>0, <1>2, CallGoesOn
<1>6. CallsMatchTasks'
  BY <1>0, <1>2, <1>4, <1>5 DEF CallsMatchTasks, At, NoCall, AllocateSteps
<1>7. EveryPointerHasAFinalizer'
  BY <1>0, <1>1, <1>2, <1>3, <1>4
  DEF EveryPointerHasAFinalizer, InFlight, TypeOK, ObjTypeOK
<1>8. IdsAreFresh'
  BY <1>0, <1>1, <1>2, <1>4 DEF IdsAreFresh, Mailed
<1>9. CreationIsPrivate'
  <2>1. ASSUME NEW q \in Procs, NEW l \in Keys, IsOn(q, l, Searching \cup Making)'
        PROVE  /\ ~Mailed(l)'
               /\ \A r \in Procs : objs'[r][l] = 0
               /\ \A r \in Procs \ {q} : ~KeyInMap(r, l)' /\ task'[r].key # l
               /\ ~Owns(q, l)'
               /\ task'[q].at \in Searching => ~KeyInMap(q, l)'
    <3>1. CASE q = p
      BY <1>0, <1>1, <1>2, <1>4, <2>1, <3>1
      DEF CreationIsPrivate, IsOn, Mailed, Searching, Making
    <3>2. CASE q # p
      BY <1>0, <1>1, <1>2, <1>4, <2>1, <3>2
      DEF CreationIsPrivate, IsOn, Mailed, Searching, Making
    <3> QED BY <3>1, <3>2
  <2> QED BY <2>1 DEF CreationIsPrivate
<1>10. IdsMeanOneSegment'
  <2>1. ASSUME NEW l \in Keys, NEW x \in Segs \cup {NoSeg}, Means(l, x)
        PROVE  Means(l, x)'
    BY <1>1, <1>2, <1>4, <2>1 DEF Means
  <2> QED BY <1>0, <2>1 DEF IdsMeanOneSegment
<1>11. TasksHaveSegments'
  BY <1>0, <1>1, <1>2, <1>4 DEF TasksHaveSegments, Making
<1>12. ObjectsStand'
  BY <1>0, <1>1, <1>2, <1>4 DEF ObjectsStand
<1>13. OneOwner'
  BY <1>0, <1>1, <1>2, <1>4 DEF OneOwner
<1>14. OwnersArePublished'
  <2>1. ASSUME NEW q \in Procs, NEW l \in Keys
        PROVE  /\ Owns(q, l)' => Region(q, l)' # NoSeg
               /\ Owns(q, l)' \/ IsOn(q, l, Making)' =>
                    /\ Handle(q, l)' # NoSeg
                    /\ l \notin freed' => names'[l] = Handle(q, l)'
    <3>1. CASE q = p /\ l = k
      BY <1>0, <1>1, <1>2, <1>4, <3>1 DEF OwnersArePublished, IsOn, Making
    <3>2. CASE q # p \/ l # k
      BY <1>0, <1>1, <1>2, <1>4, <3>2 DEF OwnersArePublished, IsOn, Making
    <3> QED BY <3>1, <3>2
  <2> QED BY <2>1 DEF OwnersArePublished
<1>15. NamesAreWanted'
  <2>1. ASSUME NEW l \in Keys, names'[l] # NoSeg, l \notin accident'
        PROVE  \E q \in Procs : Owns(q, l)' \/ IsOn(q, l, Making)'
    <3>1. PICK q \in Procs : Owns(q, l) \/ IsOn(q, l, Making)
      BY <1>0, <1>1, <1>2, <1>4, <2>1 DEF NamesAreWanted
    <3>2. Owns(q, l)' \/ IsOn(q, l, Making)'
      BY <1>0, <1>1, <1>2, <1>4, <2>1, <3>1 DEF IsOn, Making
    <3> QED BY <3>2
  <2> QED BY <2>1 DEF NamesAreWanted
<1>16. ObjectsHaveOrigin'
  <2>1. ASSUME NEW q \in Procs, NEW l \in Keys,
               objs'[q][l] > 0 \/ IsOn(q, l, {"wrap", "reading"})'
        PROVE  Owns(q, l)' \/ Mailed(l)'
    <3>1. CASE q = p /\ l = k
      BY <1>0, <1>1, <1>2, <1>4, <2>1, <3>1 DEF ObjectsHaveOrigin, IsOn, Mailed
    <3>2. CASE q # p \/ l # k
      BY <1>0, <1>1, <1>2, <1>4, <2>1, <3>2 DEF ObjectsHaveOrigin, IsOn, Mailed
    <3> QED BY <3>1, <3>2
  <2> QED BY <2>1 DEF ObjectsHaveOrigin
<1>17. UnmailedIsPrivate'
  BY <1>0, <1>1, <1>2, <1>4 DEF UnmailedIsPrivate, Mailed
<1> QED BY <1>6, <1>7, <1>8, <1>9, <1>10, <1>11, <1>12, <1>13, <1>14, <1>15, <1>16, <1>17

(* The same for a session that reads an object.                            *)
LEMMA ReadMappedSound ==
  ASSUME ObjIInv, NEW p \in Procs, ReadMapped(p)
  PROVE  SessionsSound'
<1> USE DEF SessionsSound, AllKept, OthersKept, Kept
<1>0. TypeOK /\ WellFormed /\ PointersCounted /\ ObjTypeOK /\ SessionsSound
  BY ObjIInvParts
<1>1. PICK k \in Keys : k = task[p].key /\ k = call[p].key
  <2>1. task[p].key \in Keys
    BY <1>0, TaskTyped DEF ReadMapped, At
  <2>2. call[p] = [at |-> "mmap", key |-> task[p].key]
    BY <1>0 DEF ReadMapped, CallsMatchTasks, At
  <2> QED BY <2>1, <2>2
<1>2. /\ OthersKept(p, k)
      /\ KeyInMap(p, k) /\ KeyInMap(p, k)'
      /\ Handle(p, k) # NoSeg
      /\ Handle(p, k)' = Handle(p, k)
      /\ Region(p, k)' = Handle(p, k)
      /\ Owns(p, k)' <=> Owns(p, k)
      /\ call' = [call EXCEPT ![p] = NoCall]
      /\ UNCHANGED <<names, lastId, objs, mail, stands, accident, freed>>
  BY <1>0, <1>1, MappedEffect DEF ReadMapped
<1>3. /\ mapCounter'[p][k] = mapCounter[p][k] + 1
      /\ \A q \in Procs, l \in Keys : q # p \/ l # k => mapCounter'[q][l] = mapCounter[q][l]
  BY <1>0, <1>1, MappedEffect DEF TypeOK, ReadMapped
<1>4. /\ task[p].at = "reading"
      /\ task'[p].at = "wrap" /\ task'[p].key = k /\ task'[p].seg = task[p].seg
      /\ \A q \in Procs \ {p} : task'[q] = task[q]
  BY <1>0, <1>1, TaskGoesOn DEF ReadMapped, At
<1>5. call'[p] = NoCall /\ \A q \in Procs \ {p} : call'[q] = call[q]
  BY <1>0, <1>2, CallGoesOn
<1>6. CallsMatchTasks'
  BY <1>0, <1>2, <1>4, <1>5 DEF CallsMatchTasks, At, NoCall, AllocateSteps
<1>7. EveryPointerHasAFinalizer'
  BY <1>0, <1>1, <1>2, <1>3, <1>4
  DEF EveryPointerHasAFinalizer, InFlight, TypeOK, ObjTypeOK
<1>8. IdsAreFresh'
  BY <1>0, <1>1, <1>2, <1>4 DEF IdsAreFresh, Mailed
<1>9. CreationIsPrivate'
  <2>1. ASSUME NEW q \in Procs, NEW l \in Keys, IsOn(q, l, Searching \cup Making)'
        PROVE  /\ ~Mailed(l)'
               /\ \A r \in Procs : objs'[r][l] = 0
               /\ \A r \in Procs \ {q} : ~KeyInMap(r, l)' /\ task'[r].key # l
               /\ ~Owns(q, l)'
               /\ task'[q].at \in Searching => ~KeyInMap(q, l)'
    <3>1. CASE q = p
      BY <1>0, <1>1, <1>2, <1>4, <2>1, <3>1
      DEF CreationIsPrivate, IsOn, Mailed, Searching, Making
    <3>2. CASE q # p
      BY <1>0, <1>1, <1>2, <1>4, <2>1, <3>2
      DEF CreationIsPrivate, IsOn, Mailed, Searching, Making
    <3> QED BY <3>1, <3>2
  <2> QED BY <2>1 DEF CreationIsPrivate
<1>10. IdsMeanOneSegment'
  <2>1. ASSUME NEW l \in Keys, NEW x \in Segs \cup {NoSeg}, Means(l, x)
        PROVE  Means(l, x)'
    BY <1>1, <1>2, <1>4, <2>1 DEF Means
  <2> QED BY <1>0, <2>1 DEF IdsMeanOneSegment
<1>11. TasksHaveSegments'
  BY <1>0, <1>1, <1>2, <1>4 DEF TasksHaveSegments, Making
<1>12. ObjectsStand'
  BY <1>0, <1>1, <1>2, <1>4 DEF ObjectsStand
<1>13. OneOwner'
  BY <1>0, <1>1, <1>2, <1>4 DEF OneOwner
<1>14. OwnersArePublished'
  <2>1. ASSUME NEW q \in Procs, NEW l \in Keys
        PROVE  /\ Owns(q, l)' => Region(q, l)' # NoSeg
               /\ Owns(q, l)' \/ IsOn(q, l, Making)' =>
                    /\ Handle(q, l)' # NoSeg
                    /\ l \notin freed' => names'[l] = Handle(q, l)'
    <3>1. CASE q = p /\ l = k
      BY <1>0, <1>1, <1>2, <1>4, <3>1 DEF OwnersArePublished, IsOn, Making
    <3>2. CASE q # p \/ l # k
      BY <1>0, <1>1, <1>2, <1>4, <3>2 DEF OwnersArePublished, IsOn, Making
    <3> QED BY <3>1, <3>2
  <2> QED BY <2>1 DEF OwnersArePublished
<1>15. NamesAreWanted'
  <2>1. ASSUME NEW l \in Keys, names'[l] # NoSeg, l \notin accident'
        PROVE  \E q \in Procs : Owns(q, l)' \/ IsOn(q, l, Making)'
    <3>1. PICK q \in Procs : Owns(q, l) \/ IsOn(q, l, Making)
      BY <1>0, <1>1, <1>2, <1>4, <2>1 DEF NamesAreWanted
    <3>2. Owns(q, l)' \/ IsOn(q, l, Making)'
      BY <1>0, <1>1, <1>2, <1>4, <2>1, <3>1 DEF IsOn, Making
    <3> QED BY <3>2
  <2> QED BY <2>1 DEF NamesAreWanted
<1>16. ObjectsHaveOrigin'
  <2>1. ASSUME NEW q \in Procs, NEW l \in Keys,
               objs'[q][l] > 0 \/ IsOn(q, l, {"wrap", "reading"})'
        PROVE  Owns(q, l)' \/ Mailed(l)'
    <3>1. CASE q = p /\ l = k
      BY <1>0, <1>1, <1>2, <1>4, <2>1, <3>1 DEF ObjectsHaveOrigin, IsOn, Mailed
    <3>2. CASE q # p \/ l # k
      BY <1>0, <1>1, <1>2, <1>4, <2>1, <3>2 DEF ObjectsHaveOrigin, IsOn, Mailed
    <3> QED BY <3>1, <3>2
  <2> QED BY <2>1 DEF ObjectsHaveOrigin
<1>17. UnmailedIsPrivate'
  BY <1>0, <1>1, <1>2, <1>4 DEF UnmailedIsPrivate, Mailed
<1> QED BY <1>6, <1>7, <1>8, <1>9, <1>10, <1>11, <1>12, <1>13, <1>14, <1>15, <1>16, <1>17

(* The creator takes the ownership of memory it has mapped.                *)
LEMMA ShareOwnSound ==
  ASSUME ObjIInv, NEW p \in Procs, ShareOwn(p)
  PROVE  SessionsSound'
<1> USE DEF SessionsSound, AllKept, OthersKept, Kept
<1>0. TypeOK /\ WellFormed /\ PointersCounted /\ ObjTypeOK /\ SessionsSound
  BY ObjIInvParts
<1>1. PICK k \in Keys : k = task[p].key /\ task[p].at = "own"
  BY <1>0, TaskTyped DEF ShareOwn, At
<1>2. /\ OthersKept(p, k)
      /\ KeyInMap(p, k)
      /\ KeyInMap(p, k)'
      /\ Handle(p, k)' = Handle(p, k)
      /\ Region(p, k)' = Region(p, k)
      /\ Owns(p, k)'
      /\ UNCHANGED <<names, mapCounter, call, lastId, objs, mail, stands, accident, freed>>
  BY <1>0, <1>1, OwnershipEffect DEF ShareOwn
<1>3. /\ task'[p].at = "wrap" /\ task'[p].key = k /\ task'[p].seg = task[p].seg
      /\ \A q \in Procs \ {p} : task'[q] = task[q]
      /\ Idle(p)
  BY <1>0, <1>1, TaskGoesOn DEF ShareOwn, At, SetOwnership
<1>4. Region(p, k) # NoSeg
  <2>1. mapCounter[p][k] = 1
    BY <1>0, <1>1 DEF EveryPointerHasAFinalizer, InFlight, CreationIsPrivate, IsOn, Making
  <2> QED BY <1>0, <2>1 DEF PointersCounted, PointersStayMapped, CounterCountsPointers
<1>5. \A q \in Procs \ {p} : ~Owns(q, k) /\ Handle(q, k) = NoSeg /\ task[q].key # k
  BY <1>0, <1>1, NotListed DEF CreationIsPrivate, IsOn, Making
<1>6. CallsMatchTasks'
  BY <1>0, <1>1, <1>2, <1>3, <1>4, <1>5 DEF CallsMatchTasks, At, Idle, NoCall, AllocateSteps
<1>7. EveryPointerHasAFinalizer'
  BY <1>0, <1>1, <1>2, <1>3, <1>4, <1>5 DEF EveryPointerHasAFinalizer, InFlight
<1>8. IdsAreFresh'
  BY <1>0, <1>1, <1>2, <1>3, <1>4, <1>5 DEF IdsAreFresh, Mailed
<1>9. CreationIsPrivate'
  <2>1. ASSUME NEW q \in Procs, NEW l \in Keys, IsOn(q, l, Searching \cup Making)'
        PROVE  /\ ~Mailed(l)'
               /\ \A r \in Procs : objs'[r][l] = 0
               /\ \A r \in Procs \ {q} : ~KeyInMap(r, l)' /\ task'[r].key # l
               /\ ~Owns(q, l)'
               /\ task'[q].at \in Searching => ~KeyInMap(q, l)'
    <3>1. CASE q = p
      BY <1>0, <1>1, <1>2, <1>3, <1>5, <2>1, <3>1
      DEF CreationIsPrivate, IsOn, Mailed, Searching, Making
    <3>2. CASE q # p
      BY <1>0, <1>1, <1>2, <1>3, <1>5, <2>1, <3>2
      DEF CreationIsPrivate, IsOn, Mailed, Searching, Making
    <3> QED BY <3>1, <3>2
  <2> QED BY <2>1 DEF CreationIsPrivate
<1>10. IdsMeanOneSegment'
  <2>1. ASSUME NEW l \in Keys, NEW x \in Segs \cup {NoSeg}, Means(l, x)
        PROVE  Means(l, x)'
    BY <1>1, <1>2, <1>3, <2>1 DEF Means
  <2> QED BY <1>0, <2>1 DEF IdsMeanOneSegment
<1>11. TasksHaveSegments'
  BY <1>0, <1>1, <1>2, <1>3, <1>4, <1>5 DEF TasksHaveSegments, Making
<1>12. ObjectsStand'
  BY <1>0, <1>1, <1>2, <1>3, <1>4, <1>5 DEF ObjectsStand
<1>13. OneOwner'
  BY <1>0, <1>1, <1>2, <1>3, <1>4, <1>5 DEF OneOwner
<1>14. OwnersArePublished'
  <2>1. ASSUME NEW q \in Procs, NEW l \in Keys
        PROVE  /\ Owns(q, l)' => Region(q, l)' # NoSeg
               /\ Owns(q, l)' \/ IsOn(q, l, Making)' =>
                    /\ Handle(q, l)' # NoSeg
                    /\ l \notin freed' => names'[l] = Handle(q, l)'
    <3>1. CASE q = p /\ l = k
      BY <1>0, <1>1, <1>2, <1>3, <1>4, <1>5, <3>1 DEF OwnersArePublished, IsOn, Making
    <3>2. CASE q # p \/ l # k
      BY <1>0, <1>1, <1>2, <1>3, <1>4, <1>5, <3>2 DEF OwnersArePublished, IsOn, Making
    <3> QED BY <3>1, <3>2
  <2> QED BY <2>1 DEF OwnersArePublished
<1>15. NamesAreWanted'
  <2>1. ASSUME NEW l \in Keys, names'[l] # NoSeg, l \notin accident'
        PROVE  \E q \in Procs : Owns(q, l)' \/ IsOn(q, l, Making)'
    <3>1. PICK q \in Procs : Owns(q, l) \/ IsOn(q, l, Making)
      BY <1>0, <1>1, <1>2, <1>3, <2>1 DEF NamesAreWanted
    <3>2. Owns(q, l)' \/ IsOn(q, l, Making)'
      BY <1>0, <1>1, <1>2, <1>3, <2>1, <3>1 DEF IsOn, Making
    <3> QED BY <3>2
  <2> QED BY <2>1 DEF NamesAreWanted
<1>16. ObjectsHaveOrigin'
  BY <1>0, <1>1, <1>2, <1>3, <1>4, <1>5
  DEF ObjectsHaveOrigin, IsOn, Mailed, Searching, Making
<1>17. UnmailedIsPrivate'
  BY <1>0, <1>1, <1>2, <1>3, <1>4, <1>5 DEF UnmailedIsPrivate, Mailed
<1> QED BY <1>6, <1>7, <1>8, <1>9, <1>10, <1>11, <1>12, <1>13, <1>14, <1>15, <1>16, <1>17

(* The pointer gets its object and its finalizer.                          *)
LEMMA WrapSound ==
  ASSUME ObjIInv, NEW p \in Procs, Wrap(p)
  PROVE  SessionsSound'
<1> USE DEF SessionsSound, AllKept, OthersKept, Kept
<1>0. TypeOK /\ WellFormed /\ PointersCounted /\ ObjTypeOK /\ SessionsSound
  BY ObjIInvParts
<1>1. PICK k \in Keys : k = task[p].key /\ task[p].at = "wrap"
  BY <1>0, TaskTyped DEF Wrap, At
<1>2. AllKept /\ UNCHANGED <<vars, lastId, mail, accident, freed>>
  BY KeepEffect DEF Wrap, vars
<1>3. /\ task'[p].at = "none" /\ task'[p].key = NoKey /\ task'[p].seg = NoSeg
      /\ \A q \in Procs \ {p} : task'[q] = task[q]
      /\ NoKey \notin Keys
  BY <1>0, TaskEnds, ConstantsAssumption DEF Wrap
<1>4. /\ objs'[p][k] = objs[p][k] + 1
      /\ stands'[p][k] = stands[p][k] \cup {task[p].seg}
      /\ \A q \in Procs, l \in Keys : q # p \/ l # k =>
           objs'[q][l] = objs[q][l] /\ stands'[q][l] = stands[q][l]
      /\ \A q \in Procs, l \in Keys : objs[q][l] \in Nat
      /\ task[p].seg # NoSeg
  BY <1>0, <1>1 DEF Wrap, ObjTypeOK, TasksHaveSegments
<1> USE DEF vars
<1>5. CallsMatchTasks'
  BY <1>0, <1>1, <1>2, <1>3, <1>4 DEF CallsMatchTasks, At, Idle, NoCall, AllocateSteps
<1>6. EveryPointerHasAFinalizer'
  BY <1>0, <1>1, <1>2, <1>3, <1>4 DEF EveryPointerHasAFinalizer, InFlight
<1>7. IdsAreFresh'
  BY <1>0, <1>1, <1>2, <1>3, <1>4 DEF IdsAreFresh, Mailed
<1>8. CreationIsPrivate'
  <2>1. ASSUME NEW q \in Procs, NEW l \in Keys, IsOn(q, l, Searching \cup Making)'
        PROVE  /\ ~Mailed(l)'
               /\ \A r \in Procs : objs'[r][l] = 0
               /\ \A r \in Procs \ {q} : ~KeyInMap(r, l)' /\ task'[r].key # l
               /\ ~Owns(q, l)'
               /\ task'[q].at \in Searching => ~KeyInMap(q, l)'
    <3>1. CASE q = p
      BY <1>0, <1>1, <1>2, <1>3, <1>4, <2>1, <3>1
      DEF CreationIsPrivate, IsOn, Mailed, Searching, Making
    <3>2. CASE q # p
      BY <1>0, <1>1, <1>2, <1>3, <1>4, <2>1, <3>2
      DEF CreationIsPrivate, IsOn, Mailed, Searching, Making
    <3> QED BY <3>1, <3>2
  <2> QED BY <2>1 DEF CreationIsPrivate
<1>9. IdsMeanOneSegment'
  <2>1. ASSUME NEW l \in Keys, NEW x \in Segs \cup {NoSeg}, Means(l, x)
        PROVE  Means(l, x)'
    BY <1>1, <1>2, <1>3, <1>4, <2>1 DEF Means
  <2> QED BY <1>0, <2>1 DEF IdsMeanOneSegment
<1>10. TasksHaveSegments'
  BY <1>0, <1>1, <1>2, <1>3, <1>4 DEF TasksHaveSegments, Making
<1>11. ObjectsStand'
  <2>1. ASSUME NEW q \in Procs, NEW l \in Keys
        PROVE  objs'[q][l] = 0 <=> stands'[q][l] = {}
    <3>1. CASE q = p /\ l = k
      <4>1. objs'[p][k] # 0
        BY <1>4
      <4>2. task[p].seg \in stands'[p][k]
        BY <1>4
      <4> QED BY <3>1, <4>1, <4>2
    <3>2. CASE q # p \/ l # k
      BY <1>0, <1>4, <3>2 DEF ObjectsStand
    <3> QED BY <3>1, <3>2
  <2> QED BY <2>1 DEF ObjectsStand
<1>12. OneOwner'
  BY <1>0, <1>1, <1>2, <1>3, <1>4 DEF OneOwner
<1>13. OwnersArePublished'
  <2>1. ASSUME NEW q \in Procs, NEW l \in Keys
        PROVE  /\ Owns(q, l)' => Region(q, l)' # NoSeg
               /\ Owns(q, l)' \/ IsOn(q, l, Making)' =>
                    /\ Handle(q, l)' # NoSeg
                    /\ l \notin freed' => names'[l] = Handle(q, l)'
    <3>1. CASE q = p /\ l = k
      BY <1>0, <1>1, <1>2, <1>3, <3>1 DEF OwnersArePublished, IsOn, Making
    <3>2. CASE q # p \/ l # k
      BY <1>0, <1>1, <1>2, <1>3, <3>2 DEF OwnersArePublished, IsOn, Making
    <3> QED BY <3>1, <3>2
  <2> QED BY <2>1 DEF OwnersArePublished
<1>14. NamesAreWanted'
  <2>1. ASSUME NEW l \in Keys, names'[l] # NoSeg, l \notin accident'
        PROVE  \E q \in Procs : Owns(q, l)' \/ IsOn(q, l, Making)'
    <3>1. PICK q \in Procs : Owns(q, l) \/ IsOn(q, l, Making)
      BY <1>0, <1>1, <1>2, <1>3, <2>1 DEF NamesAreWanted
    <3>2. Owns(q, l)' \/ IsOn(q, l, Making)'
      BY <1>0, <1>1, <1>2, <1>3, <2>1, <3>1 DEF IsOn, Making
    <3> QED BY <3>2
  <2> QED BY <2>1 DEF NamesAreWanted
<1>15. ObjectsHaveOrigin'
  BY <1>0, <1>1, <1>2, <1>3, <1>4 DEF ObjectsHaveOrigin, IsOn, Mailed, Searching, Making
<1>16. UnmailedIsPrivate'
  BY <1>0, <1>1, <1>2, <1>3, <1>4 DEF UnmailedIsPrivate, Mailed
<1> QED BY <1>5, <1>6, <1>7, <1>8, <1>9, <1>10, <1>11, <1>12, <1>13, <1>14, <1>15, <1>16

(* An id goes out with the segment its objects stand for.                  *)
LEMMA SerializeSound ==
  ASSUME ObjIInv, NEW p \in Procs, NEW k \in Keys, Serialize(p, k)
  PROVE  SessionsSound'
<1> USE DEF SessionsSound, AllKept, OthersKept, Kept
<1>0. TypeOK /\ WellFormed /\ PointersCounted /\ ObjTypeOK /\ SessionsSound
  BY ObjIInvParts
<1>1. AllKept /\ UNCHANGED <<vars, lastId, task, objs, stands, accident, freed>>
  BY KeepEffect DEF Serialize, vars
<1>2. /\ objs[p][k] > 0
      /\ mail' = mail \cup {[key |-> k, seg |-> s] : s \in stands[p][k]}
  BY DEF Serialize
<1>3. /\ ~(k > lastId)
      /\ \A q \in Procs : ~IsOn(q, k, Searching \cup Making)
  <2>1. objs[p][k] # 0
    BY <1>2
  <2> QED BY <1>0, <2>1 DEF IdsAreFresh, CreationIsPrivate
<1>4. \A l \in Keys : (Mailed(l)' => Mailed(l) \/ l = k) /\ (Mailed(l) => Mailed(l)')
  BY <1>2 DEF Mailed
<1> USE DEF vars
<1>5. CallsMatchTasks'
  BY <1>0, <1>1 DEF CallsMatchTasks, At, Idle, NoCall, AllocateSteps
<1>6. EveryPointerHasAFinalizer'
  BY <1>0, <1>1 DEF EveryPointerHasAFinalizer, InFlight
<1>7. IdsAreFresh'
  BY <1>0, <1>1, <1>2, <1>4, <1>3 DEF IdsAreFresh
<1>8. CreationIsPrivate'
  BY <1>0, <1>1, <1>2, <1>4, <1>3 DEF CreationIsPrivate, IsOn, Searching, Making
<1>9. IdsMeanOneSegment'
  <2>1. ASSUME NEW l \in Keys, NEW x \in Segs \cup {NoSeg}, Means(l, x)
        PROVE  Means(l, x)'
    BY <1>1, <1>2, <2>1 DEF Means
  <2> QED BY <1>0, <2>1 DEF IdsMeanOneSegment
<1>10. TasksHaveSegments'
  BY <1>0, <1>1 DEF TasksHaveSegments, Making
<1>11. ObjectsStand'
  BY <1>0, <1>1 DEF ObjectsStand
<1>12. OneOwner'
  BY <1>0, <1>1 DEF OneOwner
<1>13. OwnersArePublished'
  BY <1>0, <1>1 DEF OwnersArePublished, IsOn, Making
<1>14. NamesAreWanted'
  BY <1>0, <1>1 DEF NamesAreWanted, IsOn, Making
<1>15. ObjectsHaveOrigin'
  BY <1>0, <1>1, <1>4 DEF ObjectsHaveOrigin, IsOn
<1>16. UnmailedIsPrivate'
  BY <1>0, <1>1, <1>4 DEF UnmailedIsPrivate
<1> QED BY <1>5, <1>6, <1>7, <1>8, <1>9, <1>10, <1>11, <1>12, <1>13, <1>14, <1>15, <1>16

(* A message is opened by name.                                            *)
LEMMA OpenSound ==
  ASSUME ObjIInv, NEW p \in Procs, NEW m \in mail, AtTopLevel(p), MapOpen(p, m.key),
         Reads(p, "reading", m), UNCHANGED <<lastId, objs, mail, stands, accident, freed>>
  PROVE  SessionsSound'
<1> USE DEF SessionsSound, AllKept, OthersKept, Kept
<1>0. TypeOK /\ WellFormed /\ PointersCounted /\ ObjTypeOK /\ SessionsSound
  BY ObjIInvParts
<1>1. PICK k \in Keys : k = m.key
  BY <1>0 DEF ObjTypeOK, Message
<1>2. /\ task'[p].at = "reading" /\ task'[p].key = k /\ task'[p].seg = m.seg
      /\ \A q \in Procs \ {p} : task'[q] = task[q]
      /\ m.seg # NoSeg
  BY <1>0, <1>1, TaskStarts, ConstantsAssumption DEF ObjTypeOK, Message
<1>3. /\ ~(k > lastId)
      /\ \A q \in Procs : ~IsOn(q, k, Searching \cup Making)
  BY <1>0, <1>1 DEF IdsAreFresh, CreationIsPrivate, Mailed
<1>4. task[p].at = "none" /\ call[p] = NoCall
  BY DEF AtTopLevel, At, Idle
<1>5. /\ OthersKept(p, k)
      /\ KeyInMap(p, k)'
      /\ Handle(p, k) = NoSeg
      /\ Handle(p, k)' = names[k]
      /\ Region(p, k)' = Region(p, k)
      /\ Owns(p, k)' <=> Owns(p, k)
      /\ call' = [call EXCEPT ![p] = [at |-> "mmap", key |-> k]]
      /\ UNCHANGED <<names, mapCounter>>
  BY <1>0, <1>1, OpenEffect, EntryKeepsCounter DEF MapOpen
<1>6. ~Owns(p, k)
  BY <1>0, <1>5 DEF OwnersArePublished
<1>7. call'[p] = [at |-> "mmap", key |-> k] /\ \A q \in Procs \ {p} : call'[q] = call[q]
  BY <1>0, <1>5, CallGoesOn
<1>8. CallsMatchTasks'
  BY <1>0, <1>2, <1>4, <1>7 DEF CallsMatchTasks, At, AllocateSteps
<1>9. EveryPointerHasAFinalizer'
  BY <1>0, <1>1, <1>2, <1>3, <1>4, <1>5, <1>6 DEF EveryPointerHasAFinalizer, InFlight
<1>10. IdsAreFresh'
  BY <1>0, <1>1, <1>2, <1>3, <1>4, <1>5, <1>6 DEF IdsAreFresh, Mailed
<1>11. CreationIsPrivate'
  <2>1. ASSUME NEW q \in Procs, NEW l \in Keys, IsOn(q, l, Searching \cup Making)'
        PROVE  /\ ~Mailed(l)'
               /\ \A r \in Procs : objs'[r][l] = 0
               /\ \A r \in Procs \ {q} : ~KeyInMap(r, l)' /\ task'[r].key # l
               /\ ~Owns(q, l)'
               /\ task'[q].at \in Searching => ~KeyInMap(q, l)'
    <3>1. CASE q = p
      BY <1>0, <1>2, <1>3, <1>4, <1>5, <2>1, <3>1
      DEF CreationIsPrivate, IsOn, Mailed, Searching, Making
    <3>2. CASE q # p
      BY <1>0, <1>2, <1>3, <1>4, <1>5, <2>1, <3>2
      DEF CreationIsPrivate, IsOn, Mailed, Searching, Making
    <3> QED BY <3>1, <3>2
  <2> QED BY <2>1 DEF CreationIsPrivate
<1>12. IdsMeanOneSegment'
  <2>1. ASSUME NEW l \in Keys, NEW x \in Segs \cup {NoSeg}, Means(l, x)
        PROVE  Means(l, x)'
    BY <1>1, <1>2, <1>5, <2>1 DEF Means
  <2> QED BY <1>0, <2>1 DEF IdsMeanOneSegment
<1>13. TasksHaveSegments'
  BY <1>0, <1>1, <1>2, <1>3, <1>4, <1>5, <1>6 DEF TasksHaveSegments, Making
<1>14. ObjectsStand'
  BY <1>0, <1>1, <1>2, <1>3, <1>4, <1>5, <1>6 DEF ObjectsStand
<1>15. OneOwner'
  BY <1>0, <1>1, <1>2, <1>3, <1>4, <1>5, <1>6 DEF OneOwner
<1>16. OwnersArePublished'
  <2>1. ASSUME NEW q \in Procs, NEW l \in Keys
        PROVE  /\ Owns(q, l)' => Region(q, l)' # NoSeg
               /\ Owns(q, l)' \/ IsOn(q, l, Making)' =>
                    /\ Handle(q, l)' # NoSeg
                    /\ l \notin freed' => names'[l] = Handle(q, l)'
    <3>1. CASE q = p /\ l = k
      BY <1>0, <1>2, <1>3, <1>4, <1>5, <1>6, <3>1 DEF OwnersArePublished, IsOn, Making
    <3>2. CASE q # p \/ l # k
      BY <1>0, <1>2, <1>3, <1>4, <1>5, <1>6, <3>2 DEF OwnersArePublished, IsOn, Making
    <3> QED BY <3>1, <3>2
  <2> QED BY <2>1 DEF OwnersArePublished
<1>17. NamesAreWanted'
  <2>1. ASSUME NEW l \in Keys, names'[l] # NoSeg, l \notin accident'
        PROVE  \E q \in Procs : Owns(q, l)' \/ IsOn(q, l, Making)'
    <3>1. PICK q \in Procs : Owns(q, l) \/ IsOn(q, l, Making)
      BY <1>0, <1>2, <1>4, <1>5, <2>1 DEF NamesAreWanted
    <3>2. Owns(q, l)' \/ IsOn(q, l, Making)'
      BY <1>0, <1>2, <1>4, <1>5, <2>1, <3>1 DEF IsOn, Making
    <3> QED BY <3>2
  <2> QED BY <2>1 DEF NamesAreWanted
<1>18. ObjectsHaveOrigin'
  BY <1>0, <1>1, <1>2, <1>3, <1>4, <1>5, <1>6
  DEF ObjectsHaveOrigin, IsOn, Mailed, Searching, Making
<1>19. UnmailedIsPrivate'
  BY <1>0, <1>1, <1>2, <1>3, <1>4, <1>5, <1>6 DEF UnmailedIsPrivate, Mailed
<1> QED BY <1>8, <1>9, <1>10, <1>11, <1>12, <1>13, <1>14, <1>15, <1>16, <1>17, <1>18, <1>19

(* It is mapped with a handle that an earlier failure has left.            *)
LEMMA ReopenSound ==
  ASSUME ObjIInv, NEW p \in Procs, NEW m \in mail, AtTopLevel(p), MapWithHandle(p,
         m.key),
         Reads(p, "reading", m), UNCHANGED <<lastId, objs, mail, stands, accident, freed>>
  PROVE  SessionsSound'
<1> USE DEF SessionsSound, AllKept, OthersKept, Kept
<1>0. TypeOK /\ WellFormed /\ PointersCounted /\ ObjTypeOK /\ SessionsSound
  BY ObjIInvParts
<1>1. PICK k \in Keys : k = m.key
  BY <1>0 DEF ObjTypeOK, Message
<1>2. /\ task'[p].at = "reading" /\ task'[p].key = k /\ task'[p].seg = m.seg
      /\ \A q \in Procs \ {p} : task'[q] = task[q]
      /\ m.seg # NoSeg
  BY <1>0, <1>1, TaskStarts, ConstantsAssumption DEF ObjTypeOK, Message
<1>3. /\ ~(k > lastId)
      /\ \A q \in Procs : ~IsOn(q, k, Searching \cup Making)
  BY <1>0, <1>1 DEF IdsAreFresh, CreationIsPrivate, Mailed
<1>4. task[p].at = "none" /\ call[p] = NoCall
  BY DEF AtTopLevel, At, Idle
<1>5. /\ AllKept
      /\ call' = [call EXCEPT ![p] = [at |-> "mmap", key |-> k]]
      /\ UNCHANGED <<names, mapCounter>>
  BY <1>1, KeepEffect DEF MapWithHandle, Goto
<1>6. call'[p] = [at |-> "mmap", key |-> k] /\ \A q \in Procs \ {p} : call'[q] = call[q]
  BY <1>0, <1>5, CallGoesOn
<1>7. CallsMatchTasks'
  BY <1>0, <1>2, <1>4, <1>6 DEF CallsMatchTasks, At, AllocateSteps
<1>8. EveryPointerHasAFinalizer'
  BY <1>0, <1>1, <1>2, <1>3, <1>4, <1>5 DEF EveryPointerHasAFinalizer, InFlight
<1>9. IdsAreFresh'
  BY <1>0, <1>1, <1>2, <1>3, <1>4, <1>5 DEF IdsAreFresh, Mailed
<1>10. CreationIsPrivate'
  <2>1. ASSUME NEW q \in Procs, NEW l \in Keys, IsOn(q, l, Searching \cup Making)'
        PROVE  /\ ~Mailed(l)'
               /\ \A r \in Procs : objs'[r][l] = 0
               /\ \A r \in Procs \ {q} : ~KeyInMap(r, l)' /\ task'[r].key # l
               /\ ~Owns(q, l)'
               /\ task'[q].at \in Searching => ~KeyInMap(q, l)'
    <3>1. CASE q = p
      BY <1>0, <1>2, <1>3, <1>4, <1>5, <2>1, <3>1
      DEF CreationIsPrivate, IsOn, Mailed, Searching, Making
    <3>2. CASE q # p
      BY <1>0, <1>2, <1>3, <1>4, <1>5, <2>1, <3>2
      DEF CreationIsPrivate, IsOn, Mailed, Searching, Making
    <3> QED BY <3>1, <3>2
  <2> QED BY <2>1 DEF CreationIsPrivate
<1>11. IdsMeanOneSegment'
  <2>1. ASSUME NEW l \in Keys, NEW x \in Segs \cup {NoSeg}, Means(l, x)
        PROVE  Means(l, x)'
    BY <1>1, <1>2, <1>5, <2>1 DEF Means
  <2> QED BY <1>0, <2>1 DEF IdsMeanOneSegment
<1>12. TasksHaveSegments'
  BY <1>0, <1>1, <1>2, <1>3, <1>4, <1>5 DEF TasksHaveSegments, Making
<1>13. ObjectsStand'
  BY <1>0, <1>1, <1>2, <1>3, <1>4, <1>5 DEF ObjectsStand
<1>14. OneOwner'
  BY <1>0, <1>1, <1>2, <1>3, <1>4, <1>5 DEF OneOwner
<1>15. OwnersArePublished'
  <2>1. ASSUME NEW q \in Procs, NEW l \in Keys
        PROVE  /\ Owns(q, l)' => Region(q, l)' # NoSeg
               /\ Owns(q, l)' \/ IsOn(q, l, Making)' =>
                    /\ Handle(q, l)' # NoSeg
                    /\ l \notin freed' => names'[l] = Handle(q, l)'
    <3>1. CASE q = p /\ l = k
      BY <1>0, <1>2, <1>3, <1>4, <1>5, <3>1 DEF OwnersArePublished, IsOn, Making
    <3>2. CASE q # p \/ l # k
      BY <1>0, <1>2, <1>3, <1>4, <1>5, <3>2 DEF OwnersArePublished, IsOn, Making
    <3> QED BY <3>1, <3>2
  <2> QED BY <2>1 DEF OwnersArePublished
<1>16. NamesAreWanted'
  <2>1. ASSUME NEW l \in Keys, names'[l] # NoSeg, l \notin accident'
        PROVE  \E q \in Procs : Owns(q, l)' \/ IsOn(q, l, Making)'
    <3>1. PICK q \in Procs : Owns(q, l) \/ IsOn(q, l, Making)
      BY <1>0, <1>2, <1>4, <1>5, <2>1 DEF NamesAreWanted
    <3>2. Owns(q, l)' \/ IsOn(q, l, Making)'
      BY <1>0, <1>2, <1>4, <1>5, <2>1, <3>1 DEF IsOn, Making
    <3> QED BY <3>2
  <2> QED BY <2>1 DEF NamesAreWanted
<1>17. ObjectsHaveOrigin'
  BY <1>0, <1>1, <1>2, <1>3, <1>4, <1>5
  DEF ObjectsHaveOrigin, IsOn, Mailed, Searching, Making
<1>18. UnmailedIsPrivate'
  BY <1>0, <1>1, <1>2, <1>3, <1>4, <1>5 DEF UnmailedIsPrivate, Mailed
<1> QED BY <1>7, <1>8, <1>9, <1>10, <1>11, <1>12, <1>13, <1>14, <1>15, <1>16, <1>17, <1>18

(* Nobody has the name any more: the key is listed, with nothing.          *)
LEMMA NotFoundSound ==
  ASSUME ObjIInv, NEW p \in Procs, NEW m \in mail, MapNotFound(p, m.key),
         UNCHANGED <<task, lastId, objs, mail, stands, accident, freed>>
  PROVE  SessionsSound'
<1> USE DEF SessionsSound, AllKept, OthersKept, Kept
<1>0. TypeOK /\ WellFormed /\ PointersCounted /\ ObjTypeOK /\ SessionsSound
  BY ObjIInvParts
<1>1. PICK k \in Keys : k = m.key
  BY <1>0 DEF ObjTypeOK, Message
<1>2. /\ OthersKept(p, k)
      /\ Handle(p, k)' = Handle(p, k)
      /\ Region(p, k)' = Region(p, k)
      /\ Owns(p, k)' <=> Owns(p, k)
      /\ UNCHANGED <<names, mapCounter, call>>
  BY <1>0, <1>1, NotFoundEffect, EntryKeepsCounter DEF MapNotFound
<1>3. /\ ~(k > lastId)
      /\ \A q \in Procs : ~IsOn(q, k, Searching \cup Making)
  BY <1>0, <1>1 DEF IdsAreFresh, CreationIsPrivate, Mailed
<1>4. CallsMatchTasks'
  BY <1>0, <1>2, <1>3 DEF CallsMatchTasks, At, Idle, NoCall, AllocateSteps
<1>5. EveryPointerHasAFinalizer'
  BY <1>0, <1>2, <1>3 DEF EveryPointerHasAFinalizer, InFlight
<1>6. IdsAreFresh'
  BY <1>0, <1>2, <1>3 DEF IdsAreFresh, Mailed
<1>7. CreationIsPrivate'
  <2>1. ASSUME NEW q \in Procs, NEW l \in Keys, IsOn(q, l, Searching \cup Making)'
        PROVE  /\ ~Mailed(l)'
               /\ \A r \in Procs : objs'[r][l] = 0
               /\ \A r \in Procs \ {q} : ~KeyInMap(r, l)' /\ task'[r].key # l
               /\ ~Owns(q, l)'
               /\ task'[q].at \in Searching => ~KeyInMap(q, l)'
    <3>1. CASE q = p
      BY <1>0, <1>2, <1>3, <2>1, <3>1 DEF CreationIsPrivate, IsOn, Mailed, Searching, Making
    <3>2. CASE q # p
      BY <1>0, <1>2, <1>3, <2>1, <3>2 DEF CreationIsPrivate, IsOn, Mailed, Searching, Making
    <3> QED BY <3>1, <3>2
  <2> QED BY <2>1 DEF CreationIsPrivate
<1>8. IdsMeanOneSegment'
  BY <1>0, <1>2, <1>3 DEF IdsMeanOneSegment, Means
<1>9. TasksHaveSegments'
  BY <1>0, <1>2, <1>3 DEF TasksHaveSegments, Making
<1>10. ObjectsStand'
  BY <1>0, <1>2, <1>3 DEF ObjectsStand
<1>11. OneOwner'
  BY <1>0, <1>2, <1>3 DEF OneOwner
<1>12. OwnersArePublished'
  <2>1. ASSUME NEW q \in Procs, NEW l \in Keys
        PROVE  /\ Owns(q, l)' => Region(q, l)' # NoSeg
               /\ Owns(q, l)' \/ IsOn(q, l, Making)' =>
                    /\ Handle(q, l)' # NoSeg
                    /\ l \notin freed' => names'[l] = Handle(q, l)'
    <3>1. CASE q = p /\ l = k
      BY <1>0, <1>2, <3>1 DEF OwnersArePublished, IsOn, Making
    <3>2. CASE q # p \/ l # k
      BY <1>0, <1>2, <3>2 DEF OwnersArePublished, IsOn, Making
    <3> QED BY <3>1, <3>2
  <2> QED BY <2>1 DEF OwnersArePublished
<1>13. NamesAreWanted'
  <2>1. ASSUME NEW l \in Keys, names'[l] # NoSeg, l \notin accident'
        PROVE  \E q \in Procs : Owns(q, l)' \/ IsOn(q, l, Making)'
    <3>1. PICK q \in Procs : Owns(q, l) \/ IsOn(q, l, Making)
      BY <1>0, <1>2, <2>1 DEF NamesAreWanted
    <3>2. Owns(q, l)' \/ IsOn(q, l, Making)'
      BY <1>0, <1>2, <2>1, <3>1 DEF IsOn, Making
    <3> QED BY <3>2
  <2> QED BY <2>1 DEF NamesAreWanted
<1>14. ObjectsHaveOrigin'
  BY <1>0, <1>2, <1>3 DEF ObjectsHaveOrigin, IsOn, Mailed, Searching, Making
<1>15. UnmailedIsPrivate'
  BY <1>0, <1>2, <1>3 DEF UnmailedIsPrivate, Mailed
<1> QED BY <1>4, <1>5, <1>6, <1>7, <1>8, <1>9, <1>10, <1>11, <1>12, <1>13, <1>14, <1>15

(* A message is read by whichever way the registry finds.                  *)
LEMMA UnserializeSound ==
  ASSUME ObjIInv, NEW p \in Procs, NEW m \in mail, Unserialize(p, m)
  PROVE  SessionsSound'
<1>0. TypeOK /\ ObjTypeOK /\ SessionsSound
  BY ObjIInvParts
<1>1. CASE MapMapped(p, m.key) /\ Reads(p, "wrap", m)
  <2>1. m \in Message /\ m.key \in Keys /\ Mailed(m.key)
    BY <1>0 DEF ObjTypeOK, Message, Mailed
  <2>2. \A s \in Segs \cup {NoSeg} : Means(m.key, s) => m.seg = s
    BY DEF Means
  <2>3. /\ At(p, "none") /\ Idle(p) /\ AllKept
        /\ mapCounter' = [mapCounter EXCEPT ![p][m.key] = @ + 1]
        /\ UNCHANGED <<names, call, lastId, objs, mail, stands, freed, accident>>
    BY <1>1, KeepEffect DEF Unserialize, AtTopLevel, MapMapped, CountPointer
  <2> QED BY <1>0, <1>1, <2>1, <2>2, <2>3, TakesPointer
<1> QED BY <1>1, OpenSound, ReopenSound, NotFoundSound DEF Unserialize

(* A duplicate is another object on memory that is mapped.                 *)
LEMMA DuplicateSound ==
  ASSUME ObjIInv, NEW p \in Procs, NEW k \in Keys, Duplicate(p, k)
  PROVE  SessionsSound'
<1>0. TypeOK /\ ObjTypeOK /\ SessionsSound
  BY ObjIInvParts
<1>1. PICK s \in stands[p][k] : Reads(p, "wrap", [key |-> k, seg |-> s])
  BY DEF Duplicate
<1> DEFINE m == [key |-> k, seg |-> s]
<1>2. s \in Segs /\ m \in Message /\ m.key = k /\ m.seg = s
  BY <1>0, <1>1 DEF ObjTypeOK, Message
<1>3. \A x \in Segs \cup {NoSeg} : Means(k, x) => s = x
  BY <1>1 DEF Means
<1>4. /\ At(p, "none") /\ Idle(p) /\ AllKept /\ objs[p][k] > 0
      /\ mapCounter' = [mapCounter EXCEPT ![p][k] = @ + 1]
      /\ UNCHANGED <<names, call, lastId, objs, mail, stands, freed, accident>>
  BY KeepEffect DEF Duplicate, AtTopLevel, MapMapped, CountPointer
<1>5. Reads(p, "wrap", m)
  BY <1>1
<1> HIDE DEF m
<1> QED BY <1>0, <1>2, <1>3, <1>4, <1>5, TakesPointer

(* A finalizer gives its pointer back; the last one takes what is owned.   *)
LEMMA FinalizeSound ==
  ASSUME ObjIInv, NEW p \in Procs, NEW k \in Keys, Finalize(p, k)
  PROVE  SessionsSound'
<1> USE DEF SessionsSound, AllKept, OthersKept, Kept
<1>0. TypeOK /\ WellFormed /\ PointersCounted /\ ObjTypeOK /\ SessionsSound
  BY ObjIInvParts
<1>1. /\ UNCHANGED <<lastId, task, mail, accident, freed, call>>
      /\ mapCounter' = [mapCounter EXCEPT ![p][k] = @ - 1]
      /\ OthersKept(p, k)
      /\ ~KeyInMap(p, k)' \/ (Kept(p, k) /\ UNCHANGED names)
      /\ names' = IF Owns(p, k) /\ ~KeyInMap(p, k)' THEN [names EXCEPT ![k] = NoSeg] ELSE names
  <2>0. Unmap(p, k) /\ UNCHANGED <<lastId, task, mail, accident, freed>>
    BY DEF Finalize
  <2>1. CASE mapCounter[p][k] = 1
    BY <1>0, <2>0, <2>1, UnmapEffect, ObjectAssumption
  <2>2. CASE mapCounter[p][k] # 1
    <3>1. /\ AllKept /\ UNCHANGED <<names, call>> /\ KeyInMap(p, k)
          /\ mapCounter' = [mapCounter EXCEPT ![p][k] = @ - 1]
      BY <1>0, <2>0, <2>2, UnmapEffect, ObjectAssumption
    <3>2. Kept(p, k) /\ OthersKept(p, k) /\ KeyInMap(p, k)'
      BY <3>1
    <3> QED BY <2>0, <3>1, <3>2
  <2> QED BY <2>1, <2>2
<1>2. /\ objs[p][k] > 0 /\ objs'[p][k] = objs[p][k] - 1
      /\ stands'[p][k] = IF objs[p][k] = 1 THEN {} ELSE stands[p][k]
      /\ \A q \in Procs, l \in Keys : q # p \/ l # k =>
           objs'[q][l] = objs[q][l] /\ stands'[q][l] = stands[q][l]
      /\ \A q \in Procs, l \in Keys : objs[q][l] \in Nat
  BY <1>0 DEF Finalize, ObjTypeOK
<1>3. /\ ~(k > lastId)
      /\ \A q \in Procs : ~IsOn(q, k, Searching \cup Making)
  <2>1. objs[p][k] # 0
    BY <1>2
  <2> QED BY <1>0, <2>1 DEF IdsAreFresh, CreationIsPrivate
<1>4. /\ \A l \in Keys : l # k => names'[l] = names[l]
      /\ names'[k] = IF Owns(p, k) /\ ~KeyInMap(p, k)' THEN NoSeg ELSE names[k]
  BY <1>0, <1>1 DEF TypeOK
<1>5. ~KeyInMap(p, k)' => Handle(p, k)' = NoSeg /\ Region(p, k)' = NoSeg /\ ~Owns(p, k)'
  BY NotListed
<1>6. task[p].at # "reading"
  BY DEF Finalize, CollectorMayRun
<1>7. CallsMatchTasks'
  BY <1>0, <1>1 DEF CallsMatchTasks, At, AllocateSteps
<1>8. EveryPointerHasAFinalizer'
  BY <1>0, <1>1, <1>2 DEF EveryPointerHasAFinalizer, InFlight, TypeOK, ObjTypeOK
<1>9. IdsAreFresh'
  BY <1>0, <1>1, <1>2, <1>3, <1>4, <1>5 DEF IdsAreFresh, Mailed
<1>10. CreationIsPrivate'
  <2>1. ASSUME NEW q \in Procs, NEW l \in Keys, IsOn(q, l, Searching \cup Making)'
        PROVE  /\ ~Mailed(l)'
               /\ \A r \in Procs : objs'[r][l] = 0
               /\ \A r \in Procs \ {q} : ~KeyInMap(r, l)' /\ task'[r].key # l
               /\ ~Owns(q, l)'
               /\ task'[q].at \in Searching => ~KeyInMap(q, l)'
    <3>1. CASE q = p
      BY <1>0, <1>1, <1>2, <1>3, <1>4, <1>5, <2>1, <3>1
      DEF CreationIsPrivate, IsOn, Mailed, Searching, Making
    <3>2. CASE q # p
      BY <1>0, <1>1, <1>2, <1>3, <1>4, <1>5, <2>1, <3>2
      DEF CreationIsPrivate, IsOn, Mailed, Searching, Making
    <3> QED BY <3>1, <3>2
  <2> QED BY <2>1 DEF CreationIsPrivate
<1>11. IdsMeanOneSegment'
  <2>1. ASSUME NEW l \in Keys, NEW x \in Segs \cup {NoSeg}, Means(l, x)
        PROVE  Means(l, x)'
    BY <1>1, <1>2, <1>4, <1>5, <2>1 DEF Means
  <2> QED BY <1>0, <2>1 DEF IdsMeanOneSegment
<1>12. TasksHaveSegments'
  BY <1>0, <1>1, <1>2, <1>3, <1>4, <1>5 DEF TasksHaveSegments, Making
<1>13. ObjectsStand'
  BY <1>0, <1>1, <1>2, <1>3, <1>4, <1>5 DEF ObjectsStand
<1>14. OneOwner'
  BY <1>0, <1>1, <1>2, <1>3, <1>4, <1>5 DEF OneOwner
<1>15. OwnersArePublished'
  <2>1. ASSUME NEW q \in Procs, NEW l \in Keys
        PROVE  /\ Owns(q, l)' => Region(q, l)' # NoSeg
               /\ Owns(q, l)' \/ IsOn(q, l, Making)' =>
                    /\ Handle(q, l)' # NoSeg
                    /\ l \notin freed' => names'[l] = Handle(q, l)'
    <3>1. CASE q = p /\ l = k
      BY <1>0, <1>1, <1>3, <1>4, <1>5, <3>1 DEF OwnersArePublished, OneOwner, IsOn, Making
    <3>2. CASE q # p \/ l # k
      BY <1>0, <1>1, <1>3, <1>4, <1>5, <3>2 DEF OwnersArePublished, OneOwner, IsOn, Making
    <3> QED BY <3>1, <3>2
  <2> QED BY <2>1 DEF OwnersArePublished
<1>16. NamesAreWanted'
  <2>1. ASSUME NEW l \in Keys, names'[l] # NoSeg, l \notin accident'
        PROVE  \E q \in Procs : Owns(q, l)' \/ IsOn(q, l, Making)'
    <3>1. PICK q \in Procs : Owns(q, l) \/ IsOn(q, l, Making)
      BY <1>0, <1>1, <1>4, <1>5, <2>1 DEF NamesAreWanted
    <3>2. Owns(q, l)' \/ IsOn(q, l, Making)'
      BY <1>0, <1>1, <1>4, <1>5, <2>1, <3>1 DEF IsOn, Making
    <3> QED BY <3>2
  <2> QED BY <2>1 DEF NamesAreWanted
<1>17. ObjectsHaveOrigin'
  <2>0. ~KeyInMap(p, k)' => objs'[p][k] = 0 /\ ~IsOn(p, k, {"wrap"})
    <3>1. mapCounter[p][k] = objs[p][k] + InFlight(p, k)
      BY <1>0 DEF EveryPointerHasAFinalizer
    <3>2. CASE mapCounter[p][k] = 1
      BY <1>0, <1>2, <3>1, <3>2 DEF InFlight, IsOn
    <3>3. CASE mapCounter[p][k] # 1
      <4>1. Unmap(p, k)
        BY DEF Finalize
      <4> QED BY <1>0, <3>3, <4>1, UnmapEffect, ObjectAssumption
    <3> QED BY <3>2, <3>3
  <2>1. ASSUME NEW q \in Procs, NEW l \in Keys,
               objs'[q][l] > 0 \/ IsOn(q, l, {"wrap", "reading"})'
        PROVE  Owns(q, l)' \/ Mailed(l)'
    <3>1. CASE q = p /\ l = k
      BY <1>0, <1>1, <1>2, <1>5, <1>6, <2>0, <2>1, <3>1 DEF ObjectsHaveOrigin, IsOn, Mailed
    <3>2. CASE q # p \/ l # k
      BY <1>0, <1>1, <1>2, <1>5, <1>6, <2>0, <2>1, <3>2 DEF ObjectsHaveOrigin, IsOn, Mailed
    <3> QED BY <3>1, <3>2
  <2> QED BY <2>1 DEF ObjectsHaveOrigin
<1>18. UnmailedIsPrivate'
  BY <1>0, <1>1, <1>2, <1>3, <1>4, <1>5 DEF UnmailedIsPrivate, Mailed
<1> QED BY <1>7, <1>8, <1>9, <1>10, <1>11, <1>12, <1>13, <1>14, <1>15, <1>16, <1>17, <1>18

(* A user frees an id: the session has no pointer to it, so owns nothing.  *)
LEMMA FreeByIdSound ==
  ASSUME ObjIInv, NEW p \in Procs, NEW k \in Keys, FreeById(p, k)
  PROVE  SessionsSound'
<1> USE DEF SessionsSound, AllKept, OthersKept, Kept
<1>0. TypeOK /\ WellFormed /\ PointersCounted /\ ObjTypeOK /\ SessionsSound
  BY ObjIInvParts
<1>1. /\ held[p][k] = 0 /\ mapCounter[p][k] = 0 /\ objs[p][k] = 0 /\ Region(p, k) = NoSeg
      /\ ~Owns(p, k) /\ task[p].at = "none"
  <2>1. held[p][k] = 0 /\ task[p].at = "none"
    BY DEF FreeById, AtTopLevel, At
  <2>2. mapCounter[p][k] = 0 /\ Region(p, k) = NoSeg
    BY <1>0, <2>1 DEF PointersCounted, PointersStayMapped, CounterCountsPointers
  <2>3. objs[p][k] = 0
    BY <1>0, <2>1, <2>2 DEF EveryPointerHasAFinalizer, InFlight, ObjTypeOK
  <2> QED BY <1>0, <2>1, <2>2, <2>3 DEF OwnersArePublished
<1>2. /\ OthersKept(p, k)
      /\ ~KeyInMap(p, k)'
      /\ UNCHANGED <<names, lastId, task, objs, mail, stands, accident>>
      /\ freed' = freed \cup {k}
      /\ call' = [call EXCEPT ![p] = [at |-> "unlink", key |-> k]]
  BY <1>0, <1>1, FreeEffect DEF FreeById
<1>3. UNCHANGED mapCounter
  BY <1>0, <1>1 DEF FreeById, Free, TypeOK
<1>4. call'[p] = [at |-> "unlink", key |-> k] /\ \A q \in Procs \ {p} : call'[q] = call[q]
  BY <1>0, <1>2, CallGoesOn
<1>5. Handle(p, k)' = NoSeg /\ Region(p, k)' = NoSeg /\ ~Owns(p, k)'
  BY <1>2, NotListed
<1>6. CallsMatchTasks'
  BY <1>0, <1>1, <1>2, <1>4 DEF CallsMatchTasks, At, AllocateSteps
<1>7. EveryPointerHasAFinalizer'
  BY <1>0, <1>1, <1>2, <1>3, <1>5 DEF EveryPointerHasAFinalizer, InFlight
<1>8. IdsAreFresh'
  BY <1>0, <1>1, <1>2, <1>3, <1>5 DEF IdsAreFresh, Mailed
<1>9. CreationIsPrivate'
  <2>1. ASSUME NEW q \in Procs, NEW l \in Keys, IsOn(q, l, Searching \cup Making)'
        PROVE  /\ ~Mailed(l)'
               /\ \A r \in Procs : objs'[r][l] = 0
               /\ \A r \in Procs \ {q} : ~KeyInMap(r, l)' /\ task'[r].key # l
               /\ ~Owns(q, l)'
               /\ task'[q].at \in Searching => ~KeyInMap(q, l)'
    <3>1. CASE q = p
      BY <1>0, <1>1, <1>2, <1>5, <2>1, <3>1
      DEF CreationIsPrivate, IsOn, Mailed, Searching, Making
    <3>2. CASE q # p
      BY <1>0, <1>1, <1>2, <1>5, <2>1, <3>2
      DEF CreationIsPrivate, IsOn, Mailed, Searching, Making
    <3> QED BY <3>1, <3>2
  <2> QED BY <2>1 DEF CreationIsPrivate
<1>10. IdsMeanOneSegment'
  <2>1. ASSUME NEW l \in Keys, NEW x \in Segs \cup {NoSeg}, Means(l, x)
        PROVE  Means(l, x)'
    BY <1>1, <1>2, <1>5, <2>1 DEF Means
  <2> QED BY <1>0, <2>1 DEF IdsMeanOneSegment
<1>11. TasksHaveSegments'
  BY <1>0, <1>1, <1>2, <1>3, <1>5 DEF TasksHaveSegments, Making
<1>12. ObjectsStand'
  BY <1>0, <1>1, <1>2, <1>3, <1>5 DEF ObjectsStand
<1>13. OneOwner'
  BY <1>0, <1>1, <1>2, <1>3, <1>5 DEF OneOwner
<1>14. OwnersArePublished'
  <2>1. ASSUME NEW q \in Procs, NEW l \in Keys
        PROVE  /\ Owns(q, l)' => Region(q, l)' # NoSeg
               /\ Owns(q, l)' \/ IsOn(q, l, Making)' =>
                    /\ Handle(q, l)' # NoSeg
                    /\ l \notin freed' => names'[l] = Handle(q, l)'
    <3>1. CASE q = p /\ l = k
      BY <1>0, <1>1, <1>2, <1>5, <3>1 DEF OwnersArePublished, IsOn, Making
    <3>2. CASE q # p \/ l # k
      BY <1>0, <1>1, <1>2, <1>5, <3>2 DEF OwnersArePublished, IsOn, Making
    <3> QED BY <3>1, <3>2
  <2> QED BY <2>1 DEF OwnersArePublished
<1>15. NamesAreWanted'
  <2>1. ASSUME NEW l \in Keys, names'[l] # NoSeg, l \notin accident'
        PROVE  \E q \in Procs : Owns(q, l)' \/ IsOn(q, l, Making)'
    <3>1. PICK q \in Procs : Owns(q, l) \/ IsOn(q, l, Making)
      BY <1>0, <1>1, <1>2, <2>1 DEF NamesAreWanted
    <3>2. Owns(q, l)' \/ IsOn(q, l, Making)'
      BY <1>0, <1>1, <1>2, <2>1, <3>1 DEF IsOn, Making
    <3> QED BY <3>2
  <2> QED BY <2>1 DEF NamesAreWanted
<1>16. ObjectsHaveOrigin'
  BY <1>0, <1>1, <1>2, <1>3, <1>5 DEF ObjectsHaveOrigin, IsOn, Mailed, Searching, Making
<1>17. UnmailedIsPrivate'
  BY <1>0, <1>1, <1>2, <1>3, <1>5 DEF UnmailedIsPrivate, Mailed
<1> QED BY <1>6, <1>7, <1>8, <1>9, <1>10, <1>11, <1>12, <1>13, <1>14, <1>15, <1>16, <1>17

(* Its name goes, whoever wanted it.                                       *)
LEMMA RemoveNameSound ==
  ASSUME ObjIInv, NEW p \in Procs, RemoveName(p)
  PROVE  SessionsSound'
<1> USE DEF SessionsSound, AllKept, OthersKept, Kept
<1>0. TypeOK /\ WellFormed /\ PointersCounted /\ ObjTypeOK /\ SessionsSound
  BY ObjIInvParts
<1>1. /\ AllKept
      /\ call' = [call EXCEPT ![p] = NoCall]
      /\ UNCHANGED <<mapCounter, lastId, task, objs, mail, stands, accident, freed>>
  BY KeepEffect DEF RemoveName, Unlink, Return, objVars
<1>2. PICK k \in Keys : k = call[p].key /\ k \in freed /\ task[p].at = "none"
  BY <1>0 DEF RemoveName, Unlink, CallsMatchTasks, At, ObjTypeOK
<1>3. names'[k] = NoSeg /\ \A l \in Keys : l # k => names'[l] = names[l]
  BY <1>0, <1>2 DEF RemoveName, Unlink, TypeOK
<1>4. call'[p] = NoCall /\ \A q \in Procs \ {p} : call'[q] = call[q]
  BY <1>0, <1>1, CallGoesOn
<1>5. CallsMatchTasks'
  BY <1>0, <1>1, <1>2, <1>4 DEF CallsMatchTasks, At, NoCall, AllocateSteps
<1>6. EveryPointerHasAFinalizer'
  BY <1>0, <1>1, <1>2, <1>3 DEF EveryPointerHasAFinalizer, InFlight
<1>7. IdsAreFresh'
  BY <1>0, <1>1, <1>2, <1>3 DEF IdsAreFresh, Mailed
<1>8. CreationIsPrivate'
  BY <1>0, <1>1, <1>2, <1>3 DEF CreationIsPrivate, IsOn, Mailed, Searching, Making
<1>9. IdsMeanOneSegment'
  <2>1. ASSUME NEW l \in Keys, NEW x \in Segs \cup {NoSeg}, Means(l, x)
        PROVE  Means(l, x)'
    BY <1>1, <1>3, <2>1 DEF Means
  <2> QED BY <1>0, <2>1 DEF IdsMeanOneSegment
<1>10. TasksHaveSegments'
  BY <1>0, <1>1, <1>2, <1>3 DEF TasksHaveSegments, Making
<1>11. ObjectsStand'
  BY <1>0, <1>1, <1>2, <1>3 DEF ObjectsStand
<1>12. OneOwner'
  BY <1>0, <1>1, <1>2, <1>3 DEF OneOwner
<1>13. OwnersArePublished'
  <2>1. ASSUME NEW q \in Procs, NEW l \in Keys
        PROVE  /\ Owns(q, l)' => Region(q, l)' # NoSeg
               /\ Owns(q, l)' \/ IsOn(q, l, Making)' =>
                    /\ Handle(q, l)' # NoSeg
                    /\ l \notin freed' => names'[l] = Handle(q, l)'
    <3>1. CASE q = p /\ l = k
      BY <1>0, <1>1, <1>2, <1>3, <3>1 DEF OwnersArePublished, IsOn, Making
    <3>2. CASE q # p \/ l # k
      BY <1>0, <1>1, <1>2, <1>3, <3>2 DEF OwnersArePublished, IsOn, Making
    <3> QED BY <3>1, <3>2
  <2> QED BY <2>1 DEF OwnersArePublished
<1>14. NamesAreWanted'
  <2>1. ASSUME NEW l \in Keys, names'[l] # NoSeg, l \notin accident'
        PROVE  \E q \in Procs : Owns(q, l)' \/ IsOn(q, l, Making)'
    <3>1. PICK q \in Procs : Owns(q, l) \/ IsOn(q, l, Making)
      BY <1>0, <1>1, <1>3, <2>1 DEF NamesAreWanted
    <3>2. Owns(q, l)' \/ IsOn(q, l, Making)'
      BY <1>0, <1>1, <1>3, <2>1, <3>1 DEF IsOn, Making
    <3> QED BY <3>2
  <2> QED BY <2>1 DEF NamesAreWanted
<1>15. ObjectsHaveOrigin'
  BY <1>0, <1>1, <1>2, <1>3 DEF ObjectsHaveOrigin, IsOn, Mailed, Searching, Making
<1>16. UnmailedIsPrivate'
  BY <1>0, <1>1, <1>2, <1>3 DEF UnmailedIsPrivate, Mailed
<1> QED BY <1>5, <1>6, <1>7, <1>8, <1>9, <1>10, <1>11, <1>12, <1>13, <1>14, <1>15, <1>16

(* A session ends: what it alone knew is gone, and names it still wanted   *)
(* are gone or known to be left behind.                                    *)
LEMMA GoneSound ==
  ASSUME TypeOK, ObjTypeOK, SessionsSound, NEW p \in Procs, ProcessGone(p),
         SessionGone(p),
         accident \subseteq accident',
         \A k \in Keys : names'[k] # names[k] => Owns(p, k) /\ names'[k] = NoSeg,
         \A k \in Keys : names'[k] # NoSeg /\ k \notin accident' =>
           ~Owns(p, k) /\ ~IsOn(p, k, Making)
  PROVE  SessionsSound'
<1> USE DEF SessionsSound, Kept
<1>1. /\ \A q \in Procs, l \in Keys : q # p => Kept(q, l)
      /\ \A l \in Keys : ~KeyInMap(p, l)' /\ Handle(p, l)' = NoSeg /\ ~Owns(p, l)'
      /\ mapCounter' = [mapCounter EXCEPT ![p] = [k \in Keys |-> 0]]
      /\ call' = [call EXCEPT ![p] = NoCall]
  BY GoneEffect, NotListed
<1>2. /\ task'[p].at = "none" /\ task'[p].key = NoKey /\ task'[p].seg = NoSeg
      /\ \A q \in Procs \ {p} : task'[q] = task[q]
      /\ NoKey \notin Keys
  BY TaskEnds, ConstantsAssumption DEF SessionGone
<1>3. /\ \A l \in Keys : objs'[p][l] = 0 /\ stands'[p][l] = {}
      /\ \A q \in Procs \ {p} : objs'[q] = objs[q] /\ stands'[q] = stands[q]
      /\ UNCHANGED <<lastId, mail, freed>>
  BY DEF SessionGone, ObjTypeOK
<1>4. call'[p] = NoCall /\ \A q \in Procs \ {p} : call'[q] = call[q]
  BY <1>1, CallGoesOn
<1>5. \A q \in Procs, l \in Keys : mapCounter'[q][l] = IF q = p THEN 0 ELSE mapCounter[q][l]
  BY <1>1 DEF TypeOK
<1>6. CallsMatchTasks'
  BY <1>2, <1>3, <1>4 DEF CallsMatchTasks, At, NoCall, AllocateSteps
<1>7. EveryPointerHasAFinalizer'
  BY <1>2, <1>3, <1>5 DEF EveryPointerHasAFinalizer, InFlight
<1>8. IdsAreFresh'
  BY <1>1, <1>2, <1>3 DEF IdsAreFresh, Mailed
<1>9. CreationIsPrivate'
  <2>1. ASSUME NEW q \in Procs, NEW l \in Keys, IsOn(q, l, Searching \cup Making)'
        PROVE  /\ ~Mailed(l)'
               /\ \A r \in Procs : objs'[r][l] = 0
               /\ \A r \in Procs \ {q} : ~KeyInMap(r, l)' /\ task'[r].key # l
               /\ ~Owns(q, l)'
               /\ task'[q].at \in Searching => ~KeyInMap(q, l)'
    <3>1. CASE q = p
      BY <1>1, <1>2, <1>3, <2>1, <3>1 DEF CreationIsPrivate, IsOn, Mailed, Searching, Making
    <3>2. CASE q # p
      BY <1>1, <1>2, <1>3, <2>1, <3>2 DEF CreationIsPrivate, IsOn, Mailed, Searching, Making
    <3> QED BY <3>1, <3>2
  <2> QED BY <2>1 DEF CreationIsPrivate
<1>10. IdsMeanOneSegment'
  <2>1. ASSUME NEW l \in Keys, NEW x \in Segs \cup {NoSeg}, Means(l, x)
        PROVE  Means(l, x)'
    BY <1>1, <1>2, <1>3, <2>1 DEF Means
  <2> QED BY <2>1 DEF IdsMeanOneSegment
<1>11. TasksHaveSegments'
  BY <1>1, <1>2, <1>3 DEF TasksHaveSegments, Making
<1>12. ObjectsStand'
  BY <1>1, <1>2, <1>3 DEF ObjectsStand
<1>13. OneOwner'
  BY <1>1, <1>2, <1>3 DEF OneOwner
<1>14. OwnersArePublished'
  <2>1. ASSUME NEW q \in Procs \ {p}, NEW l \in Keys, Owns(q, l) \/ IsOn(q, l, Making)
        PROVE  names'[l] = names[l]
    <3>1. ~Owns(p, l)
      BY <2>1, NotListed DEF OneOwner, CreationIsPrivate, IsOn
    <3> QED BY <3>1
  <2>2. ASSUME NEW q \in Procs, NEW l \in Keys
        PROVE  /\ Owns(q, l)' => Region(q, l)' # NoSeg
               /\ Owns(q, l)' \/ IsOn(q, l, Making)' =>
                    /\ Handle(q, l)' # NoSeg
                    /\ l \notin freed' => names'[l] = Handle(q, l)'
    BY <1>1, <1>2, <1>3, <2>1 DEF OwnersArePublished, IsOn, Making
  <2> QED BY <2>2 DEF OwnersArePublished
<1>15. NamesAreWanted'
  <2>1. ASSUME NEW l \in Keys, names'[l] # NoSeg, l \notin accident'
        PROVE  \E q \in Procs : Owns(q, l)' \/ IsOn(q, l, Making)'
    <3>1. names[l] # NoSeg /\ ~Owns(p, l) /\ ~IsOn(p, l, Making)
      BY <2>1
    <3>2. PICK q \in Procs : Owns(q, l) \/ IsOn(q, l, Making)
      BY <2>1, <3>1 DEF NamesAreWanted
    <3>3. Owns(q, l)' \/ IsOn(q, l, Making)'
      BY <1>1, <1>2, <3>1, <3>2 DEF IsOn
    <3> QED BY <3>3
  <2> QED BY <2>1 DEF NamesAreWanted
<1>16. ObjectsHaveOrigin'
  BY <1>1, <1>2, <1>3 DEF ObjectsHaveOrigin, IsOn, Mailed, Searching, Making
<1>17. UnmailedIsPrivate'
  BY <1>1, <1>2, <1>3 DEF UnmailedIsPrivate, Mailed
<1> QED BY <1>6, <1>7, <1>8, <1>9, <1>10, <1>11, <1>12, <1>13, <1>14, <1>15, <1>16, <1>17

(* A normal exit unlinks what the session owns.                            *)
LEMMA QuitSound ==
  ASSUME ObjIInv, NEW p \in Procs, QuitR(p)
  PROVE  SessionsSound'
<1>0. TypeOK /\ ObjTypeOK /\ SessionsSound
  BY ObjIInvParts
<1>1. ProcessGone(p) /\ SessionGone(p) /\ UNCHANGED accident
  BY DEF QuitR, Quit
<1>2. \A k \in Keys : names'[k] = IF Owns(p, k) THEN NoSeg ELSE names[k]
  BY DEF QuitR, Quit, Owns
<1>3. \A k \in Keys : ~IsOn(p, k, Making)
  BY DEF QuitR, AtTopLevel, At, IsOn, Making
<1> QED BY <1>0, <1>1, <1>2, <1>3, GoneSound

(* A kill leaves behind what the session owned or was making.              *)
LEMMA CrashSound ==
  ASSUME ObjIInv, NEW p \in Procs, CrashR(p)
  PROVE  SessionsSound'
<1>0. TypeOK /\ ObjTypeOK /\ SessionsSound
  BY ObjIInvParts
<1>1. ProcessGone(p) /\ SessionGone(p) /\ UNCHANGED names
  BY DEF CrashR, Crash, osVars
<1>2. accident' = accident \cup {k \in Keys : Owns(p, k) \/ task[p].key = k}
  BY DEF CrashR
<1>3. \A k \in Keys : k \notin accident' => ~Owns(p, k) /\ ~IsOn(p, k, Making)
  BY <1>2 DEF IsOn
<1> QED BY <1>0, <1>1, <1>2, <1>3, GoneSound

----------------------------------------------------------------------------
(* The invariant                                                           *)

(* Sessions keep what ObjIInv says of them.                                *)
LEMMA SessionsStaySound ==
  ASSUME ObjIInv, [ObjNext]_allVars
  PROVE  SessionsSound'
<1>1. ASSUME NEW p \in Procs, Share(p)
      PROVE  SessionsSound'
  BY <1>1, TakeIdSound, ProbeIdSound, ShareAllocateSound, ShareTruncateSound,
     ShareAllocatedSound, ShareAllocateFailsSound, ErrorsSound, ShareMapSound,
     ShareMappedSound, ShareOwnSound, WrapSound DEF Share
<1>2. ASSUME NEW p \in Procs, NEW m \in mail, Unserialize(p, m)
      PROVE  SessionsSound'
  BY <1>2, UnserializeSound
<1>3. ASSUME NEW p \in Procs, NEW k \in Keys,
             Serialize(p, k) \/ Duplicate(p, k) \/ Finalize(p, k) \/ FreeById(p, k)
      PROVE  SessionsSound'
  BY <1>3, SerializeSound, DuplicateSound, FinalizeSound, FreeByIdSound
<1>4. ASSUME NEW p \in Procs,
             ReadMapped(p) \/ ReadFails(p) \/ RemoveName(p) \/ QuitR(p) \/ CrashR(p)
      PROVE  SessionsSound'
  BY <1>4, ReadMappedSound, ErrorsSound, RemoveNameSound, QuitSound, CrashSound
<1>5. CASE UNCHANGED allVars
  <2>1. SessionsSound
    BY ObjIInvParts
  <2> QED BY <1>5, <2>1
      DEF SessionsSound, CallsMatchTasks, EveryPointerHasAFinalizer, IdsAreFresh,
          CreationIsPrivate, IdsMeanOneSegment, Means, TasksHaveSegments, ObjectsStand,
          OneOwner, OwnersArePublished, NamesAreWanted, ObjectsHaveOrigin,
          UnmailedIsPrivate, At, InFlight, Mailed, IsOn, Owns,
          KeyInMap, Handle, Region, allVars, vars, objVars
<1> QED BY <1>1, <1>2, <1>3, <1>4, <1>5 DEF ObjNext

(* So do their types, given those of the registry.                         *)
LEMMA SessionsStayTyped ==
  ASSUME ObjIInv, [ObjNext]_allVars, TypeOK'
  PROVE  ObjTypeOK'
<1>0. ObjTypeOK /\ NoTask \in {NoTask}
  BY ObjIInvParts
<1> DEFINE Tasks == [at : TaskSteps, key : Keys, seg : Segs \cup {NoSeg}] \cup {NoTask}
<1>1. ASSUME NEW p \in Procs, Share(p)
      PROVE  ObjTypeOK'
  <2>1. CASE TakeId(p)
    <3>1. lastId' = lastId + 1 /\ lastId' \in 0..MaxId /\ lastId + 1 \in Keys
      BY <1>0, <2>1, ObjectAssumption DEF TakeId, ObjTypeOK
    <3>2. [at |-> "probe", key |-> lastId + 1, seg |-> NoSeg]
            \in [at : TaskSteps, key : Keys, seg : Segs \cup {NoSeg}]
      BY <3>1 DEF TaskSteps
    <3> QED BY <1>0, <2>1, <3>1, <3>2 DEF TakeId, ObjTypeOK
  <2>2. ASSUME NEW to \in TaskSteps, NextTask(p, to), task[p].at # "none"
        PROVE  task' \in [Procs -> Tasks]
    <3>1. task[p] \in [at : TaskSteps, key : Keys, seg : Segs \cup {NoSeg}]
      BY <1>0, <2>2, TaskTyped
    <3>2. [task[p] EXCEPT !.at = to] \in [at : TaskSteps, key : Keys, seg : Segs \cup {NoSeg}]
      BY <3>1
    <3> QED BY <1>0, <2>2, <3>2 DEF NextTask, ObjTypeOK
  <2>3. CASE ProbeId(p) \/ ShareAllocated(p) \/ ShareMap(p) \/ ShareMapped(p) \/ ShareOwn(p)
    <3>1. /\ task[p].at # "none"
          /\ \E to \in TaskSteps : NextTask(p, to)
          /\ UNCHANGED <<lastId, objs, mail, stands, accident, freed>>
      BY <2>3 DEF ProbeId, ShareAllocated, ShareMap, ShareMapped, ShareOwn, At, TaskSteps
    <3>2. task' \in [Procs -> Tasks]
      BY <2>2, <3>1
    <3> QED BY <1>0, <3>1, <3>2 DEF ObjTypeOK
  <2>4. ASSUME EndTask(p)
        PROVE  task' \in [Procs -> Tasks]
    BY <1>0, <2>4 DEF EndTask, ObjTypeOK
  <2>5. CASE ShareAllocate(p)
    <3>1. task[p] \in [at : TaskSteps, key : Keys, seg : Segs \cup {NoSeg}]
      BY <1>0, <2>5, TaskTyped DEF ShareAllocate, At
    <3>2. names'[task[p].key] \in Segs \cup {NoSeg}
      BY <3>1 DEF TypeOK
    <3>3. task' = [task EXCEPT ![p].at = "allocating", ![p].seg = names'[task[p].key]]
            \/ EndTask(p)
      BY <2>5 DEF ShareAllocate
    <3>4. [[task[p] EXCEPT !.at = "allocating"] EXCEPT !.seg = names'[task[p].key]]
            \in [at : TaskSteps, key : Keys, seg : Segs \cup {NoSeg}]
      BY <3>1, <3>2 DEF TaskSteps
    <3>5. task' \in [Procs -> Tasks]
      BY <1>0, <2>4, <3>3, <3>4 DEF ObjTypeOK
    <3> QED BY <1>0, <2>5, <3>5 DEF ShareAllocate, ObjTypeOK
  <2>6. CASE ShareAllocateFails(p) \/ ShareSigbus(p) \/ ShareMapFails(p)
    <3>1. task[p].key \in Keys
      BY <1>0, <2>6, TaskTyped DEF ShareAllocateFails, ShareSigbus, ShareMapFails, At
    <3>2. /\ EndTask(p)
          /\ UNCHANGED <<lastId, objs, mail, stands, freed>>
          /\ accident' \subseteq accident \cup {task[p].key}
      BY <2>6 DEF ShareAllocateFails, ShareSigbus, ShareMapFails, Accident
    <3> QED BY <1>0, <2>4, <3>1, <3>2 DEF ObjTypeOK
  <2>7. CASE ShareTruncate(p)
    BY <1>0, <2>7 DEF ShareTruncate, objVars, ObjTypeOK
  <2>8. CASE Wrap(p)
    <3>1. PICK k \in Keys : k = task[p].key /\ task[p].seg \in Segs
      BY <1>0, <2>8, TaskTyped, ObjIInvParts DEF Wrap, At, SessionsSound, TasksHaveSegments
    <3>2. objs' \in [Procs -> [Keys -> Nat]] /\ stands' \in [Procs -> [Keys -> SUBSET Segs]]
      BY <1>0, <2>8, <3>1 DEF Wrap, ObjTypeOK
    <3> QED BY <1>0, <2>4, <2>8, <3>2 DEF Wrap, ObjTypeOK
  <2> QED BY <1>1, <2>1, <2>3, <2>5, <2>6, <2>7, <2>8 DEF Share
<1>2. ASSUME NEW p \in Procs, NEW m \in Message, NEW at \in TaskSteps, Reads(p, at, m)
      PROVE  task' \in [Procs -> Tasks]
  <2>1. [at |-> at, key |-> m.key, seg |-> m.seg]
          \in [at : TaskSteps, key : Keys, seg : Segs \cup {NoSeg}]
    BY DEF Message
  <2> QED BY <1>0, <1>2, <2>1 DEF Reads, ObjTypeOK
<1>3. ASSUME NEW p \in Procs, NEW m \in mail, Unserialize(p, m)
      PROVE  ObjTypeOK'
  <2>1. m \in Message
    BY <1>0 DEF ObjTypeOK
  <2>2. UNCHANGED task \/ \E at \in TaskSteps : Reads(p, at, m)
    BY <1>3 DEF Unserialize, TaskSteps
  <2> QED BY <1>0, <1>2, <1>3, <2>1, <2>2 DEF Unserialize, ObjTypeOK
<1>4. ASSUME NEW p \in Procs, NEW k \in Keys, Duplicate(p, k)
      PROVE  ObjTypeOK'
  <2>1. PICK s \in stands[p][k] : Reads(p, "wrap", [key |-> k, seg |-> s])
    BY <1>4 DEF Duplicate
  <2>2. [key |-> k, seg |-> s] \in Message /\ "wrap" \in TaskSteps
    BY <1>0, <2>1 DEF ObjTypeOK, Message, TaskSteps
  <2>3. task' \in [Procs -> Tasks]
    BY <1>2, <2>1, <2>2
  <2> QED BY <1>0, <1>4, <2>3 DEF Duplicate, ObjTypeOK
<1>5. ASSUME NEW p \in Procs, NEW k \in Keys,
             Serialize(p, k) \/ Finalize(p, k) \/ FreeById(p, k)
      PROVE  ObjTypeOK'
  <2>1. CASE Serialize(p, k)
    <3>1. mail' \subseteq Message
      BY <1>0, <2>1 DEF Serialize, ObjTypeOK, Message
    <3> QED BY <1>0, <2>1, <3>1 DEF Serialize, ObjTypeOK
  <2>2. CASE Finalize(p, k)
    <3>1. objs' \in [Procs -> [Keys -> Nat]]
      BY <1>0, <2>2 DEF Finalize, ObjTypeOK
    <3>2. stands' \in [Procs -> [Keys -> SUBSET Segs]]
      BY <1>0, <2>2 DEF Finalize, ObjTypeOK
    <3> QED BY <1>0, <2>2, <3>1, <3>2 DEF Finalize, ObjTypeOK
  <2>3. CASE FreeById(p, k)
    BY <1>0, <2>3 DEF FreeById, ObjTypeOK
  <2> QED BY <1>5, <2>1, <2>2, <2>3
<1>6. ASSUME NEW p \in Procs, ReadMapped(p) \/ ReadFails(p)
      PROVE  ObjTypeOK'
  <2>1. task[p] \in [at : TaskSteps, key : Keys, seg : Segs \cup {NoSeg}]
    BY <1>0, <1>6, TaskTyped DEF ReadMapped, ReadFails, At
  <2>2. [task[p] EXCEPT !.at = "wrap"] \in [at : TaskSteps, key : Keys, seg : Segs \cup {NoSeg}]
    BY <2>1 DEF TaskSteps
  <2>3. task' \in [Procs -> Tasks]
    BY <1>0, <1>6, <2>2 DEF ReadMapped, ReadFails, NextTask, EndTask, ObjTypeOK
  <2> QED BY <1>0, <1>6, <2>3 DEF ReadMapped, ReadFails, ObjTypeOK
<1>7. ASSUME NEW p \in Procs, QuitR(p) \/ CrashR(p)
      PROVE  ObjTypeOK'
  <2>1. SessionGone(p) /\ accident' \subseteq Keys
    BY <1>0, <1>7 DEF QuitR, CrashR, ObjTypeOK
  <2> QED BY <1>0, <2>1 DEF SessionGone, EndTask, ObjTypeOK
<1>8. ASSUME NEW p \in Procs, RemoveName(p)
      PROVE  ObjTypeOK'
  BY <1>0, <1>8 DEF RemoveName, objVars, ObjTypeOK
<1>9. CASE UNCHANGED allVars
  BY <1>0, <1>9 DEF allVars, objVars, ObjTypeOK
<1> QED BY <1>1, <1>3, <1>4, <1>5, <1>6, <1>7, <1>8, <1>9 DEF ObjNext

(* Names that earlier sessions leaked may be around, and nothing else is.  *)
LEMMA SessionsStartSound ==
  ASSUME ObjInit
  PROVE  ObjIInv
<1>1. IInv /\ TypeOK
  BY RegistryStartsSound DEF IInv
<1>2. ObjTypeOK
  BY <1>1, ObjectAssumption DEF ObjInit, ObjTypeOK
<1>3. \A p \in Procs, k \in Keys :
        /\ ~KeyInMap(p, k) /\ Handle(p, k) = NoSeg /\ ~Owns(p, k)
        /\ task[p] = NoTask /\ task[p].key # k /\ call[p] = NoCall
        /\ objs[p][k] = 0 /\ stands[p][k] = {} /\ mapCounter[p][k] = 0
  BY NotListed, TaskStepsKnown, ConstantsAssumption DEF ObjInit, RegistryInit, KeyInMap
<1>4. SessionsSound
  <2>1. IdsMeanOneSegment
    <3>1. ASSUME NEW k \in Keys
          PROVE  names[k] \in Segs \cup {NoSeg} /\ Means(k, names[k])
      BY <1>1, <1>3 DEF ObjInit, Means, TypeOK
    <3> QED BY <3>1 DEF IdsMeanOneSegment
  <2>2. CallsMatchTasks
    BY DEF ObjInit, RegistryInit, CallsMatchTasks, At, NoTask, NoCall, AllocateSteps
  <2>3. EveryPointerHasAFinalizer /\ ObjectsStand /\ OneOwner
    BY <1>3 DEF EveryPointerHasAFinalizer, InFlight, ObjectsStand, OneOwner
  <2>6. ObjectsHaveOrigin /\ UnmailedIsPrivate
    BY <1>3 DEF ObjectsHaveOrigin, UnmailedIsPrivate, IsOn
  <2>4. IdsAreFresh /\ CreationIsPrivate /\ OwnersArePublished
    BY <1>3 DEF ObjInit, IdsAreFresh, CreationIsPrivate, OwnersArePublished, Mailed, IsOn
  <2>5. TasksHaveSegments /\ NamesAreWanted
    BY DEF ObjInit, TasksHaveSegments, NamesAreWanted, NoTask, Making
  <2> QED BY <2>1, <2>2, <2>3, <2>4, <2>5, <2>6 DEF SessionsSound
<1> QED BY <1>1, <1>2, <1>4, ObjIInvParts

(* The inductive invariant: the registry's, and what ties the objects, the *)
(* serialized ids and the functions that sessions are in the middle of to  *)
(* the registry's entries and to the names.                                *)
THEOREM ObjInductiveInvariant == ObjSpec => []ObjIInv
<1>1. ObjInit => ObjIInv
  BY SessionsStartSound
<1>2. IInv' /\ ObjTypeOK' /\ SessionsSound' => ObjIInv'
  BY ObjIInvParts, PTL
<1>3. ObjIInv /\ [ObjNext]_allVars => ObjIInv'
  <2> SUFFICES ASSUME ObjIInv, [ObjNext]_allVars
               PROVE  ObjIInv'
    OBVIOUS
  <2>1. IInv' /\ TypeOK'
    BY RegistryStaysSound DEF IInv
  <2>2. SessionsSound'
    BY SessionsStaySound
  <2>3. ObjTypeOK'
    BY <2>1, SessionsStayTyped
  <2> QED BY <1>2, <2>1, <2>2, <2>3
<1> QED BY <1>1, <1>3, PTL DEF ObjSpec

----------------------------------------------------------------------------
(* What follows from it                                                    *)

(* Every variable keeps its type: the id counter stays in range, tasks and *)
(* messages name ids and segments (altrep.cpp).                            *)
THEOREM ObjTypeCorrect == ObjSpec => []ObjTypeOK
<1>1. ObjIInv => ObjTypeOK
  BY DEF ObjIInv
<1> QED BY <1>1, ObjInductiveInvariant, PTL

(* Every pointer mapSharedMemory counted belongs to one finalizer, or to   *)
(* a constructor that is about to register it: ptrFinalizer gives back     *)
(* every pointer once.                                                     *)
THEOREM PointersAreFinalized == ObjSpec => []EveryPointerHasAFinalizer
<1>1. ObjIInv => EveryPointerHasAFinalizer
  BY DEF ObjIInv
<1> QED BY <1>1, ObjInductiveInvariant, PTL

(* Two sessions never both hold the auto-release of an id, so the memory   *)
(* is unlinked by the session that created it only.                        *)
THEOREM OwnershipIsUnique == ObjSpec => []OneOwner
<1>1. ObjIInv => OneOwner
  BY DEF ObjIInv
<1> QED BY <1>1, ObjInductiveInvariant, PTL

(* Without an accident no name is left behind that nobody will unlink.     *)
THEOREM NamesAreOwned == ObjSpec => []NoLeakedName
<1>1. ObjIInv => NoLeakedName
  BY DEF ObjIInv
<1> QED BY <1>1, ObjInductiveInvariant, PTL

(* A live object's pointer is mapped, and leads to the segment its creator *)
(* filled: an object has a counted pointer, a counted pointer a region,    *)
(* and everything that refers to an id means one segment by it.            *)
THEOREM ObjectsKeepTheirData == ObjSpec => []ObjectsReadTheirData
<1>1. ObjIInv => ObjectsReadTheirData
  <2> SUFFICES ASSUME ObjIInv, NEW p \in Procs, NEW k \in Keys, objs[p][k] > 0
               PROVE  Region(p, k) # NoSeg /\ stands[p][k] = {Region(p, k)}
    BY DEF ObjectsReadTheirData
  <2>1. held[p][k] > 0
    <3>1. mapCounter[p][k] = objs[p][k] + InFlight(p, k)
      BY DEF ObjIInv, EveryPointerHasAFinalizer
    <3>2. objs[p][k] \in Nat /\ InFlight(p, k) \in {0, 1}
      BY DEF ObjIInv, ObjTypeOK, InFlight
    <3> QED BY <3>1, <3>2 DEF ObjIInv, IInv, CounterCountsPointers
  <2>2. Region(p, k) # NoSeg /\ Region(p, k) = Handle(p, k)
    BY <2>1 DEF ObjIInv, IInv, PointersStayMapped, RegionOfHandle
  <2>3. PICK s \in Segs \cup {NoSeg} : Means(k, s)
    BY DEF ObjIInv, IdsMeanOneSegment
  <2>4. stands[p][k] # {}
    BY DEF ObjIInv, ObjectsStand
  <2> QED BY <2>2, <2>3, <2>4 DEF Means
<1> QED BY <1>1, ObjInductiveInvariant, PTL

(* The id that share() is about to allocate is not in the session's        *)
(* registry, which therefore creates memory instead of returning some.     *)
THEOREM AllocatesUnknownIds == ObjSpec => []FreshIdIsUnknown
<1>1. ObjIInv => FreshIdIsUnknown
  <2> SUFFICES ASSUME ObjIInv, NEW p \in Procs, At(p, "create")
               PROVE  ~KeyInMap(p, task[p].key)
    BY DEF FreshIdIsUnknown
  <2>1. PICK k \in Keys : k = task[p].key
    BY TaskTyped DEF ObjIInv, At
  <2> QED BY <2>1 DEF ObjIInv, CreationIsPrivate, IsOn, At, Searching
<1> QED BY <1>1, ObjInductiveInvariant, PTL

(* From its creation until share() wraps it, memory is open in the session *)
(* of its creator only.                                                    *)
THEOREM UnbornMemoryIsPrivate == ObjSpec => []PrivateUntilBorn
<1>1. ObjIInv => PrivateUntilBorn
  <2> SUFFICES ASSUME ObjIInv, NEW p \in Procs, NEW q \in Procs, p # q, task[p].at \in Making
               PROVE  ~KeyInMap(q, task[p].key)
    BY DEF PrivateUntilBorn, Making
  <2>1. PICK k \in Keys : k = task[p].key
    BY TaskTyped DEF ObjIInv, Making
  <2> QED BY <2>1 DEF ObjIInv, CreationIsPrivate, IsOn
<1> QED BY <1>1, ObjInductiveInvariant, PTL

(* While its owner has an object on it, and unless somebody freed the id,  *)
(* a serialized object can be opened by name and finds the owner's memory. *)
THEOREM OwnedMemoryCanBeOpened == ObjSpec => []PublishedWhileOwned
<1>1. ObjIInv => PublishedWhileOwned
  BY DEF ObjIInv, IInv, OwnersArePublished, PublishedWhileOwned, RegionOfHandle
<1> QED BY <1>1, ObjInductiveInvariant, PTL

=============================================================================
