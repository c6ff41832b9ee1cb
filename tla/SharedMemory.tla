---------------------------- MODULE SharedMemory ----------------------------
(***************************************************************************)
(* The shared memory registry of the package: src/src/sharedMemory.cpp and *)
(* the SharedObjectClass it stores (src/src/sharedObjectClass.cpp), run by *)
(* several R processes against one POSIX shared memory namespace.          *)
(*                                                                         *)
(* One process is single threaded, so it is inside at most one call of     *)
(* this layer.  A call is cut into several actions exactly where it makes  *)
(* a system call that another process can observe or disturb: creating the *)
(* name, sizing the segment, testing its memory, opening it and mapping    *)
(* it.  An outcome of a call (a return or a C++ exception) is an action of *)
(* its own, so that a client module can conjoin what it does next.         *)
(***************************************************************************)
EXTENDS Integers

CONSTANTS
  Procs,       \* the R processes
  Keys,        \* names of shared memory, as getKey builds them
  Segs,        \* segments (inodes) the operating system can hand out
  NoSeg,       \* a null handle, a null region, a name that does not exist
  NoEntry,     \* a key that is not in sharedObjectList
  NoKey,       \* the key of a process that is inside no call
  Sizes,       \* the sizes clients request
  MaxPtrs,     \* bound: pointers a process may hold on one key at a time
  Disciplined  \* TRUE: clients give back only pointers they hold

(***************************************************************************)
(* SharedObjectClass: the POSIX handle, the mapped region (shared_ptr is   *)
(* the address of that region, so it is null exactly when the region is),  *)
(* the size last read and whether the object may unlink the name.          *)
(***************************************************************************)
SharedObject == [handle  : Segs \cup {NoSeg},
                 region  : Segs \cup {NoSeg},
                 size    : Nat,
                 ownData : BOOLEAN]

ASSUME ConstantsAssumption ==
  /\ NoSeg \notin Segs
  /\ NoEntry \notin SharedObject
  /\ NoKey \notin Keys
  /\ Sizes \subseteq Nat
  /\ MaxPtrs \in Nat \ {0}
  /\ Disciplined \in BOOLEAN

VARIABLES
  names,             \* /dev/shm: the segment each key names (external)
  segSize,           \* the length of each segment (external)
  sharedObjectList,  \* per process: key -> SharedObject, or NoEntry
  mapCounter,        \* per process: key -> how often it has been mapped
  call,              \* the call each process is inside, and on which key
  held               \* history: pointers handed out and not given back

osVars  == <<names, segSize>>
regVars == <<sharedObjectList, mapCounter>>
vars    == <<names, segSize, sharedObjectList, mapCounter, call, held>>

(* Where a call can be interrupted by another process: before it sizes or  *)
(* tests the memory it allocates, before it maps memory it has opened, and *)
(* before it unlinks a name that it frees.                                 *)
AllocateSteps == {"truncate", "validate"}
HandleSteps   == {"mmap"} \cup AllocateSteps
CallSteps     == {"unlink"} \cup HandleSteps
NoCall        == [at |-> "idle", key |-> NoKey]

----------------------------------------------------------------------------
(* Helpers *)

KeyInMap(p, k) == sharedObjectList[p][k] # NoEntry

(* The object in this process will unlink the name when it is destroyed. *)
Owns(p, k) == KeyInMap(p, k) /\ sharedObjectList[p][k].ownData

Idle(p)         == call[p] = NoCall
Goto(p, at, k)  == call' = [call EXCEPT ![p] = [at |-> at, key |-> k]]
Return(p)       == call' = [call EXCEPT ![p] = NoCall]

(* The constructor: a size and nothing else. *)
NewObject(size) == [handle |-> NoSeg, region |-> NoSeg,
                    size |-> size, ownData |-> FALSE]

SetObject(p, k, so) == sharedObjectList' = [sharedObjectList EXCEPT ![p][k] = so]

(* hasSharedMemory: opening the name succeeds. *)
HasSharedMemory(k) == names[k] # NoSeg

(* The operating system reclaims a segment nobody names or has open. *)
InUse(s) == \/ \E k \in Keys : names[k] = s
            \/ \E p \in Procs, k \in Keys :
                  KeyInMap(p, k) /\ sharedObjectList[p][k].handle = s

(* Operators named Mut... are slips the code could contain.  No action uses *)
(* them; PROJECT.json pairs each with the definition it would replace and   *)
(* the property that then fails.                                            *)

MutSegmentSize(size) == size - 1

(* ftruncate(size > 0 ? size : 1) *)
SegmentSize(size) == IF size > 0 THEN size ELSE 1

----------------------------------------------------------------------------
(* allocateSharedMemory(size, key) *)

(* The object allocateSharedMemoryInternal works on: a new one is emplaced *)
(* before anything can fail, and stays if something does.                  *)
Emplaced(p, k, size) ==
  IF KeyInMap(p, k) THEN sharedObjectList[p][k] ELSE NewObject(size)

(* The key is registered with a smaller size: an exception, nothing done. *)
AllocateTooSmall(p, k, size) ==
  /\ Idle(p)
  /\ KeyInMap(p, k)
  /\ sharedObjectList[p][k].size < size
  /\ UNCHANGED vars

(* The key is registered and open in this process: returned as it is. *)
AllocateOpened(p, k, size) ==
  /\ Idle(p)
  /\ KeyInMap(p, k)
  /\ sharedObjectList[p][k].size >= size
  /\ sharedObjectList[p][k].handle # NoSeg
  /\ UNCHANGED vars

(* Otherwise the name is created with create_only. *)
CreatesName(p, k, size) ==
  /\ Idle(p)
  /\ KeyInMap(p, k) => /\ sharedObjectList[p][k].size >= size
                       /\ sharedObjectList[p][k].handle = NoSeg

(* The name exists already: an exception; the catch block has no handle    *)
(* to clean up, so the name stays, and so does the emplaced object.        *)
AllocateNameInUse(p, k, size) ==
  /\ CreatesName(p, k, size)
  /\ HasSharedMemory(k)
  /\ SetObject(p, k, Emplaced(p, k, size))
  /\ UNCHANGED <<names, segSize, mapCounter, call, held>>

(* open_or_create in place of create_only *)
MutAllocateCreate(p, k, size) ==
  /\ CreatesName(p, k, size)
  /\ \E s \in Segs :
        /\ IF HasSharedMemory(k) THEN s = names[k] ELSE ~InUse(s)
        /\ names' = [names EXCEPT ![k] = s]
        /\ segSize' = [segSize EXCEPT ![s] = IF HasSharedMemory(k) THEN @ ELSE 0]
        /\ SetObject(p, k, [Emplaced(p, k, size) EXCEPT !.handle = s])
  /\ Goto(p, "truncate", k)
  /\ UNCHANGED <<mapCounter, held>>

AllocateCreate(p, k, size) ==
  /\ CreatesName(p, k, size)
  /\ ~HasSharedMemory(k)
  /\ \E s \in Segs :
        /\ ~InUse(s)
        /\ names' = [names EXCEPT ![k] = s]
        /\ segSize' = [segSize EXCEPT ![s] = 0]
        /\ SetObject(p, k, [Emplaced(p, k, size) EXCEPT !.handle = s])
  /\ Goto(p, "truncate", k)
  /\ UNCHANGED <<mapCounter, held>>

Truncate(p) ==
  LET so == sharedObjectList[p][call[p].key] IN
  /\ call[p].at = "truncate"
  /\ segSize' = [segSize EXCEPT ![so.handle] = SegmentSize(so.size)]
  /\ Goto(p, "validate", call[p].key)
  /\ UNCHANGED <<names, sharedObjectList, mapCounter, held>>

(* validate_shared_memory passed: the size is read back. *)
ValidateOK(p) ==
  LET so == sharedObjectList[p][call[p].key] IN
  /\ call[p].at = "validate"
  /\ SetObject(p, call[p].key, [so EXCEPT !.size = segSize[so.handle]])
  /\ Return(p)
  /\ UNCHANGED <<names, segSize, mapCounter, held>>

(* truncate or the free memory test threw: the name is removed, whoever    *)
(* created it meanwhile, the handle is closed and the object stays listed. *)
AllocateFails(p) ==
  LET k == call[p].key IN
  /\ call[p].at \in AllocateSteps
  /\ names' = [names EXCEPT ![k] = NoSeg]
  /\ SetObject(p, k, [sharedObjectList[p][k] EXCEPT !.handle = NoSeg])
  /\ Return(p)
  /\ UNCHANGED <<segSize, mapCounter, held>>

(* memset met SIGBUS: Rf_error jumps out and nothing is cleaned up. *)
AllocateSigbus(p) ==
  /\ call[p].at = "validate"
  /\ Return(p)
  /\ UNCHANGED <<names, segSize, sharedObjectList, mapCounter, held>>

----------------------------------------------------------------------------
(* mapSharedMemory(key) *)

(* mapSharedMemoryInternal emplaces an object of size 0 and resets the     *)
(* counter when the key is new to this process.                            *)
MapCounterAtEntry(p, k) ==
  IF KeyInMap(p, k) THEN mapCounter ELSE [mapCounter EXCEPT ![p][k] = 0]

CountPointer(p, k) ==
  /\ mapCounter' = [mapCounter EXCEPT ![p][k] = @ + 1]
  /\ held' = [held EXCEPT ![p][k] = @ + 1]

(* the early return for a mapped object skips the counter *)
MutMapMapped(p, k) ==
  /\ Idle(p)
  /\ held[p][k] < MaxPtrs
  /\ KeyInMap(p, k)
  /\ sharedObjectList[p][k].region # NoSeg
  /\ held' = [held EXCEPT ![p][k] = @ + 1]
  /\ UNCHANGED <<names, segSize, sharedObjectList, mapCounter, call>>

(* Mapped already in this process: the same pointer again. *)
MapMapped(p, k) ==
  /\ Idle(p)
  /\ held[p][k] < MaxPtrs
  /\ KeyInMap(p, k)
  /\ sharedObjectList[p][k].region # NoSeg
  /\ CountPointer(p, k)
  /\ UNCHANGED <<names, segSize, sharedObjectList, call>>

(* mapping an object again without asking whether it is mapped *)
MutOpens(p, k) == Idle(p) /\ held[p][k] < MaxPtrs

(* The memory has to be opened first. *)
Opens(p, k) ==
  /\ Idle(p)
  /\ held[p][k] < MaxPtrs
  /\ Emplaced(p, k, 0).region = NoSeg
  /\ Emplaced(p, k, 0).handle = NoSeg

(* No such name: an exception, and the emplaced object stays. *)
MapNotFound(p, k) ==
  /\ Opens(p, k)
  /\ ~HasSharedMemory(k)
  /\ SetObject(p, k, Emplaced(p, k, 0))
  /\ mapCounter' = MapCounterAtEntry(p, k)
  /\ UNCHANGED <<names, segSize, call, held>>

(* the size is not read when the handle is opened *)
MutMapOpen(p, k) ==
  /\ Opens(p, k)
  /\ HasSharedMemory(k)
  /\ SetObject(p, k, [Emplaced(p, k, 0) EXCEPT !.handle = names[k]])
  /\ mapCounter' = MapCounterAtEntry(p, k)
  /\ Goto(p, "mmap", k)
  /\ UNCHANGED <<names, segSize, held>>

(* openSharedMemoryHandle: the size is read when the handle is opened. *)
MapOpen(p, k) ==
  /\ Opens(p, k)
  /\ HasSharedMemory(k)
  /\ SetObject(p, k, [Emplaced(p, k, 0) EXCEPT !.handle = names[k],
                                               !.size = segSize[names[k]]])
  /\ mapCounter' = MapCounterAtEntry(p, k)
  /\ Goto(p, "mmap", k)
  /\ UNCHANGED <<names, segSize, held>>

(* The handle is open (this process allocated the memory, or an earlier    *)
(* mapping failed): no lookup of the name.                                 *)
MapWithHandle(p, k) ==
  /\ Idle(p)
  /\ held[p][k] < MaxPtrs
  /\ KeyInMap(p, k)
  /\ sharedObjectList[p][k].region = NoSeg
  /\ sharedObjectList[p][k].handle # NoSeg
  /\ Goto(p, "mmap", k)
  /\ UNCHANGED <<names, segSize, sharedObjectList, mapCounter, held>>

(* mapped_region maps the whole segment; an empty one cannot be mapped. *)
MmapOK(p) ==
  LET k == call[p].key IN
  /\ call[p].at = "mmap"
  /\ segSize[sharedObjectList[p][k].handle] > 0
  /\ SetObject(p, k, [sharedObjectList[p][k]
                        EXCEPT !.region = sharedObjectList[p][k].handle])
  /\ CountPointer(p, k)
  /\ Return(p)
  /\ UNCHANGED <<names, segSize>>

(* An empty segment, or no address space: an exception; the handle stays. *)
MmapFails(p) ==
  /\ call[p].at = "mmap"
  /\ Return(p)
  /\ UNCHANGED <<names, segSize, sharedObjectList, mapCounter, held>>

----------------------------------------------------------------------------
(* unmapSharedMemory(key), freeSharedMemory(key), autoReleaseAfterUse *)

(* the destructor unlinks the name without asking for the ownership *)
MutErase(p, k) == /\ SetObject(p, k, NoEntry)
                  /\ names' = [names EXCEPT ![k] = NoSeg]

(* Erasing the entry runs ~SharedObjectClass: the region is unmapped, the  *)
(* handle is closed, and the name is unlinked if the object owns it.       *)
Erase(p, k) ==
  /\ SetObject(p, k, NoEntry)
  /\ names' = IF sharedObjectList[p][k].ownData
              THEN [names EXCEPT ![k] = NoSeg] ELSE names

GiveBack(p, k) ==
  held' = [held EXCEPT ![p][k] = IF @ > 0 THEN @ - 1 ELSE 0]

(* the object is released one pointer too early *)
MutUnmap(p, k) ==
  /\ Idle(p)
  /\ held[p][k] > 0
  /\ GiveBack(p, k)
  /\ IF KeyInMap(p, k)
     THEN /\ mapCounter' = [mapCounter EXCEPT ![p][k] = @ - 1]
          /\ IF mapCounter[p][k] - 1 <= 1
             THEN Erase(p, k)
             ELSE UNCHANGED <<names, sharedObjectList>>
     ELSE UNCHANGED <<names, sharedObjectList, mapCounter>>
  /\ UNCHANGED <<segSize, call>>

(* The counter of an erased key is left in mapCounter.  -MaxPtrs bounds    *)
(* how far below zero a client that is not disciplined can drive it.       *)
Unmap(p, k) ==
  /\ Idle(p)
  /\ Disciplined => held[p][k] > 0
  /\ mapCounter[p][k] > -MaxPtrs
  /\ GiveBack(p, k)
  /\ IF KeyInMap(p, k)
     THEN /\ mapCounter' = [mapCounter EXCEPT ![p][k] = @ - 1]
          /\ IF mapCounter[p][k] - 1 <= 0
             THEN Erase(p, k)
             ELSE UNCHANGED <<names, sharedObjectList>>
     ELSE UNCHANGED <<names, sharedObjectList, mapCounter>>
  /\ UNCHANGED <<segSize, call>>

(* The counter is erased only together with a registered key.  Pointers    *)
(* the caller has are void from now on ("user's responsibility").          *)
Free(p, k) ==
  /\ Idle(p)
  /\ held' = [held EXCEPT ![p][k] = 0]
  /\ IF KeyInMap(p, k)
     THEN /\ Erase(p, k)
          /\ mapCounter' = [mapCounter EXCEPT ![p][k] = 0]
     ELSE UNCHANGED <<names, sharedObjectList, mapCounter>>
  /\ Goto(p, "unlink", k)
  /\ UNCHANGED segSize

(* The name is removed, whether or not this process knew it and whoever    *)
(* has created it since its own object unlinked it.                        *)
Unlink(p) ==
  /\ call[p].at = "unlink"
  /\ names' = [names EXCEPT ![call[p].key] = NoSeg]
  /\ Return(p)
  /\ UNCHANGED <<segSize, sharedObjectList, mapCounter, held>>

(* autoReleaseAfterUse(id, own); it throws for a key that is not listed. *)
SetOwnership(p, k, own) ==
  /\ Idle(p)
  /\ KeyInMap(p, k)
  /\ SetObject(p, k, [sharedObjectList[p][k] EXCEPT !.ownData = own])
  /\ UNCHANGED <<names, segSize, mapCounter, call, held>>

----------------------------------------------------------------------------
(* The end of a process; its slot then stands for a new process. *)

ProcessGone(p) ==
  /\ sharedObjectList' = [sharedObjectList EXCEPT ![p] = [k \in Keys |-> NoEntry]]
  /\ mapCounter' = [mapCounter EXCEPT ![p] = [k \in Keys |-> 0]]
  /\ held' = [held EXCEPT ![p] = [k \in Keys |-> 0]]
  /\ Return(p)

(* the destructor unlinks the name without asking for the ownership *)
MutQuit(p) ==
  /\ Idle(p)
  /\ names' = [k \in Keys |-> IF KeyInMap(p, k) THEN NoSeg ELSE names[k]]
  /\ ProcessGone(p)
  /\ UNCHANGED segSize

(* A normal exit destroys the static sharedObjectList, every object in it  *)
(* included.                                                               *)
Quit(p) ==
  /\ Idle(p)
  /\ names' = [k \in Keys |->
                 IF KeyInMap(p, k) /\ sharedObjectList[p][k].ownData
                 THEN NoSeg ELSE names[k]]
  /\ ProcessGone(p)
  /\ UNCHANGED segSize

(* A kill at any point: the operating system closes handles and regions,   *)
(* and nobody unlinks names.                                               *)
Crash(p) == ProcessGone(p) /\ UNCHANGED osVars

----------------------------------------------------------------------------

(* No process has called the package yet. *)
RegistryInit ==
  /\ sharedObjectList = [p \in Procs |-> [k \in Keys |-> NoEntry]]
  /\ mapCounter = [p \in Procs |-> [k \in Keys |-> 0]]
  /\ call = [p \in Procs |-> NoCall]
  /\ held = [p \in Procs |-> [k \in Keys |-> 0]]

Init ==
  /\ names = [k \in Keys |-> NoSeg]
  /\ segSize = [s \in Segs |-> 0]
  /\ RegistryInit

Allocate(p) ==
  \E k \in Keys, size \in Sizes :
     \/ AllocateTooSmall(p, k, size)
     \/ AllocateOpened(p, k, size)
     \/ AllocateNameInUse(p, k, size)
     \/ AllocateCreate(p, k, size)

Map(p) ==
  \E k \in Keys :
     \/ MapMapped(p, k)
     \/ MapNotFound(p, k)
     \/ MapOpen(p, k)
     \/ MapWithHandle(p, k)

(* The rest of a call that has been started. *)
Continue(p) ==
  \/ Truncate(p)
  \/ ValidateOK(p)
  \/ AllocateFails(p)
  \/ AllocateSigbus(p)
  \/ MmapOK(p)
  \/ MmapFails(p)
  \/ Unlink(p)

Next ==
  \E p \in Procs :
     \/ Allocate(p)
     \/ Map(p)
     \/ Continue(p)
     \/ \E k \in Keys : Unmap(p, k)
     \/ \E k \in Keys : Free(p, k)
     \/ \E k \in Keys, own \in BOOLEAN : SetOwnership(p, k, own)
     \/ Quit(p)
     \/ Crash(p)

Spec == Init /\ [][Next]_vars

----------------------------------------------------------------------------
(* Properties *)

(* The value each variable may have. *)
TypeOK ==
  /\ names \in [Keys -> Segs \cup {NoSeg}]
  /\ segSize \in [Segs -> Nat]
  /\ sharedObjectList \in [Procs -> [Keys -> SharedObject \cup {NoEntry}]]
  /\ mapCounter \in [Procs -> [Keys -> Int]]
  /\ call \in [Procs -> [at : CallSteps, key : Keys] \cup {NoCall}]
  /\ held \in [Procs -> [Keys -> Nat]]

(* The segment a process can reach through its pointers for a key. *)
Region(p, k) == IF KeyInMap(p, k) THEN sharedObjectList[p][k].region ELSE NoSeg

(* A pointer that mapSharedMemory returned can be used until it is given   *)
(* back, and the last one given back takes the mapping with it: a process  *)
(* has a key's memory mapped exactly while it holds pointers to it.        *)
PointersStayMapped ==
  \A p \in Procs, k \in Keys : held[p][k] > 0 <=> Region(p, k) # NoSeg

(* sharedMemoryCounter, as listed by getSharedObjectList, is the number of *)
(* pointers outstanding, also across failed calls, zombie entries and the  *)
(* counters that unmapSharedMemoryInternal leaves behind.                  *)
CounterCountsPointers ==
  \A p \in Procs, k \in Keys : mapCounter[p][k] = held[p][k]

(* While pointers to a key are outstanding they stay pointers to the same  *)
(* segment, whoever frees and recreates the name in the meantime.          *)
PointersNeverRetargeted ==
  [][\A p \in Procs, k \in Keys :
        held[p][k] > 0 /\ held'[p][k] > 0 => Region(p, k)' = Region(p, k)]_vars

(* The size the registry reports for mapped memory never exceeds what is   *)
(* mapped, so that a client that copies that many bytes stays inside it.   *)
ReportedSizeWithinMapping ==
  \A p \in Procs, k \in Keys :
     Region(p, k) # NoSeg => sharedObjectList[p][k].size <= segSize[Region(p, k)]

(* Nobody resizes a segment that a process has mapped: the creator of a    *)
(* name is alone with the segment until it is sized.                       *)
MappedMemoryKeepsSize ==
  [][\A p \in Procs, k \in Keys :
        Region(p, k) # NoSeg => segSize'[Region(p, k)] = segSize[Region(p, k)]]_vars

(* Memory outlives the processes that only use it: a name disappears when  *)
(* it is freed explicitly, when the call that allocates it fails, or when  *)
(* an owner gives back its last pointer or exits ("The memory may still    *)
(* exist after unmapping unless you have auto release on").                *)
NamesEndWithOwner ==
  [][\A k \in Keys : names[k] # NoSeg /\ names'[k] = NoSeg =>
       \E p \in Procs :
          \/ (Unlink(p) \/ AllocateFails(p)) /\ call[p].key = k
          \/ /\ KeyInMap(p, k)
             /\ sharedObjectList[p][k].ownData
             /\ held'[p][k] = 0]_vars

(* The registry as its clients see it: the counter it reports is the number *)
(* of pointers out, the mapped region is where they lead.                   *)
Leads == [p \in Procs |-> [k \in Keys |-> Region(p, k)]]

Table == INSTANCE PointerTable WITH pointers <- mapCounter, leadsTo <- Leads

(* Through every interleaving of system calls, failures, exits and kills    *)
(* the registry is a plain table of counted pointers: one step of one       *)
(* process on one key grants, gives back or voids pointers, everything else *)
(* is invisible to the clients of mapSharedMemory and unmapSharedMemory.    *)
TableImplemented == Table!TableSpec

----------------------------------------------------------------------------
(* The inductive invariant behind the safety properties *)

Handle(p, k) == IF KeyInMap(p, k) THEN sharedObjectList[p][k].handle ELSE NoSeg

(* What is mapped was mapped from the open handle. *)
RegionOfHandle ==
  \A p \in Procs, k \in Keys : Region(p, k) # NoSeg => Region(p, k) = Handle(p, k)

(* An interrupted call that allocates or maps works on an open handle, not *)
(* mapped yet.                                                             *)
CallsHaveHandles ==
  \A p \in Procs : call[p].at \in HandleSteps =>
     /\ Handle(p, call[p].key) # NoSeg
     /\ Region(p, call[p].key) = NoSeg

Truncates(p, s) == call[p].at = "truncate" /\ Handle(p, call[p].key) = s

(* A segment that is not sized yet has one creator, and nobody maps it. *)
FreshSegmentIsPrivate ==
  \A p \in Procs, s \in Segs : Truncates(p, s) =>
     /\ segSize[s] = 0
     /\ \A q \in Procs : Truncates(q, s) => q = p
     /\ \A q \in Procs, k \in Keys : Region(q, k) # s

(* What an object says about its open segment fits, but for the creator    *)
(* who is about to size it.                                                *)
SizesFit ==
  \A p \in Procs, k \in Keys :
     Handle(p, k) # NoSeg /\ call[p] # [at |-> "truncate", key |-> k]
     => sharedObjectList[p][k].size <= segSize[Handle(p, k)]

(* The properties above together with what keeps them true step by step:   *)
(* where the calls are, who may size a segment, and which sizes are known. *)
IInv ==
  /\ TypeOK
  /\ PointersStayMapped
  /\ CounterCountsPointers
  /\ RegionOfHandle
  /\ CallsHaveHandles
  /\ FreshSegmentIsPrivate
  /\ SizesFit

----------------------------------------------------------------------------
(* What the documentation says and the code does not do *)

(* sharedMemory.h: allocating an id that has been used gives no exception  *)
(* if its size is not less than the request.                               *)
NoExceptionForUsedId ==
  [][\A p \in Procs, k \in Keys, size \in Sizes :
        AllocateNameInUse(p, k, size) => segSize[names[k]] < size]_vars

=============================================================================
