-------------------------- MODULE ObjectLifecycle --------------------------
(***************************************************************************)
(* The life of the shared ALTREP vectors of several R sessions             *)
(* (src/src/altrep.cpp, src/src/numericAltrepOperations.cpp), on top of    *)
(* the registry of SharedMemory: share() takes an id from the counter,     *)
(* allocates, maps, takes the ownership and wraps the pointer into an      *)
(* object; a serialized object carries only its id and is opened wherever  *)
(* it is read; a finalizer gives the pointer back.                         *)
(*                                                                         *)
(* The garbage collector runs finalizers when R allocates, which the       *)
(* constructors do in the middle of their work.                            *)
(* The 64 bit counter is cut at MaxId, before it wraps around; ids are     *)
(* looked up in the counter all sessions share (PkgData).                  *)
(***************************************************************************)
EXTENDS SharedMemory

CONSTANT
  MaxId      \* bound: ids the counter hands out

ASSUME ObjectAssumption ==
  /\ MaxId \in Nat
  /\ Keys = 1..MaxId
  /\ Disciplined
  /\ NoSeg \notin Procs
  /\ "nobody" \notin Procs \cup {NoSeg}

VARIABLES
  lastId,    \* the counter in shared memory
  task,      \* the package function a session is inside
  objs,      \* objects with a registered finalizer, by session and id
  mail,      \* serialized objects: anybody may read one, any number of times
  stands,    \* history: the segments the objects were made for
  accident,  \* history: ids of which a creation or an owner was cut short
  freed      \* history: ids removed with freeSharedMemory

objVars == <<lastId, task, objs, mail, stands, accident, freed>>
allVars == <<vars, objVars>>

Message == [key : Keys, seg : Segs]

(* Where the functions can be interrupted; "mapping" belongs to share,     *)
(* "reading" to readSharedObject.                                          *)
TaskSteps == {"search", "probe", "create", "allocating", "map", "mapping",
              "own", "wrap", "reading"}
NoTask == [at |-> "none", key |-> NoKey, seg |-> NoSeg]

----------------------------------------------------------------------------
(* Helpers *)

At(p, at) == task[p].at = at
NextTask(p, at) == task' = [task EXCEPT ![p].at = at]
EndTask(p) == task' = [task EXCEPT ![p] = NoTask]

(* R code runs, the collector included: between calls, and where a package *)
(* function allocates R memory (wrap(id), R_MakeExternalPtr).              *)
CollectorMayRun(p) == Idle(p) /\ task[p].at \in {"none", "map", "wrap"}

(* A session between calls of the package. *)
AtTopLevel(p) == Idle(p) /\ At(p, "none")

Accident(k) == accident' = accident \cup {k}

----------------------------------------------------------------------------
(* getNextId: take the next number, ask whether the name exists, repeat. *)

MutTakeIdPost(p) ==  \* the counter is advanced after the number is taken
  /\ Idle(p)
  /\ task[p].at \in {"none", "search"}
  /\ lastId < MaxId
  /\ lastId' = lastId + 1
  /\ task' = [task EXCEPT ![p] = [at |-> "probe", key |-> lastId, seg |-> NoSeg]]
  /\ UNCHANGED <<vars, objs, mail, stands, accident, freed>>

MutTakeId(p) ==  \* the number is read, the counter is not advanced
  /\ Idle(p)
  /\ task[p].at \in {"none", "search"}
  /\ lastId < MaxId
  /\ task' = [task EXCEPT ![p] = [at |-> "probe", key |-> lastId + 1, seg |-> NoSeg]]
  /\ UNCHANGED <<vars, lastId, objs, mail, stands, accident, freed>>

TakeId(p) ==
  /\ Idle(p)
  /\ task[p].at \in {"none", "search"}
  /\ lastId < MaxId
  /\ lastId' = lastId + 1
  /\ task' = [task EXCEPT ![p] = [at |-> "probe", key |-> lastId + 1, seg |-> NoSeg]]
  /\ UNCHANGED <<vars, objs, mail, stands, accident, freed>>

ProbeId(p) ==
  /\ At(p, "probe")
  /\ NextTask(p, IF HasSharedMemory(task[p].key) THEN "search" ELSE "create")
  /\ UNCHANGED <<vars, lastId, objs, mail, stands, accident, freed>>

----------------------------------------------------------------------------
(* createEmptySharedObject *)

(* The name may have come into being since the probe: an R error.  The     *)
(* outcomes for a key this session already lists cannot occur with an id   *)
(* the session has never seen (FreshIdIsUnknown).                          *)
ShareAllocate(p) ==
  LET k == task[p].key IN
  /\ At(p, "create")
  /\ \E size \in Sizes :
       IF HasSharedMemory(k)
       THEN AllocateNameInUse(p, k, size) /\ EndTask(p)
       ELSE /\ AllocateCreate(p, k, size)
            /\ task' = [task EXCEPT ![p].at = "allocating", ![p].seg = names'[k]]
  /\ UNCHANGED <<lastId, objs, mail, stands, accident, freed>>

ShareTruncate(p) == At(p, "allocating") /\ Truncate(p) /\ UNCHANGED objVars

ShareAllocated(p) ==
  /\ At(p, "allocating")
  /\ ValidateOK(p)
  /\ NextTask(p, "map")
  /\ UNCHANGED <<lastId, objs, mail, stands, accident, freed>>

ShareAllocateFails(p) ==
  /\ At(p, "allocating")
  /\ AllocateFails(p)
  /\ EndTask(p)
  /\ UNCHANGED <<lastId, objs, mail, stands, accident, freed>>

ShareSigbus(p) ==
  /\ At(p, "allocating")
  /\ AllocateSigbus(p)
  /\ EndTask(p)
  /\ Accident(task[p].key)
  /\ UNCHANGED <<lastId, objs, mail, stands, freed>>

ShareMap(p) ==
  /\ At(p, "map")
  /\ MapWithHandle(p, task[p].key)
  /\ NextTask(p, "mapping")
  /\ UNCHANGED <<lastId, objs, mail, stands, accident, freed>>

ShareMapped(p) ==
  /\ At(p, "mapping")
  /\ MmapOK(p)
  /\ NextTask(p, "own")
  /\ UNCHANGED <<lastId, objs, mail, stands, accident, freed>>

(* The exception leaves behind memory that nobody owns. *)
ShareMapFails(p) ==
  /\ At(p, "mapping")
  /\ MmapFails(p)
  /\ EndTask(p)
  /\ Accident(task[p].key)
  /\ UNCHANGED <<lastId, objs, mail, stands, freed>>

MutShareOwn(p) ==  \* autoReleaseAfterUse is forgotten
  /\ At(p, "own")
  /\ NextTask(p, "wrap")
  /\ UNCHANGED <<vars, lastId, objs, mail, stands, accident, freed>>

ShareOwn(p) ==
  /\ At(p, "own")
  /\ SetOwnership(p, task[p].key, TRUE)
  /\ NextTask(p, "wrap")
  /\ UNCHANGED <<lastId, objs, mail, stands, accident, freed>>

(* The external pointer, its finalizer and the ALTREP object: the end of   *)
(* createEmptySharedObject and of readSharedObject.                        *)
Wrap(p) ==
  LET k == task[p].key IN
  /\ At(p, "wrap")
  /\ objs' = [objs EXCEPT ![p][k] = @ + 1]
  /\ stands' = [stands EXCEPT ![p][k] = @ \cup {task[p].seg}]
  /\ EndTask(p)
  /\ UNCHANGED <<vars, lastId, mail, accident, freed>>

----------------------------------------------------------------------------
(* Serialization and readSharedObject *)

(* Only the id is written, and only while the name exists; otherwise a     *)
(* plain copy of the data leaves the session and this model.               *)
Serialize(p, k) ==
  /\ AtTopLevel(p)
  /\ objs[p][k] > 0
  /\ HasSharedMemory(k)
  /\ mail' = mail \cup {[key |-> k, seg |-> s] : s \in stands[p][k]}
  /\ UNCHANGED <<vars, lastId, task, objs, stands, accident, freed>>

Reads(p, at, m) == task' = [task EXCEPT ![p] = [at |-> at, key |-> m.key, seg |-> m.seg]]

MutUnserialize(p, m) ==  \* a session that has the memory mapped wraps the old pointer
  /\ AtTopLevel(p)
  /\ Region(p, m.key) # NoSeg
  /\ Reads(p, "wrap", m)
  /\ UNCHANGED <<vars, lastId, objs, mail, stands, accident, freed>>

(* Any session reads a serialized object: mapped already, opened by name,  *)
(* mapped with a handle left by a failure, or NULL with a warning.         *)
Unserialize(p, m) ==
  /\ AtTopLevel(p)
  /\ \/ MapMapped(p, m.key) /\ Reads(p, "wrap", m)
     \/ MapOpen(p, m.key) /\ Reads(p, "reading", m)
     \/ MapWithHandle(p, m.key) /\ Reads(p, "reading", m)
     \/ MapNotFound(p, m.key) /\ UNCHANGED task
  /\ UNCHANGED <<lastId, objs, mail, stands, accident, freed>>

MutReadMapped(p) ==  \* a reader takes the ownership, as the creator does
  /\ At(p, "reading")
  /\ MmapOK(p)
  /\ NextTask(p, "own")
  /\ UNCHANGED <<lastId, objs, mail, stands, accident, freed>>

ReadMapped(p) ==
  /\ At(p, "reading")
  /\ MmapOK(p)
  /\ NextTask(p, "wrap")
  /\ UNCHANGED <<lastId, objs, mail, stands, accident, freed>>

ReadFails(p) ==
  /\ At(p, "reading")
  /\ MmapFails(p)
  /\ EndTask(p)
  /\ UNCHANGED <<lastId, objs, mail, stands, accident, freed>>

(* Without copy on write a duplicate is another object on the same memory. *)
Duplicate(p, k) ==
  /\ AtTopLevel(p)
  /\ objs[p][k] > 0
  /\ MapMapped(p, k)
  /\ \E s \in stands[p][k] : Reads(p, "wrap", [key |-> k, seg |-> s])
  /\ UNCHANGED <<lastId, objs, mail, stands, accident, freed>>

----------------------------------------------------------------------------
(* The end of objects, memory and sessions *)

(* ptrFinalizer *)
Finalize(p, k) ==
  /\ CollectorMayRun(p)
  /\ objs[p][k] > 0
  /\ Unmap(p, k)
  /\ objs' = [objs EXCEPT ![p][k] = @ - 1]
  /\ stands' = IF objs[p][k] = 1 THEN [stands EXCEPT ![p][k] = {}] ELSE stands
  /\ UNCHANGED <<lastId, task, mail, accident, freed>>

(* A user removes memory by its id, from a session without objects on it   *)
(* (to do it from one that has some is the user's responsibility).         *)
FreeById(p, k) ==
  /\ AtTopLevel(p)
  /\ held[p][k] = 0
  /\ Free(p, k)
  /\ freed' = freed \cup {k}
  /\ UNCHANGED <<lastId, task, objs, mail, stands, accident>>

RemoveName(p) == Unlink(p) /\ UNCHANGED objVars

SessionGone(p) ==
  /\ EndTask(p)
  /\ objs' = [objs EXCEPT ![p] = [k \in Keys |-> 0]]
  /\ stands' = [stands EXCEPT ![p] = [k \in Keys |-> {}]]
  /\ UNCHANGED <<lastId, mail, freed>>

(* Finalizers run at exit (onexit is TRUE), then the static registry goes; *)
(* together they do what the registry's Quit does.                         *)
QuitR(p) ==
  /\ AtTopLevel(p)
  /\ Quit(p)
  /\ SessionGone(p)
  /\ UNCHANGED accident

CrashR(p) ==
  /\ Crash(p)
  /\ SessionGone(p)
  /\ accident' = accident \cup {k \in Keys : Owns(p, k) \/ task[p].key = k}

----------------------------------------------------------------------------

(* No session yet; names that earlier sessions leaked may be around, each  *)
(* with a segment of its own.                                              *)
ObjInit ==
  /\ names \in {f \in [Keys -> Segs \cup {NoSeg}] :
                  \A k, l \in Keys : k # l /\ f[k] # NoSeg => f[k] # f[l]}
  /\ segSize = [s \in Segs |-> IF \E k \in Keys : names[k] = s THEN 1 ELSE 0]
  /\ RegistryInit
  /\ lastId = 0
  /\ task = [p \in Procs |-> NoTask]
  /\ objs = [p \in Procs |-> [k \in Keys |-> 0]]
  /\ mail = {}
  /\ stands = [p \in Procs |-> [k \in Keys |-> {}]]
  /\ accident = {k \in Keys : names[k] # NoSeg}
  /\ freed = {}

(* share() *)
Share(p) ==
  \/ TakeId(p)
  \/ ProbeId(p)
  \/ ShareAllocate(p)
  \/ ShareTruncate(p)
  \/ ShareAllocated(p)
  \/ ShareAllocateFails(p)
  \/ ShareSigbus(p)
  \/ ShareMap(p)
  \/ ShareMapped(p)
  \/ ShareMapFails(p)
  \/ ShareOwn(p)
  \/ Wrap(p)

ObjNext ==
  \E p \in Procs :
     \/ Share(p)
     \/ \E k \in Keys : Serialize(p, k)
     \/ \E m \in mail : Unserialize(p, m)
     \/ ReadMapped(p)
     \/ ReadFails(p)
     \/ \E k \in Keys : Duplicate(p, k)
     \/ \E k \in Keys : Finalize(p, k)
     \/ \E k \in Keys : FreeById(p, k)
     \/ RemoveName(p)
     \/ QuitR(p)
     \/ CrashR(p)

ObjSpec == ObjInit /\ [][ObjNext]_allVars

----------------------------------------------------------------------------
(* Properties *)

(* The value each variable may have. *)
ObjTypeOK ==
  /\ TypeOK
  /\ lastId \in 0..MaxId
  /\ task \in [Procs -> [at : TaskSteps, key : Keys, seg : Segs \cup {NoSeg}] \cup {NoTask}]
  /\ objs \in [Procs -> [Keys -> Nat]]
  /\ mail \subseteq Message
  /\ stands \in [Procs -> [Keys -> SUBSET Segs]]
  /\ accident \subseteq Keys
  /\ freed \subseteq Keys

(* A live object reads the memory it was made for: its pointer is mapped,  *)
(* and to the segment its creator filled, in whatever session the object   *)
(* was unserialized and whatever happened to the name since.               *)
ObjectsReadTheirData ==
  \A p \in Procs, k \in Keys :
     objs[p][k] > 0 => /\ Region(p, k) # NoSeg
                       /\ stands[p][k] = {Region(p, k)}

(* A pointer the running function has not wrapped into an object yet. *)
InFlight(p, k) == IF task[p].key = k /\ task[p].at \in {"own", "wrap"} THEN 1 ELSE 0

(* Every pointer is given back once: the registry counts one for each      *)
(* finalizer, and one for a constructor that is about to register it, also *)
(* when the collector runs in the middle of the constructor.               *)
EveryPointerHasAFinalizer ==
  \A p \in Procs, k \in Keys : mapCounter[p][k] = objs[p][k] + InFlight(p, k)

(* getNextId never gives a session an id that its registry already lists,  *)
(* so share() cannot be handed memory it did not just create.              *)
FreshIdIsUnknown ==
  \A p \in Procs : At(p, "create") => ~KeyInMap(p, task[p].key)

(* Until share() returns, no other session has the new memory open: nobody *)
(* can see it before it is sized, zeroed and filled.                       *)
PrivateUntilBorn ==
  \A p, q \in Procs :
     /\ p # q
     /\ task[p].at \in {"allocating", "map", "mapping", "own"}
     => ~KeyInMap(q, task[p].key) \/ sharedObjectList[q][task[p].key].handle = NoSeg

(* The creator is the only session that will unlink the memory ("Create    *)
(* new shared object and make it auto release after use"): a reader that   *)
(* drops its objects or exits never takes the data away from others.       *)
OneOwner ==
  \A p, q \in Procs, k \in Keys : Owns(p, k) /\ Owns(q, k) => p = q

(* While the owner holds the object, a serialized copy of it can be opened *)
(* by name and leads to the owner's memory, unless somebody freed the id.  *)
PublishedWhileOwned ==
  \A p \in Procs, k \in Keys :
     Owns(p, k) /\ objs[p][k] > 0 /\ k \notin freed => names[k] = Region(p, k)

(* No memory is left behind: a name that exists is owned by a session with *)
(* a pointer to it or is being created, unless the creation or the owner   *)
(* was cut short (a failed mapping, SIGBUS, a crash).                      *)
NoLeakedName ==
  \A k \in Keys : names[k] # NoSeg /\ k \notin accident =>
     \E p \in Procs :
        \/ Owns(p, k) /\ held[p][k] > 0
        \/ task[p].key = k /\ task[p].at \in {"allocating", "map", "mapping", "own"}

----------------------------------------------------------------------------
(* The inductive invariant behind the properties *)

Mailed(k) == \E m \in mail : m.key = k
IsOn(p, k, steps) == task[p].key = k /\ task[p].at \in steps

(* The steps of share() before and after it has memory to work on. *)
Searching == {"search", "probe", "create"}
Making    == {"allocating", "map", "mapping", "own"}

(* A session is inside a call of the registry exactly where its task says, *)
(* on the key of its task; what it unlinks has been freed by a user.       *)
CallsMatchTasks ==
  \A p \in Procs :
    /\ At(p, "allocating") => call[p].at \in AllocateSteps /\ call[p].key = task[p].key
    /\ task[p].at \in {"mapping", "reading"} => call[p] = [at |-> "mmap", key |-> task[p].key]
    /\ call[p].at \in AllocateSteps => At(p, "allocating")
    /\ call[p].at = "mmap" => task[p].at \in {"mapping", "reading"}
    /\ call[p].at = "unlink" => At(p, "none") /\ call[p].key \in freed

(* Nobody has heard of an id that the counter has not given out. *)
IdsAreFresh ==
  \A k \in Keys : k > lastId =>
    /\ ~Mailed(k)
    /\ \A p \in Procs : ~KeyInMap(p, k) /\ objs[p][k] = 0 /\ task[p].key # k

(* Until share() has made an object of it, an id belongs to one session,   *)
(* which lists it only from the moment it allocates.                       *)
CreationIsPrivate ==
  \A p \in Procs, k \in Keys : IsOn(p, k, Searching \cup Making) =>
    /\ ~Mailed(k)
    /\ \A q \in Procs : objs[q][k] = 0
    /\ \A q \in Procs \ {p} : ~KeyInMap(q, k) /\ task[q].key # k
    /\ ~Owns(p, k)
    /\ task[p].at \in Searching => ~KeyInMap(p, k)

(* Everything that refers to an id means segment s by it. *)
Means(k, s) ==
  /\ names[k] \in {s, NoSeg}
  /\ \A p \in Procs : Handle(p, k) \in {s, NoSeg} /\ stands[p][k] \subseteq {s}
  /\ \A p \in Procs : task[p].key = k => task[p].seg \in {s, NoSeg}
  /\ \A m \in mail : m.key = k => m.seg = s

IdsMeanOneSegment == \A k \in Keys : \E s \in Segs \cup {NoSeg} : Means(k, s)

TasksHaveSegments ==
  \A p \in Procs :
    task[p].at \in Making \cup {"wrap", "reading"} => task[p].seg # NoSeg

ObjectsStand ==
  \A p \in Procs, k \in Keys : objs[p][k] = 0 <=> stands[p][k] = {}

(* A name leads to what its owner, or the session that is making it, has   *)
(* open, unless somebody freed it; an owner has the memory mapped.         *)
OwnersArePublished ==
  \A p \in Procs, k \in Keys :
    /\ Owns(p, k) => Region(p, k) # NoSeg
    /\ Owns(p, k) \/ IsOn(p, k, Making) =>
         /\ Handle(p, k) # NoSeg
         /\ k \notin freed => names[k] = Handle(p, k)

(* Memory with an object on it, or with one to come, is the session's own  *)
(* or came with a message; what was never serialized nobody else has open. *)
ObjectsHaveOrigin ==
  \A p \in Procs, k \in Keys :
    objs[p][k] > 0 \/ IsOn(p, k, {"wrap", "reading"}) => Owns(p, k) \/ Mailed(k)

UnmailedIsPrivate ==
  \A p, q \in Procs, k \in Keys :
    p # q /\ Owns(p, k) /\ ~Mailed(k) => Handle(q, k) = NoSeg

(* Together with the registry's invariant: what the properties above, and  *)
(* the implementation of BlockService, rest on, step by step.              *)
ObjIInv ==
  /\ IInv
  /\ ObjTypeOK
  /\ CallsMatchTasks
  /\ EveryPointerHasAFinalizer
  /\ IdsAreFresh
  /\ CreationIsPrivate
  /\ IdsMeanOneSegment
  /\ TasksHaveSegments
  /\ ObjectsStand
  /\ OneOwner
  /\ OwnersArePublished
  /\ NoLeakedName
  /\ ObjectsHaveOrigin
  /\ UnmailedIsPrivate

----------------------------------------------------------------------------
(* The memory as the objects see it (BlockService).  An id is a block when *)
(* an object is made for it, and as long as anybody can find it.           *)

Born(k) ==
  \/ \E p \in Procs : Owns(p, k) \/ objs[p][k] > 0
  \/ \E m \in mail : m.key = k

(* A handle that a failed mapping left in the registry counts as well: the *)
(* session can map it later without the name.                              *)
Opened(p, k) ==
  Born(k) /\ KeyInMap(p, k) /\ sharedObjectList[p][k].handle # NoSeg

OwnerOf(k) ==
  IF names[k] = NoSeg \/ ~Born(k) THEN NoSeg
  ELSE IF \E p \in Procs : Owns(p, k) THEN CHOOSE p \in Procs : Owns(p, k)
  ELSE "nobody"

ContentsOf(k) ==
  IF OwnerOf(k) # NoSeg THEN names[k]
  ELSE IF \E p \in Procs : Opened(p, k)
  THEN LET p == CHOOSE q \in Procs : Opened(q, k) IN sharedObjectList[p][k].handle
  ELSE NoSeg

Service == INSTANCE BlockService WITH
  Sessions <- Procs, Blocks <- Keys, Nothing <- NoSeg, Contents <- Segs,
  Orphan <- "nobody",
  mem <- [k \in Keys |-> ContentsOf(k)],
  owner <- [k \in Keys |-> OwnerOf(k)],
  mapped <- [p \in Procs |-> {k \in Keys : Opened(p, k)}]

(* Through all system calls, failures, collections, frees by id, exits and *)
(* kills, the registry and createEmptySharedObject give shared objects     *)
(* memory that appears at once with its contents, can be opened while it   *)
(* has its name, and neither changes nor moves while anybody has it.       *)
BlocksAsPromised == Service!ServiceSpec

=============================================================================
