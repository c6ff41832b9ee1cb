------------------------------ MODULE PkgData ------------------------------
(***************************************************************************)
(* The counter that all sessions share and the named semaphore that guards *)
(* its creation: initialPkgData, releasePkgData and auto_semophore of      *)
(* src/src/sharedMemory.cpp.  The counter is memory of the registry, under *)
(* a key of its own, so that only that key is in this module.              *)
(***************************************************************************)
EXTENDS SharedMemory

CONSTANTS
  Counter,      \* SHARED_OBJECT_COUNTER
  CounterSize,  \* sizeof(std::atomic_uint64_type)
  Sems,         \* semaphores the operating system can hand out
  NoSem,        \* a name that does not exist, a semaphore not opened
  MaxValue,     \* bound: the value of the counter
  MaxDrops,     \* bound: how often the counter's name is removed
  Faults        \* what fails: "map", "allocate", "sigbus", "kill"

ASSUME PkgAssumption ==
  /\ Keys = {Counter}
  /\ CounterSize \in Sizes \ {0}
  /\ Disciplined
  /\ NoSem \notin Sems
  /\ MaxValue \in Nat
  /\ MaxDrops \in Nat

VARIABLES
  semName,   \* the semaphore SEMAPHORE_NAME leads to (external)
  semCount,  \* the count of each semaphore (external)
  init,      \* where a session is in initialPkgData
  lastId,    \* per session: the counter it uses, or NoSeg for nullptr
  value,     \* the number in each segment
  drops,     \* history: how often the name was removed (MaxDrops at most)
  history    \* history: what else has happened to the guard
pkgVars == <<semName, semCount, init, lastId, value, drops, history>>
allVars == <<vars, pkgVars>>

(* "new" is the placement new that sets a counter this session created. *)
InitSteps == {"out", "lock", "check", "attach", "attaching", "allocate",
              "allocating", "map", "mapping", "new"}

(* sem: the semaphore a session waits for.  warned: it proceeds without    *)
(* lock.  told: the last call ended with "You must manually initial the package". *)
Out(told) == [at |-> "out", sem |-> NoSem, warned |-> FALSE, told |-> told]

----------------------------------------------------------------------------
(* Helpers *)

At(p, at) == init[p].at = at
Step(p, at) == init' = [init EXCEPT ![p].at = at]

(* Between the lock and the destructor of the guard. *)
Inside(p) == init[p].at \notin {"out", "lock"}

Happened(what) == history' = history \cup {what}
Drop == drops < MaxDrops /\ drops' = drops + 1

SemInUse(s) == semName = s \/ \E p \in Procs : init[p].sem = s

MutLeave(p, told) ==  \* the destructor does not remove the name
  /\ init' = [init EXCEPT ![p] = Out(told)]
  /\ UNCHANGED semName

(* ~auto_semophore.  locked is never set, so nothing is posted; the name   *)
(* is removed, whichever semaphore it leads to.                            *)
Leave(p, told) ==
  /\ init' = [init EXCEPT ![p] = Out(told)]
  /\ semName' = NoSem

----------------------------------------------------------------------------
(* initialPkgData: the guard *)

(* auto_semophore: open_or_create with count 1; lastId is null. *)
Begin(p) ==
  /\ Idle(p)
  /\ At(p, "out")
  /\ lastId[p] = NoSeg
  /\ \E s \in Sems :
       /\ IF semName = NoSem THEN ~SemInUse(s) ELSE s = semName
       /\ semName' = s
       /\ semCount' = IF semName = NoSem THEN [semCount EXCEPT ![s] = 1] ELSE semCount
       /\ init' = [init EXCEPT ![p] = [at |-> "lock", sem |-> s,
                                       warned |-> FALSE, told |-> @.told]]
  /\ UNCHANGED <<vars, lastId, value, drops, history>>

(* After the wait the session's handle on the semaphore has no effect any  *)
(* more (nothing is posted), so it is forgotten here.                      *)
Enter(p, warned) ==
  /\ init' = [init EXCEPT ![p].at = "check", ![p].sem = NoSem, ![p].warned = warned]
  /\ history' = IF \E q \in Procs \ {p} : Inside(q)
                THEN history \cup {"overlap"} ELSE history

MutLock(p) ==  \* the count is taken without waiting for it
  /\ At(p, "lock")
  /\ semCount' = [semCount EXCEPT ![init[p].sem] = @ - 1]
  /\ Enter(p, FALSE)
  /\ UNCHANGED <<vars, semName, lastId, value, drops>>

Lock(p) ==
  /\ At(p, "lock")
  /\ semCount[init[p].sem] > 0
  /\ semCount' = [semCount EXCEPT ![init[p].sem] = @ - 1]
  /\ Enter(p, FALSE)
  /\ UNCHANGED <<vars, semName, lastId, value, drops>>

MutLockTimesOut(p) == FALSE  \* wait in place of timed_wait

(* timed_wait gives up after three seconds: a warning, "the package will   *)
(* proceed without lock".                                                  *)
LockTimesOut(p) ==
  /\ At(p, "lock")
  /\ semCount[init[p].sem] = 0
  /\ Enter(p, TRUE)
  /\ UNCHANGED <<vars, semName, semCount, lastId, value, drops>>

Check(p) ==
  /\ At(p, "check")
  /\ Step(p, IF HasSharedMemory(Counter) THEN "attach" ELSE "allocate")
  /\ UNCHANGED <<vars, semName, semCount, lastId, value, drops, history>>

----------------------------------------------------------------------------
(* initialPkgData: a counter that exists *)

(* A session without counter has none mapped (CounterPointerValid), so the *)
(* memory has to be opened, or an earlier call left its handle.            *)
Attach(p) ==
  /\ At(p, "attach")
  /\ \/ MapOpen(p, Counter) /\ Step(p, "attaching") /\ UNCHANGED semName
     \/ MapWithHandle(p, Counter) /\ Step(p, "attaching") /\ UNCHANGED semName
     \/ MapNotFound(p, Counter) /\ Leave(p, TRUE)
  /\ UNCHANGED <<semCount, lastId, value, drops, history>>

MutAttached(p) ==  \* a counter that exists is set to 0 like a new one
  /\ At(p, "attaching")
  /\ MmapOK(p)
  /\ Step(p, "new")
  /\ UNCHANGED <<semName, semCount, lastId, value, drops, history>>

Attached(p) ==
  /\ At(p, "attaching")
  /\ MmapOK(p)
  /\ lastId' = [lastId EXCEPT ![p] = sharedObjectList[p][Counter].handle]
  /\ Leave(p, FALSE)
  /\ UNCHANGED <<semCount, value, drops, history>>

(* The mapping fails: always so for a segment that is not sized yet. *)
InitMapFails(p) ==
  /\ init[p].at \in {"attaching", "mapping"}
  /\ "map" \in Faults \/ segSize[sharedObjectList[p][Counter].handle] = 0
  /\ MmapFails(p)
  /\ Leave(p, TRUE)
  /\ UNCHANGED <<semCount, lastId, value, drops, history>>

----------------------------------------------------------------------------
(* initialPkgData: a new counter *)

(* An entry left by an earlier call makes the allocation throw (its size   *)
(* is 0) or return at once (its handle is open).                           *)
AllocateCounter(p) ==
  /\ At(p, "allocate")
  /\ \/ /\ AllocateTooSmall(p, Counter, CounterSize)
        /\ Leave(p, TRUE)
        /\ UNCHANGED value
     \/ /\ AllocateOpened(p, Counter, CounterSize)
        /\ Step(p, "map")
        /\ UNCHANGED <<semName, value>>
     \/ /\ AllocateNameInUse(p, Counter, CounterSize)
        /\ Leave(p, TRUE)
        /\ UNCHANGED value
     \/ /\ AllocateCreate(p, Counter, CounterSize)
        /\ Step(p, "allocating")
        /\ value' = [value EXCEPT ![names'[Counter]] = 0]
        /\ UNCHANGED semName
  /\ UNCHANGED <<semCount, lastId, drops, history>>

TruncateCounter(p) == At(p, "allocating") /\ Truncate(p) /\ UNCHANGED pkgVars

(* The test of the memory fills it with 0. *)
CounterAllocated(p) ==
  /\ At(p, "allocating")
  /\ ValidateOK(p)
  /\ Step(p, "map")
  /\ value' = [value EXCEPT ![sharedObjectList[p][Counter].handle] = 0]
  /\ UNCHANGED <<semName, semCount, lastId, drops, history>>

CounterFails(p) ==
  /\ "allocate" \in Faults
  /\ At(p, "allocating")
  /\ AllocateFails(p)
  /\ Leave(p, TRUE)
  /\ Drop
  /\ UNCHANGED <<semCount, lastId, value, history>>

(* Rf_error skips the destructor of the guard and the catch block. *)
CounterSigbus(p) ==
  /\ "sigbus" \in Faults
  /\ At(p, "allocating")
  /\ AllocateSigbus(p)
  /\ init' = [init EXCEPT ![p] = Out(FALSE)]
  /\ Happened("cut short")
  /\ UNCHANGED <<semName, semCount, lastId, value, drops>>

MapCounter(p) ==
  /\ At(p, "map")
  /\ MapWithHandle(p, Counter)
  /\ Step(p, "mapping")
  /\ UNCHANGED <<semName, semCount, lastId, value, drops, history>>

CounterMapped(p) ==
  /\ At(p, "mapping")
  /\ MmapOK(p)
  /\ Step(p, "new")
  /\ UNCHANGED <<semName, semCount, lastId, value, drops, history>>

NewCounter(p) ==
  LET s == Region(p, Counter) IN
  /\ At(p, "new")
  /\ value' = [value EXCEPT ![s] = 0]
  /\ lastId' = [lastId EXCEPT ![p] = s]
  /\ Leave(p, FALSE)
  /\ UNCHANGED <<vars, semCount, drops, history>>

----------------------------------------------------------------------------
(* The other operations *)

(* The increment in getNextId. *)
Increment(p) ==
  /\ Idle(p)
  /\ At(p, "out")
  /\ lastId[p] # NoSeg
  /\ value[lastId[p]] < MaxValue
  /\ value' = [value EXCEPT ![lastId[p]] = @ + 1]
  /\ UNCHANGED <<vars, semName, semCount, init, lastId, drops, history>>

MutReleasePkgData(p) ==  \* the pointer survives the memory
  /\ At(p, "out")
  /\ Free(p, Counter)
  /\ Drop
  /\ UNCHANGED <<semName, semCount, init, lastId, value, history>>

ReleasePkgData(p) ==
  /\ At(p, "out")
  /\ Free(p, Counter)
  /\ lastId' = [lastId EXCEPT ![p] = NoSeg]
  /\ Drop
  /\ UNCHANGED <<semName, semCount, init, value, history>>

RemoveCounterName(p) == Unlink(p) /\ UNCHANGED pkgVars

QuitSession(p) ==
  /\ At(p, "out")
  /\ Quit(p)
  /\ lastId' = [lastId EXCEPT ![p] = NoSeg]
  /\ init' = [init EXCEPT ![p] = Out(FALSE)]
  /\ UNCHANGED <<semName, semCount, value, drops, history>>

CrashSession(p) ==
  /\ "kill" \in Faults
  /\ Crash(p)
  /\ lastId' = [lastId EXCEPT ![p] = NoSeg]
  /\ init' = [init EXCEPT ![p] = Out(FALSE)]
  /\ history' = IF At(p, "out") THEN history ELSE history \cup {"cut short"}
  /\ UNCHANGED <<semName, semCount, value, drops>>

----------------------------------------------------------------------------

PkgInit ==
  /\ Init
  /\ semName = NoSem
  /\ semCount = [s \in Sems |-> 0]
  /\ init = [p \in Procs |-> Out(FALSE)]
  /\ lastId = [p \in Procs |-> NoSeg]
  /\ value = [s \in Segs |-> 0]
  /\ drops = 0
  /\ history = {}

(* The rest of a call of initialPkgData. *)
ContinueInit(p) ==
  \/ Lock(p)
  \/ LockTimesOut(p)
  \/ Check(p)
  \/ Attach(p)
  \/ Attached(p)
  \/ InitMapFails(p)
  \/ AllocateCounter(p)
  \/ TruncateCounter(p)
  \/ CounterAllocated(p)
  \/ CounterFails(p)
  \/ CounterSigbus(p)
  \/ MapCounter(p)
  \/ CounterMapped(p)
  \/ NewCounter(p)

PkgNext ==
  \E p \in Procs :
     \/ Begin(p)
     \/ ContinueInit(p)
     \/ Increment(p)
     \/ ReleasePkgData(p)
     \/ RemoveCounterName(p)
     \/ QuitSession(p)
     \/ CrashSession(p)

PkgSpec == PkgInit /\ [][PkgNext]_allVars

(* A session that has been told to initialize the package does it. *)
Retry(p) == init[p].told /\ Begin(p)

(* A started call runs on: its system calls return, timed_wait included. *)
RunsOn(p) == ContinueInit(p) \/ RemoveCounterName(p)

FairPkgSpec ==
  /\ PkgSpec
  /\ \A p \in Procs : WF_allVars(RunsOn(p)) /\ WF_allVars(Retry(p))

----------------------------------------------------------------------------
(* Properties *)

(* The value each variable may have.  history holds "overlap" once two     *)
(* sessions were inside the guard together, "cut short" once a session     *)
(* ended inside the guard without running its destructor.                  *)
PkgTypeOK ==
  /\ TypeOK
  /\ semName \in Sems \cup {NoSem}
  /\ semCount \in [Sems -> 0..1]
  /\ init \in [Procs -> [at : InitSteps, sem : Sems \cup {NoSem},
                         warned : BOOLEAN, told : BOOLEAN]]
  /\ lastId \in [Procs -> Segs \cup {NoSeg}]
  /\ value \in [Segs -> 0..MaxValue]
  /\ drops \in 0..MaxDrops
  /\ history \subseteq {"overlap", "cut short"}

(* The pointer lastId can be dereferenced while it is not null, through    *)
(* failures, drops and retries, and a session that has no counter holds    *)
(* no mapping of one either, except for the moment before placement new.   *)
CounterPointerValid ==
  \A p \in Procs :
     Region(p, Counter) = IF At(p, "new") THEN sharedObjectList[p][Counter].handle
                          ELSE lastId[p]

(* All sessions that have a counter have the same one, the one new         *)
(* sessions will find, unless its name was removed: by releasePkgData or   *)
(* by the cleanup of an allocation that failed.                            *)
OneCounter ==
  drops = 0 =>
     \A p \in Procs : lastId[p] # NoSeg => lastId[p] = names[Counter]

(* The counter new sessions will find never goes back while it is in use,  *)
(* so ids are not handed out twice: the zero fill and the placement new of *)
(* its creator come before anybody increments it, unless two sessions were *)
(* inside the guard together.  A counter that has lost its name may: whose *)
(* call failed after opening it can take it for a new one.                 *)
CounterNeverRewinds ==
  [][\A p \in Procs :
        /\ lastId[p] # NoSeg
        /\ lastId[p] = names[Counter]
        /\ value'[lastId[p]] < value[lastId[p]]
        => "overlap" \in history]_allVars

(* No semaphore is left in the system with nobody to use it, unless a      *)
(* session ended inside the guard: whoever comes next finds a fresh lock.  *)
NoSemaphoreLeft ==
  semName # NoSem /\ "cut short" \notin history =>
     \E p \in Procs : ~At(p, "out")

(* Every call of initialPkgData returns, whatever happened to the session  *)
(* that had the lock.                                                      *)
InitReturns == \A p \in Procs : ~At(p, "out") ~> At(p, "out")

----------------------------------------------------------------------------
(* The inductive invariant behind the safety properties *)

(* A session is inside a call of the registry exactly where its            *)
(* initialization says; a name is unlinked by releasePkgData only.         *)
CallsMatchInit ==
  \A p \in Procs :
    /\ call[p].at \in AllocateSteps <=> At(p, "allocating")
    /\ call[p].at = "mmap" <=> init[p].at \in {"attaching", "mapping"}
    /\ call[p].at = "unlink" => At(p, "out") /\ drops > 0

(* initialPkgData works for a session without counter, and on memory that  *)
(* it has opened.                                                          *)
InitFindsNoCounter ==
  \A p \in Procs :
    /\ ~At(p, "out") => lastId[p] = NoSeg
    /\ At(p, "new") => Region(p, Counter) # NoSeg

(* No session will unlink the counter when it exits. *)
NobodyOwnsCounter == \A p \in Procs : ~Owns(p, Counter)

(* Every handle on a counter, also one a failed call has left, leads where *)
(* its name leads, until the name is removed.                              *)
HandlesAgree ==
  drops = 0 => \A p \in Procs : Handle(p, Counter) \in {names[Counter], NoSeg}

(* As long as no two sessions have been inside the guard together, whoever *)
(* makes a counter is alone, and has found no name; if it takes up memory  *)
(* that others use, the name that led them there is gone.                  *)
MakerIsAlone ==
  "overlap" \notin history =>
    /\ \A p, q \in Procs : Inside(p) /\ Inside(q) => p = q
    /\ \A p \in Procs : At(p, "allocate") => names[Counter] = NoSeg
    /\ \A p, q \in Procs :
         /\ init[p].at \in {"allocating", "map", "mapping", "new"}
         /\ lastId[q] # NoSeg
         /\ lastId[q] = names[Counter]
         => Handle(p, Counter) # lastId[q]

PkgIInv ==
  /\ IInv
  /\ PkgTypeOK
  /\ CallsMatchInit
  /\ InitFindsNoCounter
  /\ CounterPointerValid
  /\ NobodyOwnsCounter
  /\ HandlesAgree
  /\ MakerIsAlone
  /\ NoSemaphoreLeft

----------------------------------------------------------------------------
(* What the documentation says and the code does not do *)

(* "Process lock guard": a session that gets the lock is alone inside, as  *)
(* long as no wait has run out while another session was inside.           *)
GuardExcludes ==
  [][\A p \in Procs : Lock(p) /\ "overlap" \notin history =>
        \A q \in Procs \ {p} : ~Inside(q)]_allVars

(* "You must manually initial the package": a session that was told so and *)
(* keeps doing it succeeds in the end (or quits).                          *)
ManualInitSucceeds == \A p \in Procs : init[p].told ~> ~init[p].told

=============================================================================
