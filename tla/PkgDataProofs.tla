---------------------------- MODULE PkgDataProofs ----------------------------
(***************************************************************************)
(* Proofs about PkgData, for any number of sessions and any failures: the  *)
(* counter's pointer is valid, sessions agree on the counter, and it does  *)
(* not go back.  They rest on the inductive invariant PkgIInv, and on that *)
(* of the registry, of which the package is a disciplined client.          *)
(***************************************************************************)
EXTENDS PkgData, RegistryEffects

----------------------------------------------------------------------------
(* The package is a client of the registry *)

(* Every step of a session is a step of the registry or leaves it alone.   *)
LEMMA PackageUsesTheRegistry ==
  ASSUME [PkgNext]_allVars
  PROVE  [Next]_vars
<1>1. CASE UNCHANGED allVars
  BY <1>1 DEF allVars, vars
<1>2. ASSUME NEW p \in Procs,
             Begin(p) \/ Lock(p) \/ LockTimesOut(p) \/ Check(p) \/ NewCounter(p) \/ Increment(p)
      PROVE  [Next]_vars
  BY <1>2 DEF Begin, Lock, LockTimesOut, Check, NewCounter, Increment
<1>3. ASSUME NEW p \in Procs, Attach(p) \/ AllocateCounter(p) \/ MapCounter(p)
      PROVE  [Next]_vars
  BY <1>3, PkgAssumption DEF Attach, AllocateCounter, MapCounter, Next, Allocate, Map
<1>4. ASSUME NEW p \in Procs,
             \/ Attached(p) \/ InitMapFails(p) \/ TruncateCounter(p) \/ CounterAllocated(p)
             \/ CounterFails(p) \/ CounterSigbus(p) \/ CounterMapped(p) \/ RemoveCounterName(p)
      PROVE  [Next]_vars
  BY <1>4 DEF Attached, InitMapFails, TruncateCounter, CounterAllocated, CounterFails,
     CounterSigbus, CounterMapped, RemoveCounterName, Next, Continue
<1>5. ASSUME NEW p \in Procs, ReleasePkgData(p) \/ QuitSession(p) \/ CrashSession(p)
      PROVE  [Next]_vars
  BY <1>5, PkgAssumption DEF ReleasePkgData, QuitSession, CrashSession, Next
<1> QED BY <1>1, <1>2, <1>3, <1>4, <1>5 DEF PkgNext, ContinueInit

(* The registry starts in a state of its invariant, and stays in it.       *)
LEMMA RegistryIsSound ==
  /\ PkgInit => IInv
  /\ IInv /\ [PkgNext]_allVars => IInv'
<1>1. PkgInit => IInv
  <2> SUFFICES ASSUME PkgInit
               PROVE  IInv
    OBVIOUS
  <2>1. TypeOK
    BY ConstantsAssumption DEF PkgInit, Init, RegistryInit, TypeOK
  <2>2. PointersStayMapped /\ CounterCountsPointers /\ RegionOfHandle /\ SizesFit
    BY DEF PkgInit, Init, RegistryInit, PointersStayMapped, CounterCountsPointers,
       RegionOfHandle, SizesFit, Region, Handle, KeyInMap
  <2>3. CallsHaveHandles /\ FreshSegmentIsPrivate
    BY DEF PkgInit, Init, RegistryInit, CallsHaveHandles, FreshSegmentIsPrivate, Truncates,
       NoCall, HandleSteps, AllocateSteps
  <2> QED BY <2>1, <2>2, <2>3 DEF IInv
<1>2. IInv /\ [PkgNext]_allVars => IInv'
  BY PackageUsesTheRegistry, RegistrySoundStep, PkgAssumption
<1> QED BY <1>1, <1>2

----------------------------------------------------------------------------
(* The invariant, session by session *)

(* What PkgIInv says of one session. *)
Local(p) ==
  /\ call[p].at \in AllocateSteps <=> At(p, "allocating")
  /\ call[p].at = "mmap" <=> init[p].at \in {"attaching", "mapping"}
  /\ call[p].at = "unlink" => At(p, "out") /\ drops > 0
  /\ ~At(p, "out") => lastId[p] = NoSeg
  /\ At(p, "new") => Region(p, Counter) # NoSeg
  /\ ~At(p, "new") => Region(p, Counter) = lastId[p]
  /\ ~Owns(p, Counter)

AllLocal == \A p \in Procs : Local(p)

(* The mapped memory is that of the handle, so "new" says no more of it.   *)
LEMMA PkgIInvParts ==
  PkgIInv <=> /\ IInv
              /\ PkgTypeOK
              /\ AllLocal
              /\ HandlesAgree
              /\ MakerIsAlone
              /\ NoSemaphoreLeft
<1>1. ASSUME IInv, NEW p \in Procs, Region(p, Counter) # NoSeg
      PROVE  Region(p, Counter) = sharedObjectList[p][Counter].handle
  <2>1. Counter \in Keys
    BY PkgAssumption
  <2> QED BY <1>1, <2>1 DEF IInv, RegionOfHandle, Region, Handle
<1> QED BY <1>1 DEF PkgIInv, AllLocal, Local, CallsMatchInit, InitFindsNoCounter,
           CounterPointerValid, NobodyOwnsCounter

(* The same, of the state after a step.                                    *)
LEMMA PkgIInvPartsNext ==
  PkgIInv' <=> /\ IInv'
               /\ PkgTypeOK'
               /\ AllLocal'
               /\ HandlesAgree'
               /\ MakerIsAlone'
               /\ NoSemaphoreLeft'
BY PkgIInvParts, PTL

(* The sessions that p does not act for. *)
OthersStill(p) ==
  \A q \in Procs \ {p} :
    /\ Kept(q, Counter)
    /\ init'[q] = init[q]
    /\ lastId'[q] = lastId[q]
    /\ call'[q] = call[q]

(* A session makes a counter. *)
Makes(p) == init[p].at \in {"allocating", "map", "mapping", "new"}

(* A step of p leaves the others alone; takes its handle from the name, or *)
(* names what it opens; makes a name or gets a counter only inside the     *)
(* guard; enters alone unless it is an overlap; makes a counter only where *)
(* nobody uses it; and leaves without a semaphore, or cut short.           *)
StepBy(p) ==
  /\ OthersStill(p)
  /\ Local(p)'
  /\ drops \in Nat /\ drops' \in {drops, drops + 1}
  /\ history \subseteq history'
  /\ \/ drops' > 0
     \/ names'[Counter] = names[Counter]
        /\ Handle(p, Counter)' \in {Handle(p, Counter), names[Counter], NoSeg}
     \/ names[Counter] = NoSeg /\ Handle(p, Counter)' = names'[Counter]
  /\ names'[Counter] \in {names[Counter], NoSeg} \/ At(p, "allocate")
  /\ lastId'[p] \in {lastId[p], NoSeg} \/ Inside(p)
  /\ "overlap" \notin history' =>
       /\ Inside(p)' => Inside(p) \/ \A q \in Procs \ {p} : ~Inside(q)
       /\ At(p, "allocate")' => names'[Counter] = NoSeg
       /\ Makes(p)' => \A q \in Procs \ {p} :
            lastId[q] # NoSeg /\ lastId[q] = names'[Counter] => Handle(p, Counter)' # lastId[q]
  /\ \/ semName' = NoSem
     \/ ~At(p, "out")'
     \/ "cut short" \in history'
     \/ At(p, "out") /\ semName' = semName

(* Such a step keeps the invariant.                                        *)
LEMMA StepKeepsInvariant ==
  ASSUME PkgIInv, IInv', PkgTypeOK', NEW p \in Procs, StepBy(p)
  PROVE  PkgIInv'
<1>1. /\ \A q \in Procs : Local(q)
      /\ HandlesAgree /\ MakerIsAlone /\ NoSemaphoreLeft
  BY PkgIInvParts DEF AllLocal
<1>2. drops \in Nat /\ (drops' = drops \/ drops' = drops + 1)
  BY DEF StepBy
<1>3. (drops > 0 => drops' > 0) /\ (drops' = 0 => drops = 0 /\ ~(drops' > 0))
  BY <1>2
<1>4. ASSUME NEW q \in Procs
      PROVE  Local(q)'
  <2>1. CASE q = p
    BY <2>1 DEF StepBy, Local, At, Region, KeyInMap, Owns
  <2>2. CASE q # p
    <3>1. /\ Kept(q, Counter) /\ init'[q] = init[q] /\ lastId'[q] = lastId[q]
          /\ call'[q] = call[q] /\ (drops > 0 => drops' > 0)
      BY <2>2, <1>3 DEF StepBy, OthersStill
    <3> QED BY <1>1, <3>1 DEF Local, Kept, At
  <2> QED BY <2>1, <2>2
<1>5. HandlesAgree'
  <2> SUFFICES ASSUME drops' = 0, NEW q \in Procs
               PROVE  Handle(q, Counter)' \in {names'[Counter], NoSeg}
    BY DEF HandlesAgree
  <2>1. drops = 0 /\ Handle(q, Counter) \in {names[Counter], NoSeg}
        /\ Handle(p, Counter) \in {names[Counter], NoSeg}
    BY <1>1, <1>3 DEF HandlesAgree
  <2>2. CASE q = p
    BY <2>1, <2>2, <1>3 DEF StepBy, Handle, KeyInMap
  <2>3. CASE q # p
    <3>1. Handle(q, Counter)' = Handle(q, Counter)
      BY <2>3 DEF StepBy, OthersStill, Kept
    <3> QED BY <2>1, <3>1, <1>3 DEF StepBy
  <2> QED BY <2>2, <2>3
<1>6. MakerIsAlone'
  <2> SUFFICES ASSUME "overlap" \notin history'
               PROVE  /\ \A q, r \in Procs : Inside(q)' /\ Inside(r)' => q = r
                      /\ \A q \in Procs : At(q, "allocate")' => names'[Counter] = NoSeg
                      /\ \A q, r \in Procs :
                           Makes(q)' /\ lastId'[r] # NoSeg /\ lastId'[r] = names'[Counter]
                           => Handle(q, Counter)' # lastId'[r]
    BY DEF MakerIsAlone, Makes
  <2>1. /\ \A q, r \in Procs : Inside(q) /\ Inside(r) => q = r
        /\ \A q \in Procs : At(q, "allocate") => names[Counter] = NoSeg
        /\ \A q, r \in Procs :
             Makes(q) /\ lastId[r] # NoSeg /\ lastId[r] = names[Counter]
             => Handle(q, Counter) # lastId[r]
    BY <1>1 DEF StepBy, MakerIsAlone, Makes
  <2>2. \A q \in Procs \ {p} : /\ Inside(q)' <=> Inside(q)
                               /\ At(q, "allocate")' <=> At(q, "allocate")
                               /\ Makes(q)' <=> Makes(q)
                               /\ Handle(q, Counter)' = Handle(q, Counter)
                               /\ lastId'[q] = lastId[q]
    BY DEF StepBy, OthersStill, Inside, At, Makes, Kept
  <2>3. \A q \in Procs : /\ At(q, "allocate") \/ Makes(q) => Inside(q)
                         /\ At(q, "allocate")' \/ Makes(q)' => Inside(q)'
    BY DEF At, Makes, Inside
  <2>4. \A q, r \in Procs : Inside(q)' /\ Inside(r)' => q = r
    BY <2>1, <2>2 DEF StepBy
  <2>5. ASSUME NEW q \in Procs, At(q, "allocate")'
        PROVE  names'[Counter] = NoSeg
    <3>1. CASE q = p
      BY <2>5, <3>1 DEF StepBy
    <3>2. CASE q # p
      <4>1. At(q, "allocate") /\ ~Inside(p) /\ names[Counter] = NoSeg
        BY <2>1, <2>2, <2>3, <2>5, <3>2
      <4> QED BY <2>3, <4>1 DEF StepBy
    <3> QED BY <3>1, <3>2
  <2>6. ASSUME NEW q \in Procs, NEW r \in Procs,
               Makes(q)', lastId'[r] # NoSeg, lastId'[r] = names'[Counter]
        PROVE  Handle(q, Counter)' # lastId'[r]
    <3>1. CASE q = p
      <4>1. r # p
        <5>1. lastId'[p] = NoSeg
          BY <2>6, <3>1 DEF StepBy, Local, At, Makes
        <5> QED BY <2>6, <5>1
      <4> QED BY <2>2, <2>6, <3>1, <4>1 DEF StepBy
    <3>2. CASE q # p
      <4>1. Makes(q) /\ ~Inside(p) /\ names'[Counter] \in {names[Counter], NoSeg}
        BY <2>1, <2>2, <2>3, <2>6, <3>2 DEF StepBy
      <4>2. lastId'[r] = lastId[r]
        BY <2>2, <2>6, <4>1 DEF StepBy
      <4> QED BY <2>1, <2>2, <2>6, <3>2, <4>1, <4>2
    <3> QED BY <3>1, <3>2
  <2> QED BY <2>4, <2>5, <2>6
<1>7. NoSemaphoreLeft'
  <2> SUFFICES ASSUME semName' # NoSem, "cut short" \notin history', At(p, "out")'
               PROVE  \E q \in Procs : ~At(q, "out")'
    BY DEF NoSemaphoreLeft
  <2>1. PICK q \in Procs : ~At(q, "out")
    BY <1>1 DEF StepBy, NoSemaphoreLeft
  <2>2. q # p /\ ~At(q, "out")'
    BY <2>1 DEF StepBy, OthersStill, At
  <2> QED BY <2>2
<1> QED BY <1>4, <1>5, <1>6, <1>7, PkgIInvPartsNext DEF AllLocal

----------------------------------------------------------------------------
(* Every action is such a step *)

(* What the lemmas below take from the invariant.                          *)
LEMMA Facts ==
  ASSUME PkgIInv, NEW p \in Procs
  PROVE  /\ IInv /\ TypeOK /\ WellFormed /\ PointersCounted /\ PkgTypeOK
         /\ Local(p) /\ MakerIsAlone
         /\ Counter \in Keys /\ drops \in Nat
<1>1. IInv /\ PkgTypeOK /\ Local(p) /\ MakerIsAlone
  BY PkgIInvParts DEF AllLocal
<1>2. IInv => TypeOK /\ WellFormed /\ PointersCounted
  BY DEF IInv, WellFormed, PointersCounted
<1>3. Counter \in Keys /\ drops \in Nat
  <2>1. drops \in 0..MaxDrops
    BY <1>1 DEF PkgTypeOK
  <2> QED BY <2>1, PkgAssumption
<1> QED BY <1>1, <1>2, <1>3

(* A call of initialPkgData goes on.                                       *)
LEMMA InitGoesOn ==
  ASSUME PkgTypeOK, NEW p \in Procs, NEW at, Step(p, at)
  PROVE  init'[p].at = at /\ \A q \in Procs \ {p} : init'[q] = init[q]
BY DEF PkgTypeOK, Step

(* It leaves the guard, or is cut short there.                             *)
LEMMA InitEnds ==
  ASSUME PkgTypeOK, NEW p \in Procs, NEW told, init' = [init EXCEPT ![p] = Out(told)]
  PROVE  init'[p].at = "out" /\ \A q \in Procs \ {p} : init'[q] = init[q]
BY DEF PkgTypeOK, Out

(* Steps that do not use the registry. *)
LEMMA QuietSteps ==
  ASSUME PkgIInv, NEW p \in Procs,
         Begin(p) \/ Lock(p) \/ LockTimesOut(p) \/ Check(p) \/ Increment(p)
  PROVE  StepBy(p)
<1>0. TypeOK /\ PkgTypeOK /\ Local(p) /\ MakerIsAlone /\ Counter \in Keys /\ drops \in Nat
  BY Facts
<1>1. UNCHANGED <<vars, lastId, drops>>
  BY DEF Begin, Lock, LockTimesOut, Check, Increment
<1>2. AllKept /\ UNCHANGED <<names, call>>
  BY <1>1, KeepEffect DEF vars
<1>3. /\ \A q \in Procs \ {p} : init'[q] = init[q]
      /\ \/ Begin(p) /\ At(p, "out") /\ init'[p].at = "lock"
         \/ (Lock(p) \/ LockTimesOut(p)) /\ At(p, "lock") /\ init'[p].at = "check"
         \/ Check(p) /\ At(p, "check") /\ init'[p].at \in {"attach", "allocate"}
            /\ (init'[p].at = "allocate" => names[Counter] = NoSeg)
         \/ Increment(p) /\ At(p, "out") /\ init'[p].at = "out"
  <2>1. CASE Begin(p)
    <3>1. /\ init'[p].at = "lock" /\ At(p, "out")
          /\ \A q \in Procs \ {p} : init'[q] = init[q]
      <4>1. PICK s \in Sems :
              init' = [init EXCEPT ![p] = [at |-> "lock", sem |-> s, warned |-> FALSE,
                                           told |-> init[p].told]]
        BY <2>1 DEF Begin
      <4>2. /\ init'[p] = [at |-> "lock", sem |-> s, warned |-> FALSE, told |-> init[p].told]
            /\ \A q \in Procs \ {p} : init'[q] = init[q]
        BY <1>0, <4>1 DEF PkgTypeOK
      <4> QED BY <2>1, <4>2 DEF Begin
    <3> QED BY <2>1, <3>1
  <2>2. CASE Lock(p) \/ LockTimesOut(p)
    <3>1. At(p, "lock") /\ \E w \in BOOLEAN : Enter(p, w)
      BY <2>2 DEF Lock, LockTimesOut
    <3>2. init'[p].at = "check" /\ \A q \in Procs \ {p} : init'[q] = init[q]
      BY <1>0, <3>1 DEF Enter, PkgTypeOK
    <3> QED BY <2>2, <3>1, <3>2
  <2>3. CASE Check(p)
    BY <1>0, <2>3, InitGoesOn DEF Check, HasSharedMemory
  <2>4. CASE Increment(p)
    BY <2>4 DEF Increment, At
  <2> QED BY <2>1, <2>2, <2>3, <2>4
<1>4. OthersStill(p)
  BY <1>0, <1>1, <1>2, <1>3 DEF OthersStill, AllKept
<1>5. Local(p)'
  <2>1. call[p].at \notin AllocateSteps \cup {"mmap", "unlink"} /\ lastId[p] = Region(p, Counter)
        /\ (~At(p, "out")' => lastId[p] = NoSeg)
    <3>1. CASE At(p, "out")
      BY <1>0, <1>3, <3>1 DEF Local, At, Begin, Increment, Idle, NoCall, AllocateSteps
    <3>2. CASE ~At(p, "out")
      BY <1>0, <1>3, <3>2 DEF Local, At
    <3> QED BY <3>1, <3>2
  <2>2. init'[p].at \notin {"allocating", "attaching", "mapping", "new"}
    BY <1>3
  <2> QED BY <1>0, <1>1, <1>2, <2>1, <2>2 DEF Local, At, AllKept, Kept
<1>6. /\ history \subseteq history'
      /\ "overlap" \notin history' =>
           (Lock(p) \/ LockTimesOut(p) => \A q \in Procs \ {p} : ~Inside(q))
      /\ Increment(p) => semName' = semName
  BY DEF Begin, Lock, LockTimesOut, Check, Increment, Enter
<1>7. Handle(p, Counter)' = Handle(p, Counter)
  BY <1>0, <1>2 DEF AllKept, Kept
<1> QED BY <1>0, <1>1, <1>2, <1>3, <1>4, <1>5, <1>6, <1>7 DEF StepBy, Inside, Makes, At

(* The steps inside the guard that create no name: a session that makes a  *)
(* counter keeps the handle it has, on memory nobody uses under the name.  *)
LEMMA WorksInside ==
  ASSUME PkgIInv, NEW p \in Procs, Inside(p), OthersStill(p), Local(p)',
         names'[Counter] \in {names[Counter], NoSeg},
         drops' \in {drops, drops + 1},
         \/ drops' > 0
         \/ /\ names'[Counter] = names[Counter]
            /\ Handle(p, Counter)' \in {Handle(p, Counter), names[Counter]},
         ~At(p, "allocate")',
         Makes(p)' =>
           Handle(p, Counter)' = Handle(p, Counter) /\ (Makes(p) \/ At(p, "allocate")),
         history \subseteq history',
         semName' = NoSem \/ ~At(p, "out")' \/ "cut short" \in history'
  PROVE  StepBy(p)
<1>0. MakerIsAlone /\ drops \in Nat
  BY Facts
<1>1. ASSUME "overlap" \notin history', Makes(p)', NEW q \in Procs \ {p},
             lastId[q] # NoSeg, lastId[q] = names'[Counter]
      PROVE  Handle(p, Counter)' # lastId[q]
  <2>1. "overlap" \notin history /\ lastId[q] = names[Counter]
    BY <1>1
  <2>2. ~At(p, "allocate")
    BY <1>0, <1>1, <2>1 DEF MakerIsAlone
  <2>3. Makes(p) /\ Handle(p, Counter)' = Handle(p, Counter)
    BY <1>1, <2>2
  <2> QED BY <1>0, <1>1, <2>1, <2>3 DEF MakerIsAlone, Makes
<1>2. \/ drops' > 0
      \/ names'[Counter] = names[Counter]
         /\ Handle(p, Counter)' \in {Handle(p, Counter), names[Counter], NoSeg}
  OBVIOUS
<1> QED BY <1>0, <1>1, <1>2 DEF StepBy

(* A counter that exists is opened, or is gone when it is to be opened.    *)
LEMMA AttachStep ==
  ASSUME PkgIInv, NEW p \in Procs, Attach(p)
  PROVE  StepBy(p)
<1>0. TypeOK /\ PkgTypeOK /\ Local(p) /\ Counter \in Keys
  BY Facts
<1>1. Inside(p) /\ ~At(p, "new") /\ ~At(p, "out") /\ lastId[p] = NoSeg /\ Region(p, Counter) = NoSeg
  BY <1>0 DEF Attach, Inside, At, Local
<1>2. UNCHANGED <<lastId, drops, history>>
  BY DEF Attach
<1>3. CASE (MapOpen(p, Counter) \/ MapWithHandle(p, Counter)) /\ Step(p, "attaching")
  <2>2. init'[p].at = "attaching" /\ \A q \in Procs \ {p} : init'[q] = init[q]
    BY <1>0, <1>3, InitGoesOn
  <2>3. /\ OthersKept(p, Counter) /\ UNCHANGED names
        /\ Handle(p, Counter)' \in {Handle(p, Counter), names[Counter]}
        /\ Region(p, Counter)' = Region(p, Counter) /\ ~Owns(p, Counter)'
        /\ call' = [call EXCEPT ![p] = [at |-> "mmap", key |-> Counter]]
    <3>1. CASE MapOpen(p, Counter)
      BY <1>0, <3>1, OpenEffect DEF Local
    <3>2. CASE MapWithHandle(p, Counter)
      <4>1. AllKept
        BY <3>2, KeepEffect DEF MapWithHandle
      <4> QED BY <1>0, <3>2, <4>1 DEF MapWithHandle, Goto, AllKept, OthersKept, Kept, Local
    <3> QED BY <1>3, <3>1, <3>2
  <2>4. call'[p] = [at |-> "mmap", key |-> Counter] /\ \A q \in Procs \ {p} : call'[q] = call[q]
    BY <1>0, <2>3, CallGoesOn
  <2>5. OthersStill(p)
    BY <1>0, <1>2, <2>2, <2>3, <2>4 DEF OthersStill, OthersKept
  <2>6. Local(p)'
    BY <1>1, <1>2, <2>2, <2>3, <2>4 DEF Local, At, AllocateSteps
  <2> QED BY <1>1, <1>2, <2>2, <2>3, <2>5, <2>6, WorksInside DEF At, Makes
<1>4. CASE MapNotFound(p, Counter) /\ Leave(p, TRUE)
  <2>2. init'[p].at = "out" /\ (\A q \in Procs \ {p} : init'[q] = init[q]) /\ semName' = NoSem
    BY <1>0, <1>4, InitEnds DEF Leave
  <2>3. /\ OthersKept(p, Counter) /\ UNCHANGED <<names, call>>
        /\ Handle(p, Counter)' = Handle(p, Counter)
        /\ Region(p, Counter)' = Region(p, Counter) /\ ~Owns(p, Counter)'
    BY <1>0, <1>4, NotFoundEffect DEF Local
  <2>4. call[p].at \notin AllocateSteps \cup {"mmap", "unlink"}
    BY <1>4 DEF MapNotFound, Opens, Idle, NoCall, AllocateSteps
  <2>5. OthersStill(p)
    BY <1>0, <1>2, <2>2, <2>3 DEF OthersStill, OthersKept
  <2>6. Local(p)'
    BY <1>1, <1>2, <2>2, <2>3, <2>4 DEF Local, At
  <2> QED BY <1>1, <1>2, <2>2, <2>3, <2>5, <2>6, WorksInside DEF At, Makes
<1> QED BY <1>3, <1>4 DEF Attach

(* A counter is mapped: one that exists is taken as it is, a new one is    *)
(* about to be set.                                                        *)
LEMMA MappedStep ==
  ASSUME PkgIInv, NEW p \in Procs, Attached(p) \/ CounterMapped(p)
  PROVE  StepBy(p)
<1>0. TypeOK /\ WellFormed /\ PkgTypeOK /\ Local(p) /\ Counter \in Keys
  BY Facts
<1>1. /\ MmapOK(p) /\ Inside(p) /\ ~At(p, "new") /\ UNCHANGED <<drops, history>>
      /\ lastId[p] = NoSeg
  BY <1>0 DEF Attached, CounterMapped, Inside, At, Local
<1>2. call[p].key = Counter
  BY <1>0, <1>1, InsideCall, PkgAssumption DEF MmapOK, HandleSteps
<1>3. /\ OthersKept(p, Counter) /\ UNCHANGED names /\ KeyInMap(p, Counter)
      /\ Handle(p, Counter) # NoSeg
      /\ Handle(p, Counter)' = Handle(p, Counter)
      /\ Region(p, Counter)' = Handle(p, Counter)
      /\ Owns(p, Counter)' <=> Owns(p, Counter)
      /\ call' = [call EXCEPT ![p] = NoCall]
  BY <1>0, <1>1, <1>2, MappedEffect
<1>4. call'[p] = NoCall /\ \A q \in Procs \ {p} : call'[q] = call[q]
  BY <1>0, <1>3, CallGoesOn
<1>5. CASE Attached(p)
  <2>1. /\ init'[p].at = "out" /\ semName' = NoSem
        /\ \A q \in Procs \ {p} : init'[q] = init[q]
    BY <1>0, <1>5, InitEnds DEF Attached, Leave
  <2>2. /\ lastId'[p] = Handle(p, Counter)
        /\ \A q \in Procs \ {p} : lastId'[q] = lastId[q]
    BY <1>0, <1>3, <1>5 DEF Attached, PkgTypeOK, Handle
  <2>3. OthersStill(p)
    BY <1>0, <1>3, <1>4, <2>1, <2>2 DEF OthersStill, OthersKept
  <2>4. Local(p)'
    BY <1>0, <1>3, <1>4, <2>1, <2>2 DEF Local, At, NoCall, AllocateSteps
  <2> QED BY <1>1, <1>3, <2>1, <2>3, <2>4, WorksInside DEF At, Makes
<1>6. CASE CounterMapped(p)
  <2>1. /\ init'[p].at = "new" /\ At(p, "mapping") /\ UNCHANGED lastId
        /\ \A q \in Procs \ {p} : init'[q] = init[q]
    BY <1>0, <1>6, InitGoesOn DEF CounterMapped
  <2>2. OthersStill(p)
    BY <1>0, <1>3, <1>4, <2>1 DEF OthersStill, OthersKept
  <2>3. Local(p)'
    BY <1>0, <1>1, <1>3, <1>4, <2>1 DEF Local, At, NoCall, AllocateSteps
  <2> QED BY <1>1, <1>3, <2>1, <2>2, <2>3, WorksInside DEF At, Makes
<1> QED BY <1>5, <1>6

(* Sizing, validating and setting a new counter write nothing that others  *)
(* can tell, and a call that fails in between leaves the entry as it is.   *)
LEMMA EntryStays ==
  ASSUME PkgIInv, NEW p \in Procs,
         \/ TruncateCounter(p) \/ CounterAllocated(p) \/ CounterSigbus(p) \/ MapCounter(p)
         \/ InitMapFails(p) \/ NewCounter(p)
  PROVE  StepBy(p)
<1>0. TypeOK /\ WellFormed /\ PkgTypeOK /\ Local(p) /\ Counter \in Keys /\ drops \in Nat
  BY Facts
<1>1. AllKept /\ UNCHANGED <<names, drops>> /\ history \subseteq history'
  <2>1. CASE TruncateCounter(p)
    BY <2>1, TruncateEffect DEF TruncateCounter, pkgVars
  <2>2. CASE CounterAllocated(p)
    BY <1>0, <2>2, ValidateEffect DEF CounterAllocated
  <2>3. CASE CounterSigbus(p) \/ MapCounter(p) \/ InitMapFails(p) \/ NewCounter(p)
    BY <2>3, KeepEffect DEF CounterSigbus, AllocateSigbus, MapCounter, MapWithHandle,
       InitMapFails, MmapFails, NewCounter, vars, Happened
  <2> QED BY <2>1, <2>2, <2>3
<1>2. /\ Region(p, Counter)' = Region(p, Counter) /\ Handle(p, Counter)' = Handle(p, Counter)
      /\ Owns(p, Counter)' <=> Owns(p, Counter)
      /\ \A q \in Procs \ {p} : Kept(q, Counter)
  BY <1>0, <1>1 DEF AllKept, Kept
<1>3. /\ Inside(p) /\ lastId[p] = NoSeg /\ ~Owns(p, Counter)
      /\ ~At(p, "new") => Region(p, Counter) = NoSeg
  BY <1>0 DEF TruncateCounter, CounterAllocated, CounterSigbus, MapCounter, InitMapFails,
     NewCounter, Inside, At, Local
<1>4. CASE TruncateCounter(p)
  <2>1. /\ UNCHANGED <<init, lastId>> /\ At(p, "allocating")
        /\ call' = [call EXCEPT ![p] = [at |-> "validate", key |-> call[p].key]]
    BY <1>4, TruncateEffect DEF TruncateCounter, pkgVars
  <2>2. /\ call'[p] = [at |-> "validate", key |-> call[p].key]
        /\ \A q \in Procs \ {p} : call'[q] = call[q]
    BY <1>0, <2>1, CallGoesOn
  <2>3. OthersStill(p)
    BY <1>2, <2>1, <2>2 DEF OthersStill
  <2>4. Local(p)'
    BY <1>1, <1>2, <1>3, <2>1, <2>2 DEF Local, At, AllocateSteps
  <2> QED BY <1>1, <1>2, <1>3, <2>1, <2>3, <2>4, WorksInside DEF At, Makes
<1>5. CASE CounterAllocated(p)
  <2>1. /\ init'[p].at = "map" /\ At(p, "allocating") /\ UNCHANGED lastId
        /\ \A q \in Procs \ {p} : init'[q] = init[q]
    BY <1>0, <1>5, InitGoesOn DEF CounterAllocated
  <2>2. call'[p] = NoCall /\ \A q \in Procs \ {p} : call'[q] = call[q]
    BY <1>0, <1>5, CallGoesOn DEF CounterAllocated, ValidateOK, Return
  <2>3. OthersStill(p)
    BY <1>2, <2>1, <2>2 DEF OthersStill
  <2>4. Local(p)'
    BY <1>2, <1>3, <2>1, <2>2 DEF Local, At, NoCall, AllocateSteps
  <2> QED BY <1>1, <1>2, <1>3, <2>1, <2>3, <2>4, WorksInside DEF At, Makes
<1>6. CASE CounterSigbus(p) \/ InitMapFails(p)
  <2>1. /\ init'[p].at = "out" /\ ~At(p, "new") /\ UNCHANGED lastId
        /\ \A q \in Procs \ {p} : init'[q] = init[q]
    BY <1>0, <1>6, InitEnds DEF CounterSigbus, InitMapFails, Leave, At
  <2>2. call'[p] = NoCall /\ \A q \in Procs \ {p} : call'[q] = call[q]
    BY <1>0, <1>6, CallGoesOn DEF CounterSigbus, AllocateSigbus, InitMapFails, MmapFails, Return
  <2>3. OthersStill(p)
    BY <1>2, <2>1, <2>2 DEF OthersStill
  <2>4. Local(p)'
    BY <1>2, <1>3, <2>1, <2>2 DEF Local, At, NoCall, AllocateSteps
  <2>5. semName' = NoSem \/ "cut short" \in history'
    BY <1>6 DEF CounterSigbus, Happened, InitMapFails, Leave
  <2> QED BY <1>1, <1>2, <1>3, <2>1, <2>3, <2>4, <2>5, WorksInside DEF At, Makes
<1>7. CASE MapCounter(p)
  <2>1. /\ init'[p].at = "mapping" /\ At(p, "map") /\ UNCHANGED lastId
        /\ \A q \in Procs \ {p} : init'[q] = init[q]
    BY <1>0, <1>7, InitGoesOn DEF MapCounter
  <2>2. call'[p] = [at |-> "mmap", key |-> Counter] /\ \A q \in Procs \ {p} : call'[q] = call[q]
    BY <1>0, <1>7, CallGoesOn DEF MapCounter, MapWithHandle, Goto
  <2>3. OthersStill(p)
    BY <1>2, <2>1, <2>2 DEF OthersStill
  <2>4. Local(p)'
    BY <1>2, <1>3, <2>1, <2>2 DEF Local, At, AllocateSteps
  <2> QED BY <1>1, <1>2, <1>3, <2>1, <2>3, <2>4, WorksInside DEF At, Makes
<1>8. CASE NewCounter(p)
  <2>1. /\ init'[p].at = "out" /\ At(p, "new") /\ semName' = NoSem
        /\ \A q \in Procs \ {p} : init'[q] = init[q]
    BY <1>0, <1>8, InitEnds DEF NewCounter, Leave
  <2>2. /\ lastId'[p] = Region(p, Counter) /\ UNCHANGED call
        /\ \A q \in Procs \ {p} : lastId'[q] = lastId[q]
    BY <1>0, <1>8 DEF NewCounter, PkgTypeOK, vars
  <2>3. OthersStill(p)
    BY <1>2, <2>1, <2>2 DEF OthersStill
  <2>4. Local(p)'
    BY <1>0, <1>2, <1>3, <2>1, <2>2 DEF Local, At
  <2> QED BY <1>1, <1>2, <1>3, <2>1, <2>3, <2>4, WorksInside DEF At, Makes
<1> QED BY <1>4, <1>5, <1>6, <1>7, <1>8

(* An allocation that fails removes the name, whoever uses it.             *)
LEMMA CounterFailsStep ==
  ASSUME PkgIInv, NEW p \in Procs, CounterFails(p)
  PROVE  StepBy(p)
<1>0. TypeOK /\ WellFormed /\ PkgTypeOK /\ Local(p) /\ Counter \in Keys /\ drops \in Nat
  BY Facts
<1>1. /\ AllocateFails(p) /\ Inside(p) /\ ~At(p, "new") /\ lastId[p] = NoSeg
      /\ UNCHANGED <<lastId, history>>
  BY <1>0 DEF CounterFails, Inside, At, Local
<1>2. Counter = call[p].key
  BY <1>0, <1>1, InsideCall, PkgAssumption DEF AllocateFails, AllocateSteps, HandleSteps
<1>3. /\ names' = [names EXCEPT ![Counter] = NoSeg]
      /\ OthersKept(p, Counter)
      /\ Region(p, Counter)' = NoSeg
      /\ Owns(p, Counter)' <=> Owns(p, Counter)
      /\ call' = [call EXCEPT ![p] = NoCall]
  BY <1>0, <1>1, <1>2, FailureEffect
<1>4. names'[Counter] = NoSeg
  BY <1>0, <1>3 DEF TypeOK
<1>5. call'[p] = NoCall /\ \A q \in Procs \ {p} : call'[q] = call[q]
  BY <1>0, <1>3, CallGoesOn
<1>6. /\ init'[p].at = "out" /\ semName' = NoSem
      /\ \A q \in Procs \ {p} : init'[q] = init[q]
  BY <1>0, InitEnds DEF CounterFails, Leave
<1>7. drops' = drops + 1
  BY DEF CounterFails, Drop
<1>8. drops' > 0
  BY <1>0, <1>7
<1>9. OthersStill(p)
  BY <1>0, <1>1, <1>3, <1>5, <1>6 DEF OthersStill, OthersKept
<1>10. Local(p)'
  BY <1>0, <1>1, <1>3, <1>5, <1>6 DEF Local, At, NoCall, AllocateSteps
<1> QED BY <1>1, <1>4, <1>6, <1>7, <1>8, <1>9, <1>10, WorksInside DEF At, Makes

(* A counter is created: under a free name, in memory nobody has open.  A  *)
(* call that creates none leaves the entry with the handle it had.         *)
LEMMA AllocateStep ==
  ASSUME PkgIInv, NEW p \in Procs, AllocateCounter(p)
  PROVE  StepBy(p)
<1>0. TypeOK /\ PkgTypeOK /\ Local(p) /\ Counter \in Keys /\ CounterSize \in Sizes /\ drops \in Nat
  BY Facts, PkgAssumption
<1>1. /\ At(p, "allocate") /\ Inside(p) /\ ~At(p, "new") /\ ~At(p, "out") /\ lastId[p] = NoSeg
      /\ Region(p, Counter) = NoSeg /\ ~Owns(p, Counter)
      /\ UNCHANGED <<lastId, drops, history>>
  BY <1>0 DEF AllocateCounter, Inside, At, Local
<1>2. CASE /\ \/ AllocateTooSmall(p, Counter, CounterSize)
              \/ AllocateNameInUse(p, Counter, CounterSize)
           /\ Leave(p, TRUE)
  <2>1. /\ OthersKept(p, Counter) /\ UNCHANGED <<names, call>>
        /\ Handle(p, Counter)' = Handle(p, Counter)
        /\ Region(p, Counter)' = NoSeg /\ ~Owns(p, Counter)'
    <3>1. CASE AllocateTooSmall(p, Counter, CounterSize)
      <4>1. AllKept
        BY <3>1, KeepEffect DEF AllocateTooSmall, vars
      <4> QED BY <1>0, <1>1, <3>1, <4>1 DEF AllocateTooSmall, vars, AllKept, OthersKept, Kept
    <3>2. CASE AllocateNameInUse(p, Counter, CounterSize)
      BY <1>0, <1>1, <3>2, NameInUseEffect
    <3> QED BY <1>2, <3>1, <3>2
  <2>2. /\ init'[p].at = "out" /\ semName' = NoSem
        /\ \A q \in Procs \ {p} : init'[q] = init[q]
    BY <1>0, <1>2, InitEnds DEF Leave
  <2>3. call[p].at \notin AllocateSteps \cup {"mmap", "unlink"}
    BY <1>0, <1>1 DEF Local, At
  <2>4. OthersStill(p)
    BY <1>0, <1>1, <2>1, <2>2 DEF OthersStill, OthersKept
  <2>5. Local(p)'
    BY <1>1, <2>1, <2>2, <2>3 DEF Local, At
  <2> QED BY <1>1, <2>1, <2>2, <2>4, <2>5, WorksInside DEF At, Makes
<1>3. CASE AllocateOpened(p, Counter, CounterSize) /\ Step(p, "map")
  <2>1. AllKept /\ UNCHANGED <<names, call>>
    BY <1>3, KeepEffect DEF AllocateOpened, vars
  <2>2. init'[p].at = "map" /\ \A q \in Procs \ {p} : init'[q] = init[q]
    BY <1>0, <1>3, InitGoesOn
  <2>3. call[p].at \notin AllocateSteps \cup {"mmap", "unlink"}
    BY <1>0, <1>1 DEF Local, At
  <2>4. OthersStill(p)
    BY <1>0, <1>1, <2>1, <2>2 DEF OthersStill, AllKept
  <2>5. /\ Region(p, Counter)' = NoSeg /\ ~Owns(p, Counter)'
        /\ Handle(p, Counter)' = Handle(p, Counter)
    BY <1>0, <1>1, <2>1 DEF AllKept, Kept
  <2>6. Local(p)'
    BY <1>1, <2>1, <2>2, <2>3, <2>5 DEF Local, At
  <2> QED BY <1>1, <2>1, <2>2, <2>4, <2>5, <2>6, WorksInside DEF At, Makes
<1>4. CASE AllocateCreate(p, Counter, CounterSize) /\ Step(p, "allocating") /\ UNCHANGED semName
  <2>1. PICK s \in Segs :
          /\ ~InUse(s)
          /\ names' = [names EXCEPT ![Counter] = s]
          /\ OthersKept(p, Counter)
          /\ Handle(p, Counter)' = s
          /\ Region(p, Counter)' = NoSeg /\ ~Owns(p, Counter)'
          /\ call' = [call EXCEPT ![p] = [at |-> "truncate", key |-> Counter]]
    BY <1>0, <1>1, <1>4, CreateEffect
  <2>2. names[Counter] = NoSeg /\ names'[Counter] = s
    BY <1>0, <1>4, <2>1 DEF AllocateCreate, HasSharedMemory, TypeOK
  <2>3. init'[p].at = "allocating" /\ \A q \in Procs \ {p} : init'[q] = init[q]
    BY <1>0, <1>4, InitGoesOn
  <2>4. /\ call'[p] = [at |-> "truncate", key |-> Counter]
        /\ \A q \in Procs \ {p} : call'[q] = call[q]
    BY <1>0, <2>1, CallGoesOn
  <2>5. OthersStill(p)
    BY <1>0, <1>1, <2>1, <2>3, <2>4 DEF OthersStill, OthersKept
  <2>6. Local(p)'
    BY <1>1, <2>1, <2>3, <2>4 DEF Local, At, AllocateSteps
  <2>7. \A q \in Procs : lastId[q] # s
    <3> SUFFICES ASSUME NEW q \in Procs, lastId[q] = s
                 PROVE  FALSE
      OBVIOUS
    <3>1. lastId[q] # NoSeg
      BY ConstantsAssumption
    <3>2. Region(q, Counter) = s
      BY <3>1, PkgIInvParts DEF AllLocal, Local, At
    <3>3. Handle(q, Counter) = s
      BY <1>0, <3>1, <3>2, Facts DEF IInv, RegionOfHandle
    <3>4. KeyInMap(q, Counter) /\ sharedObjectList[q][Counter].handle = s
      BY <3>1, <3>3 DEF Handle
    <3> QED BY <1>0, <2>1, <3>4 DEF InUse
  <2>8. names[Counter] = NoSeg /\ Handle(p, Counter)' = names'[Counter]
    BY <2>1, <2>2
  <2>9. Makes(p)' => \A q \in Procs \ {p} :
          lastId[q] # NoSeg /\ lastId[q] = names'[Counter] => Handle(p, Counter)' # lastId[q]
    BY <2>2, <2>7
  <2> QED BY <1>0, <1>1, <1>4, <2>3, <2>5, <2>6, <2>8, <2>9 DEF StepBy, At
<1> QED BY <1>2, <1>3, <1>4 DEF AllocateCounter

(* A session outside initialPkgData that gives up its counter, or one that *)
(* ends anywhere, loses its entry; it owned no name.                       *)
LEMMA LeavesStep ==
  ASSUME PkgIInv, NEW p \in Procs, ReleasePkgData(p) \/ QuitSession(p) \/ CrashSession(p)
  PROVE  StepBy(p)
<1>0. TypeOK /\ PkgTypeOK /\ Local(p) /\ Counter \in Keys /\ drops \in Nat
  BY Facts
<1>1. /\ \A q \in Procs \ {p} : Kept(q, Counter)
      /\ ~KeyInMap(p, Counter)'
      /\ names'[Counter] = names[Counter]
      /\ \/ ReleasePkgData(p) /\ call' = [call EXCEPT ![p] = [at |-> "unlink", key |-> Counter]]
         \/ call' = [call EXCEPT ![p] = NoCall]
  <2>1. CASE ReleasePkgData(p)
    BY <1>0, <2>1, FreeEffect DEF ReleasePkgData, OthersKept, Local
  <2>2. CASE QuitSession(p)
    BY <1>0, <2>2, GoneEffect DEF QuitSession, Quit, Local, Owns
  <2>3. CASE CrashSession(p)
    BY <1>0, <2>3, GoneEffect DEF CrashSession, Crash, osVars
  <2> QED BY <2>1, <2>2, <2>3
<1>2. Handle(p, Counter)' = NoSeg /\ Region(p, Counter)' = NoSeg /\ ~Owns(p, Counter)'
  BY <1>0, <1>1, NotListed
<1>3. /\ init'[p].at = "out"
      /\ \A q \in Procs \ {p} : init'[q] = init[q]
  BY <1>0, InitEnds DEF ReleasePkgData, QuitSession, CrashSession, At
<1>4. lastId'[p] = NoSeg /\ \A q \in Procs \ {p} : lastId'[q] = lastId[q]
  BY <1>0 DEF ReleasePkgData, QuitSession, CrashSession, PkgTypeOK
<1>5. /\ \A q \in Procs \ {p} : call'[q] = call[q]
      /\ \/ ReleasePkgData(p) /\ call'[p] = [at |-> "unlink", key |-> Counter]
         \/ call'[p] = NoCall
  BY <1>0, <1>1, CallGoesOn
<1>6. drops' \in {drops, drops + 1} /\ (ReleasePkgData(p) => drops' > 0)
  <2>1. CASE ReleasePkgData(p)
    <3>1. drops' = drops + 1
      BY <2>1 DEF ReleasePkgData, Drop
    <3> QED BY <1>0, <3>1
  <2>2. CASE ~ReleasePkgData(p)
    BY <2>2 DEF QuitSession, CrashSession
  <2> QED BY <2>1, <2>2
<1>7. /\ history \subseteq history'
      /\ UNCHANGED semName
      /\ At(p, "out") \/ "cut short" \in history'
  BY DEF ReleasePkgData, QuitSession, CrashSession
<1>8. OthersStill(p)
  BY <1>0, <1>1, <1>3, <1>4, <1>5 DEF OthersStill
<1>9. Local(p)'
  BY <1>2, <1>3, <1>4, <1>5, <1>6 DEF Local, At, NoCall, AllocateSteps
<1> QED BY <1>0, <1>1, <1>2, <1>3, <1>4, <1>6, <1>7, <1>8, <1>9 DEF StepBy, Inside, At, Makes

(* The name of the counter is removed, after a release.                    *)
LEMMA UnlinkStep ==
  ASSUME PkgIInv, NEW p \in Procs, RemoveCounterName(p)
  PROVE  StepBy(p)
<1>0. TypeOK /\ PkgTypeOK /\ Local(p) /\ Counter \in Keys /\ drops \in Nat
  BY Facts
<1>1. /\ UNCHANGED <<sharedObjectList, init, lastId, drops, history, semName>>
      /\ call[p].at = "unlink"
      /\ names' = [names EXCEPT ![call[p].key] = NoSeg]
      /\ call' = [call EXCEPT ![p] = NoCall]
  BY DEF RemoveCounterName, Unlink, pkgVars, Return
<1>2. At(p, "out") /\ drops > 0
  BY <1>0, <1>1 DEF Local
<1>3. names'[Counter] \in {names[Counter], NoSeg}
  BY <1>0, <1>1 DEF TypeOK
<1>4. AllKept
  BY <1>1, KeepEffect
<1>5. /\ call'[p] = NoCall /\ \A q \in Procs \ {p} : call'[q] = call[q]
      /\ Kept(p, Counter) /\ \A q \in Procs \ {p} : Kept(q, Counter)
  BY <1>0, <1>1, <1>4, CallGoesOn DEF AllKept
<1>6. OthersStill(p)
  BY <1>1, <1>5 DEF OthersStill
<1>7. Local(p)'
  BY <1>0, <1>1, <1>2, <1>5 DEF Local, At, NoCall, AllocateSteps, Kept
<1>8. drops' > 0 /\ drops' \in {drops, drops + 1}
  BY <1>1, <1>2
<1> QED BY <1>0, <1>1, <1>2, <1>3, <1>6, <1>7, <1>8 DEF StepBy, Inside, At, Makes

(* Together, of every step of a session.                                   *)
LEMMA EveryStep ==
  ASSUME PkgIInv, NEW p \in Procs,
         \/ Begin(p) \/ ContinueInit(p) \/ Increment(p) \/ ReleasePkgData(p)
         \/ RemoveCounterName(p) \/ QuitSession(p) \/ CrashSession(p)
  PROVE  StepBy(p)
BY QuietSteps, AttachStep, MappedStep, EntryStays, CounterFailsStep, AllocateStep, LeavesStep,
   UnlinkStep DEF ContinueInit

----------------------------------------------------------------------------
(* Type correctness *)

(* The types of the guard: the registry's come with its invariant.         *)
GuardTypeOK ==
  /\ semName \in Sems \cup {NoSem}
  /\ semCount \in [Sems -> 0..1]
  /\ init \in [Procs -> [at : InitSteps, sem : Sems \cup {NoSem},
                         warned : BOOLEAN, told : BOOLEAN]]
CounterTypeOK ==
  /\ lastId \in [Procs -> Segs \cup {NoSeg}]
  /\ value \in [Segs -> 0..MaxValue]
  /\ drops \in 0..MaxDrops
  /\ history \subseteq {"overlap", "cut short"}

(* What a session does to its own place in initialPkgData.                 *)
LEMMA InitTyped ==
  ASSUME GuardTypeOK, NEW p \in Procs
  PROVE  /\ \A told \in BOOLEAN : [init EXCEPT ![p] = Out(told)]
               \in [Procs -> [at : InitSteps, sem : Sems \cup {NoSem},
                             warned : BOOLEAN, told : BOOLEAN]]
         /\ \A at \in InitSteps : [init EXCEPT ![p].at = at]
               \in [Procs -> [at : InitSteps, sem : Sems \cup {NoSem},
                             warned : BOOLEAN, told : BOOLEAN]]
BY DEF GuardTypeOK, Out, InitSteps

(* The bounds of the numbers, apart from everything else.                  *)
LEMMA BoundsKept ==
  /\ MaxValue \in Nat /\ 0 \in 0..MaxValue
  /\ \A n \in 0..MaxValue : n < MaxValue => n + 1 \in 0..MaxValue
  /\ \A n \in 0..MaxDrops : n < MaxDrops => n + 1 \in 0..MaxDrops
  /\ \A n \in 0..1 : n > 0 => n - 1 \in 0..1
BY PkgAssumption

(* Every step keeps the types of the guard.                                *)
LEMMA GuardTyped ==
  ASSUME GuardTypeOK, [PkgNext]_allVars
  PROVE  GuardTypeOK'
<1>1. CASE UNCHANGED allVars
  BY <1>1 DEF GuardTypeOK, allVars, pkgVars
<1>2. ASSUME NEW p \in Procs, Begin(p)
      PROVE  GuardTypeOK'
  <2>1. PICK s \in Sems :
          /\ semName' = s
          /\ semCount' = IF semName = NoSem THEN [semCount EXCEPT ![s] = 1] ELSE semCount
          /\ init' = [init EXCEPT ![p] = [at |-> "lock", sem |-> s, warned |-> FALSE,
                                          told |-> init[p].told]]
    BY <1>2 DEF Begin
  <2> QED BY <2>1 DEF GuardTypeOK, InitSteps
<1>3. ASSUME NEW p \in Procs, Lock(p) \/ LockTimesOut(p)
      PROVE  GuardTypeOK'
  <2>1. \E w \in BOOLEAN :
          init' = [init EXCEPT ![p].at = "check", ![p].sem = NoSem, ![p].warned = w]
    BY <1>3 DEF Lock, LockTimesOut, Enter
  <2>2. /\ UNCHANGED semName
        /\ \/ semCount' = semCount
           \/ \E s : semCount[s] > 0 /\ semCount' = [semCount EXCEPT ![s] = semCount[s] - 1]
    BY <1>3 DEF Lock, LockTimesOut
  <2>3. semCount' \in [Sems -> 0..1]
    BY <2>2, BoundsKept DEF GuardTypeOK
  <2>4. init' \in [Procs -> [at : InitSteps, sem : Sems \cup {NoSem},
                            warned : BOOLEAN, told : BOOLEAN]]
    <3>1. PICK w \in BOOLEAN :
            init' = [init EXCEPT ![p].at = "check", ![p].sem = NoSem, ![p].warned = w]
      BY <2>1
    <3>2. init[p] \in [at : InitSteps, sem : Sems \cup {NoSem}, warned : BOOLEAN, told : BOOLEAN]
      BY DEF GuardTypeOK
    <3> DEFINE r == [init[p] EXCEPT !.at = "check", !.sem = NoSem, !.warned = w]
    <3>3. init' = [init EXCEPT ![p] = r]
      BY <3>1 DEF GuardTypeOK
    <3>4. r \in [at : InitSteps, sem : Sems \cup {NoSem}, warned : BOOLEAN, told : BOOLEAN]
      BY <3>2 DEF InitSteps
    <3> HIDE DEF r
    <3> QED BY <3>3, <3>4 DEF GuardTypeOK
  <2> QED BY <2>2, <2>3, <2>4 DEF GuardTypeOK
<1>4. ASSUME NEW p \in Procs,
             \/ Check(p) \/ Attach(p) \/ Attached(p) \/ InitMapFails(p) \/ AllocateCounter(p)
             \/ CounterAllocated(p) \/ CounterFails(p) \/ CounterSigbus(p) \/ MapCounter(p)
             \/ CounterMapped(p) \/ NewCounter(p) \/ QuitSession(p) \/ CrashSession(p)
      PROVE  GuardTypeOK'
  <2>1. UNCHANGED semCount /\ semName' \in {semName, NoSem}
    BY <1>4 DEF Check, Attach, Attached, InitMapFails, AllocateCounter, CounterAllocated,
       CounterFails, CounterSigbus, MapCounter, CounterMapped, NewCounter, QuitSession,
       CrashSession, Leave
  <2>2. \/ \E told \in BOOLEAN : init' = [init EXCEPT ![p] = Out(told)]
        \/ \E at \in InitSteps : init' = [init EXCEPT ![p].at = at]
    BY <1>4 DEF Check, Attach, Attached, InitMapFails, AllocateCounter, CounterAllocated,
       CounterFails, CounterSigbus, MapCounter, CounterMapped, NewCounter, QuitSession,
       CrashSession, Leave, Step, InitSteps
  <2> QED BY <2>1, <2>2, InitTyped DEF GuardTypeOK
<1>5. ASSUME NEW p \in Procs,
             \/ TruncateCounter(p) \/ Increment(p) \/ ReleasePkgData(p) \/ RemoveCounterName(p)
      PROVE  GuardTypeOK'
  BY <1>5 DEF GuardTypeOK, TruncateCounter, Increment, ReleasePkgData, RemoveCounterName, pkgVars
<1> QED BY <1>1, <1>2, <1>3, <1>4, <1>5 DEF PkgNext, ContinueInit

(* Every step keeps the types of the counter: it is set to 0 or increased  *)
(* below its bound, in the segment a session has mapped.                   *)
LEMMA CounterTyped ==
  ASSUME IInv, CounterTypeOK, [PkgNext]_allVars
  PROVE  CounterTypeOK'
<1>0. TypeOK /\ WellFormed /\ Counter \in Keys
  BY PkgAssumption DEF IInv, WellFormed
<1>1. CASE UNCHANGED allVars
  BY <1>1 DEF CounterTypeOK, allVars, pkgVars
<1>2. ASSUME NEW p \in Procs,
             \/ Begin(p) \/ Lock(p) \/ LockTimesOut(p) \/ Check(p) \/ Attach(p) \/ InitMapFails(p)
             \/ TruncateCounter(p) \/ CounterSigbus(p) \/ MapCounter(p) \/ CounterMapped(p)
             \/ RemoveCounterName(p)
      PROVE  CounterTypeOK'
  <2>1. /\ UNCHANGED <<lastId, value, drops>>
        /\ history' \subseteq history \cup {"overlap", "cut short"}
    BY <1>2 DEF Begin, Lock, LockTimesOut, Enter, Check, Attach, InitMapFails, TruncateCounter,
       CounterSigbus, Happened, MapCounter, CounterMapped, RemoveCounterName, pkgVars
  <2> QED BY <2>1 DEF CounterTypeOK
<1>3. ASSUME NEW p \in Procs, Attached(p)
      PROVE  CounterTypeOK'
  <2>1. call[p].key = Counter /\ call[p].at \in HandleSteps
    BY <1>0, <1>3, InsideCall, PkgAssumption DEF Attached, MmapOK, HandleSteps
  <2>2. sharedObjectList[p][Counter].handle \in Segs
    BY <1>0, <2>1, InsideCall
  <2> QED BY <1>3, <2>2 DEF CounterTypeOK, Attached
<1>4. ASSUME NEW p \in Procs, AllocateCounter(p) \/ CounterAllocated(p)
      PROVE  CounterTypeOK'
  <2>1. UNCHANGED <<lastId, drops, history>>
    BY <1>4 DEF AllocateCounter, CounterAllocated
  <2>2. value' = value \/ \E s : value' = [value EXCEPT ![s] = 0]
    BY <1>4 DEF AllocateCounter, CounterAllocated
  <2>3. value' \in [Segs -> 0..MaxValue]
    BY <2>2, BoundsKept DEF CounterTypeOK
  <2> QED BY <2>1, <2>3 DEF CounterTypeOK
<1>5. ASSUME NEW p \in Procs, CounterFails(p) \/ ReleasePkgData(p)
      PROVE  CounterTypeOK'
  <2>1. drops' \in 0..MaxDrops
    <3>1. drops < MaxDrops /\ drops' = drops + 1
      BY <1>5 DEF CounterFails, ReleasePkgData, Drop
    <3> QED BY <3>1, BoundsKept DEF CounterTypeOK
  <2>2. UNCHANGED <<value, history>> /\ lastId' \in [Procs -> Segs \cup {NoSeg}]
    BY <1>5 DEF CounterFails, ReleasePkgData, CounterTypeOK
  <2> QED BY <2>1, <2>2 DEF CounterTypeOK
<1>6. ASSUME NEW p \in Procs, NewCounter(p)
      PROVE  CounterTypeOK'
  <2>1. Region(p, Counter) \in Segs \cup {NoSeg}
    BY <1>0, ObjectTyped DEF Region, SharedObject
  <2>2. value' \in [Segs -> 0..MaxValue]
    BY <1>6, BoundsKept DEF NewCounter, CounterTypeOK
  <2> QED BY <1>6, <2>1, <2>2 DEF NewCounter, CounterTypeOK
<1>7. ASSUME NEW p \in Procs, Increment(p)
      PROVE  CounterTypeOK'
  <2>1. /\ lastId[p] \in Segs /\ value[lastId[p]] < MaxValue
        /\ value' = [value EXCEPT ![lastId[p]] = @ + 1]
        /\ UNCHANGED <<lastId, drops, history>>
    BY <1>7 DEF Increment, CounterTypeOK
  <2>2. value' \in [Segs -> 0..MaxValue]
    BY <2>1, BoundsKept DEF CounterTypeOK
  <2> QED BY <2>1, <2>2 DEF CounterTypeOK
<1>8. ASSUME NEW p \in Procs, QuitSession(p) \/ CrashSession(p)
      PROVE  CounterTypeOK'
  <2>1. /\ lastId' = [lastId EXCEPT ![p] = NoSeg] /\ UNCHANGED <<value, drops>>
        /\ history' \subseteq history \cup {"cut short"}
    BY <1>8 DEF QuitSession, CrashSession
  <2> QED BY <2>1 DEF CounterTypeOK
<1> QED BY <1>1, <1>2, <1>3, <1>4, <1>5, <1>6, <1>7, <1>8 DEF PkgNext, ContinueInit

----------------------------------------------------------------------------
(* The theorems *)

(* The invariant holds at the start, and every step keeps it.              *)
LEMMA PkgInvariantStarts == PkgInit => PkgIInv
<1> SUFFICES ASSUME PkgInit
             PROVE  PkgIInv
  OBVIOUS
<1>1. IInv /\ Init
  BY RegistryIsSound DEF PkgInit
<1>2. GuardTypeOK /\ CounterTypeOK
  <2>1. 0 \in 0..MaxValue /\ 0 \in 0..MaxDrops
    BY PkgAssumption
  <2> QED BY <2>1 DEF PkgInit, GuardTypeOK, CounterTypeOK, Out, InitSteps
<1>3. PkgTypeOK
  BY <1>1, <1>2 DEF PkgTypeOK, IInv, GuardTypeOK, CounterTypeOK
<1>4. \A p \in Procs :
        /\ init[p].at = "out" /\ lastId[p] = NoSeg /\ call[p] = NoCall
        /\ Handle(p, Counter) = NoSeg /\ Region(p, Counter) = NoSeg /\ ~Owns(p, Counter)
  BY PkgAssumption DEF PkgInit, Out, Init, RegistryInit, Handle, Region, Owns, KeyInMap
<1>5. AllLocal
  <2> SUFFICES ASSUME NEW p \in Procs
               PROVE  Local(p)
    BY DEF AllLocal
  <2>1. call[p].at = "idle"
    BY <1>4 DEF NoCall
  <2> QED BY <1>4, <2>1 DEF Local, At, AllocateSteps
<1>6. HandlesAgree /\ MakerIsAlone /\ NoSemaphoreLeft
  BY <1>4 DEF HandlesAgree, MakerIsAlone, Inside, At, NoSemaphoreLeft, PkgInit
<1> QED BY <1>1, <1>3, <1>5, <1>6, PkgIInvParts

(* The types are kept.                                                     *)
LEMMA PkgTyped ==
  ASSUME PkgIInv, [PkgNext]_allVars
  PROVE  PkgTypeOK'
<1>1. IInv /\ IInv' /\ PkgTypeOK
  BY RegistryIsSound, PkgIInvParts
<1>2. GuardTypeOK /\ CounterTypeOK
  BY <1>1 DEF PkgTypeOK, GuardTypeOK, CounterTypeOK
<1>3. GuardTypeOK' /\ CounterTypeOK'
  BY <1>1, <1>2, GuardTyped, CounterTyped
<1> QED BY <1>1, <1>3 DEF PkgTypeOK, IInv, GuardTypeOK, CounterTypeOK

(* A step in which nothing happens.                                        *)
LEMMA PkgStutters ==
  ASSUME PkgIInv, UNCHANGED allVars
  PROVE  PkgIInv'
<1>1. IInv' /\ PkgTypeOK'
  BY RegistryIsSound, PkgTyped, PkgIInvParts
<1>2. AllLocal /\ HandlesAgree /\ MakerIsAlone /\ NoSemaphoreLeft
  BY PkgIInvParts
<1>3. UNCHANGED <<vars, init, lastId, drops, history, semName>>
  BY DEF allVars, pkgVars
<1>4. UNCHANGED <<names, call>>
      /\ \A p \in Procs : Handle(p, Counter)' = Handle(p, Counter)
                        /\ Region(p, Counter)' = Region(p, Counter)
                        /\ (Owns(p, Counter)' <=> Owns(p, Counter))
  BY <1>3 DEF vars, Handle, Region, Owns, KeyInMap
<1>5. AllLocal'
  BY <1>2, <1>3, <1>4 DEF AllLocal, Local, At
<1>6. HandlesAgree' /\ MakerIsAlone' /\ NoSemaphoreLeft'
  BY <1>2, <1>3, <1>4 DEF HandlesAgree, MakerIsAlone, Inside, At, NoSemaphoreLeft
<1> QED BY <1>1, <1>5, <1>6, PkgIInvPartsNext

(* The whole invariant: where calls of the registry stand, who uses which  *)
(* counter, and who may make one.                                          *)
THEOREM PkgInductiveInvariant == PkgSpec => []PkgIInv
<1>1. PkgInit => PkgIInv
  BY PkgInvariantStarts
<1>2. PkgIInv /\ [PkgNext]_allVars => PkgIInv'
  <2> SUFFICES ASSUME PkgIInv, [PkgNext]_allVars
               PROVE  PkgIInv'
    OBVIOUS
  <2>1. CASE UNCHANGED allVars
    BY <2>1, PkgStutters
  <2>2. CASE PkgNext
    <3>1. PICK p \in Procs : \/ Begin(p) \/ ContinueInit(p) \/ Increment(p) \/ ReleasePkgData(p)
                             \/ RemoveCounterName(p) \/ QuitSession(p) \/ CrashSession(p)
      BY <2>2 DEF PkgNext
    <3>2. StepBy(p)
      BY <3>1, EveryStep
    <3>3. IInv' /\ PkgTypeOK'
      BY RegistryIsSound, PkgTyped, PkgIInvParts
    <3> QED BY <3>2, <3>3, StepKeepsInvariant
  <2> QED BY <2>1, <2>2
<1> QED BY <1>1, <1>2, PTL DEF PkgSpec

(* The types of the registry, the semaphore and the counter.               *)
THEOREM PkgTypeCorrect == PkgSpec => []PkgTypeOK
<1>1. PkgIInv => PkgTypeOK
  BY DEF PkgIInv
<1> QED BY <1>1, PkgInductiveInvariant, PTL

(* lastId of src/src/sharedMemory.cpp can be dereferenced while it is not  *)
(* null, whatever failed, was killed or was tried again.                   *)
THEOREM CounterPointerIsValid == PkgSpec => []CounterPointerValid
<1>1. PkgIInv => CounterPointerValid
  BY DEF PkgIInv
<1> QED BY <1>1, PkgInductiveInvariant, PTL

(* Ids come from one counter, until its name is removed.                   *)
THEOREM SessionsShareTheCounter == PkgSpec => []OneCounter
<1>1. PkgIInv => OneCounter
  <2> SUFFICES ASSUME PkgIInv, drops = 0, NEW p \in Procs, lastId[p] # NoSeg
               PROVE  lastId[p] = names[Counter]
    BY DEF OneCounter
  <2>1. IInv /\ Local(p) /\ HandlesAgree /\ Counter \in Keys
    BY PkgIInvParts, Facts
  <2>2. Region(p, Counter) = lastId[p]
    BY <2>1 DEF Local, At
  <2>3. Handle(p, Counter) = lastId[p]
    BY <2>1, <2>2 DEF IInv, RegionOfHandle
  <2> QED BY <2>1, <2>3 DEF HandlesAgree
<1> QED BY <1>1, PkgInductiveInvariant, PTL

(* The semaphore is removed by whoever leaves the guard (~auto_semophore), *)
(* unless a session died inside.                                           *)
THEOREM SemaphoreIsRemoved == PkgSpec => []NoSemaphoreLeft
<1>1. PkgIInv => NoSemaphoreLeft
  BY DEF PkgIInv
<1> QED BY <1>1, PkgInductiveInvariant, PTL

(* The zero fill and the placement new of initialPkgData never hit the     *)
(* counter that sessions use under its name, unless a wait for the lock    *)
(* had run out and two sessions were inside the guard together.            *)
THEOREM CounterOnlyGrows == PkgSpec => CounterNeverRewinds
<1> DEFINE Grows == \A p \in Procs :
             /\ lastId[p] # NoSeg
             /\ lastId[p] = names[Counter]
             /\ value'[lastId[p]] < value[lastId[p]]
             => "overlap" \in history
<1>1. PkgIInv /\ [PkgNext]_allVars => [Grows]_allVars
  <2> SUFFICES ASSUME PkgIInv, PkgNext, NEW q \in Procs, lastId[q] # NoSeg,
                      lastId[q] = names[Counter], "overlap" \notin history
               PROVE  ~(value'[lastId[q]] < value[lastId[q]])
    OBVIOUS
  <2>1. /\ IInv /\ WellFormed /\ MakerIsAlone /\ Counter \in Keys
        /\ lastId[q] \in Segs /\ value[lastId[q]] \in Nat
    <3>1. lastId[q] \in Segs /\ value[lastId[q]] \in 0..MaxValue
      BY Facts DEF PkgTypeOK
    <3> QED BY <3>1, Facts, BoundsKept
  <2>2. ASSUME NEW r \in Procs, init[r].at \in {"allocating", "map", "mapping", "new"}
        PROVE  Handle(r, Counter) # lastId[q]
    BY <2>1, <2>2 DEF MakerIsAlone
  <2>3. PICK p \in Procs : \/ Begin(p) \/ ContinueInit(p) \/ Increment(p) \/ ReleasePkgData(p)
                           \/ RemoveCounterName(p) \/ QuitSession(p) \/ CrashSession(p)
    BY DEF PkgNext
  <2>4. \/ value' = value
        \/ AllocateCounter(p) /\ names[Counter] = NoSeg
        \/ CounterAllocated(p) \/ NewCounter(p) \/ Increment(p)
    BY <2>3 DEF ContinueInit, Begin, Lock, LockTimesOut, Check, Attach, Attached, InitMapFails,
       AllocateCounter, AllocateCreate, HasSharedMemory, TruncateCounter, CounterFails,
       CounterSigbus, MapCounter, CounterMapped, ReleasePkgData, RemoveCounterName, QuitSession,
       CrashSession, pkgVars
  <2>5. CASE value' = value
    BY <2>1, <2>5
  <2>6. CASE CounterAllocated(p)
    <3>1. call[p].key = Counter /\ KeyInMap(p, Counter)
      BY <2>1, <2>6, InsideCall, PkgAssumption DEF CounterAllocated, ValidateOK, HandleSteps,
         AllocateSteps
    <3>2. sharedObjectList[p][Counter].handle # lastId[q]
      BY <2>2, <2>6, <3>1 DEF CounterAllocated, At, Handle
    <3>3. value'[lastId[q]] = value[lastId[q]]
      BY <2>6, <3>2, Facts DEF CounterAllocated, PkgTypeOK
    <3> QED BY <2>1, <3>3
  <2>7. CASE NewCounter(p)
    <3>1. Region(p, Counter) # NoSeg /\ Handle(p, Counter) # lastId[q]
      BY <2>2, <2>7, Facts DEF NewCounter, At, Local
    <3>2. Region(p, Counter) # lastId[q]
      BY <2>1, <3>1 DEF IInv, RegionOfHandle
    <3>3. value'[lastId[q]] = value[lastId[q]]
      BY <2>7, <3>2, Facts DEF NewCounter, PkgTypeOK
    <3> QED BY <2>1, <3>3
  <2>8. CASE Increment(p)
    <3>1. value' = [value EXCEPT ![lastId[p]] = value[lastId[p]] + 1]
      BY <2>8 DEF Increment
    <3>2. value'[lastId[q]] \in {value[lastId[q]], value[lastId[q]] + 1}
      BY <2>1, <3>1, Facts DEF PkgTypeOK
    <3> QED BY <2>1, <3>2
  <2> QED BY <2>4, <2>5, <2>6, <2>7, <2>8
<1> QED BY <1>1, PkgInductiveInvariant, PTL DEF PkgSpec, CounterNeverRewinds

=============================================================================
