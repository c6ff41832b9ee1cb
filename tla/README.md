# SharedObject: a TLA+ model

SharedObject is an R package that puts R vectors into POSIX shared memory. An R
process calls `share(x)`; the result is an ALTREP vector whose data pointer leads
into shared memory, and which is exported to other R processes (workers on the
same machine) by its id alone. This directory models the C++ layer that manages
the memory and the life of the shared objects, what variables that are bound to
shared vectors and strings show to their users, and the walk of `share` and
`unshare` through containers. It checks the models with TLC on small instances, and
proves their safety properties for every instance with TLAPS. Paths below are relative to the repository's root; line numbers are in
`PROJECT.json` ("map").

## 1. Inventory

| component | source | state | operations | status |
|---|---|---|---|---|
| Shared memory registry | `src/sharedMemory.cpp/.h` | per process: `sharedObjectList` (key → object), `mapCounter` (key → int) | allocate, map, unmap, free, autoReleaseAfterUse, has, size, isMapped, getSharedObjectList | modelled, proved |
| SharedObjectClass | `src/sharedObjectClass.cpp/.h` | handle, region, pointer, size, ownData of one key | create, size, test, open, map, unmap, destructor | modelled, proved |
| Package data | `src/sharedMemory.cpp`, `R/zzz.R` | the counter in shared memory, `lastId` per process, the named semaphore | initialPkgData, releasePkgData, getNextId | modelled, proved |
| Life of ALTREP objects | `src/altrep.cpp`, `src/numericAltrepOperations.cpp` | external pointers with finalizers, dataInfo, serialized copies | create, finalize, serialize, unserialize, duplicate | modelled, proved |
| Numeric data access | `src/numericAltrepOperations.cpp`, `src/utils.cpp` | the contents; copyOnWrite, sharedSubset, sharedCopy | dataptr, duplicate, subset, share, unshare, copyData | modelled, proved |
| Shared strings | `src/stringAltrepOperations.cpp`, `src/altrep.cpp` | index vector, character set, cached vector | create, dataptr, elt, set_elt, duplicate, (un)serialize, unshare | modelled, proved |
| share / unshare / is.shared | `R/share*.R`, `R/unshare.R`, `R/is.shared.R` | none of their own | walk through lists, S4 slots, environments, attributes | modelled (is.shared changes nothing), proved |
| Properties and options | `R/sharedObjectProperty.R`, `R/packageOptions.R` | dataInfo of an object, option environment | get, set | partly: the flags, ownData, sharedAttributes |
| Developer interface | `R/developerAPIS.R`, `src/C_interface.cpp` | none | wrappers of the registry, listSharedObjects | partly |
| Utilities | `src/utils.cpp/.h` | debug flags | copyData, sizes, printing, paths | partly: copyData |
| ALTREP registration, Rcpp glue, build files | `src/altrepRegistration.cpp`, `RcppExports.*`, `configure` | method tables | – | not modelled: no behaviour of their own, or generated |

**How they interact.** `share()` in R calls `createEmptySharedObject`, which calls
the registry four times (allocate with an id from `getNextId`, map,
autoReleaseAfterUse) and registers a finalizer that will call unmap. The registry
has one SharedObjectClass per key and decides, by its counter, when to destroy it;
its destructor unlinks the name if the object owns the memory. `getNextId` uses the
counter in shared memory, which is itself memory of the registry, made by
`initialPkgData` under the semaphore when the package is loaded. Sessions meet in
three places: the namespace of `/dev/shm`, the contents of segments, and serialized
objects. R calls the methods of the ALTREP classes when it needs a data pointer, an
element, a subset, a duplicate before a write, or a serialized state; a shared
string holds a shared raw vector, its index, and goes through all of this for it.
`share` in R looks for the vectors inside an object and calls the C++ layer for each.

**What is hard.** Every system call on a name can interleave with those of other
processes: a name can vanish or come back between a test and a use; a segment is
visible under its name before it has its size. Failed calls leave objects in the
registry. R collects garbage, and runs finalizers, in the middle of the package's
constructors. Processes exit or are killed at any point. The process lock is a
named semaphore with a timeout. Whether two variables show one value or two depends
on flags that are copied with every duplicate, subset and message. Strings exist
twice, as an index and as a cache. `share` changes environments and S4 bits in
place and may fail half way. `PROJECT.json` lists 40 hazards, each with the line
where it bites and the properties for it.

**What makes each component correct.**
- Registry: a pointer stays mapped, to the same segment, until it is given back;
  the counter is the number of pointers out; the reported size fits the mapping;
  names end only for the documented reasons.
- Package data: the counter pointer is valid, all sessions have one counter, it
  never goes back; initialization returns and can be repeated; the lock excludes.
- Objects: a live object reads the data it was made for; each pointer has exactly
  one finalizer; ids are fresh; the creator alone unlinks; nothing is leaked.
- Vectors and strings: a variable with copy on write is a value of its own, one
  without follows its block, and nothing else can be told; what is encoded is what
  is decoded; the cache and the index agree.
- Containers: everything sharable is shared, everything shared is unshared, and an
  error leaves each binding as it was or converted, never half.

## 2. Modules

| module | models | extends |
|---|---|---|
| `PointerTable` | abstract: the registry as a table of counted pointers | – |
| `SharedMemory` | registry, SharedObjectClass, `/dev/shm`; implements `PointerTable` | – |
| `SharedMemoryProofs` | theorems about `SharedMemory` | `SharedMemory`, `TLAPS` |
| `RegistryEffects` | lemmas: what each action of `SharedMemory` does to an entry, for proofs about its clients | `SharedMemoryProofs` |
| `ObjectLifecycle` | sessions, ALTREP objects, collector, serialization; implements `BlockService` | `SharedMemory` |
| `ObjectLifecycleProofs` | the invariants of `ObjectLifecycle` | `ObjectLifecycle`, `RegistryEffects` |
| `ObjectServiceProofs` | that it implements `BlockService` | `ObjectLifecycleProofs` |
| `PkgData` | counter, semaphore, initialization | `SharedMemory` |
| `PkgDataProofs` | theorems about `PkgData` | `PkgData`, `RegistryEffects` |
| `ValueStore` | abstract: variables with values of their own or in common | – |
| `BlockMemory` | operations of the memory below contents | – |
| `BlockService` | abstract: what these operations promise, with frees and kills | `BlockMemory` |
| `SharedVector` | contents of numeric vectors; implements `ValueStore` | `BlockMemory` |
| `SharedVectorProofs` | the invariants of `SharedVector`, its `copyData`, and that it implements `ValueStore` | `SharedVector`, `TLAPS` |
| `SharedString` | string vectors; implements `ValueStore` | `BlockMemory` |
| `SharedStringProofs` | the encoding, the invariants of `SharedString`, and that it implements `ValueStore` | `SharedString`, `TLAPS` |
| `Containers` | `share` and `unshare` in R | – |
| `ContainersProofs` | theorems about `Containers` | `Containers`, `TLAPS` |
| `MC…` | constants and symmetry sets for TLC | the module they name |

The two levels of memory fit together as follows. `SharedMemory` and
`ObjectLifecycle` cut every call at its system calls. `BlocksAsPromised` shows that
together they implement `BlockService`, where a block appears at once with its
contents, is opened by name, and never changes or moves while a session has it. The
operations of that service (`BlockMemory`) are what `SharedVector` and `SharedString`
are built on; they leave out frees by id and kills, and add the writes of users.

### SharedMemory

`sharedObjectList[p][k]` is the registered object, a record of handle, region, size
and ownData, or `NoEntry`. `names[k]` is the segment (inode) a name leads to and
`segSize` its length; these belong to the operating system. A handle and a region
are the segment they lead to. `mapCounter` is 0 for a missing key, which is what
`mapCounter[key]++` makes of it; the one place where the code erases a counter
(`freeSharedMemoryInternal`) sets it to 0.

A process is inside at most one call (`call[p]`), because R is single threaded. A
call is cut exactly where other processes can see or disturb it:

| code | actions |
|---|---|
| `allocateSharedMemory`: registered and too small / already open | `AllocateTooSmall`, `AllocateOpened` |
| … `create_only` fails / succeeds | `AllocateNameInUse`, `AllocateCreate` |
| … `truncate` | `Truncate` |
| … `validate_shared_memory` returns / throws / SIGBUS and `Rf_error` | `ValidateOK`, `AllocateFails`, `AllocateSigbus` |
| `mapSharedMemory`: mapped / no name / open by name / handle is open | `MapMapped`, `MapNotFound`, `MapOpen`, `MapWithHandle` |
| … `mapped_region` returns / throws | `MmapOK`, `MmapFails` |
| `unmapSharedMemory`, `autoReleaseAfterUse` | `Unmap`, `SetOwnership` |
| `freeSharedMemory`: the object is erased / the name is unlinked | `Free`, `Unlink` |
| exit (static destructors), kill | `Quit`, `Crash` |

One action per outcome lets `ObjectLifecycle` and `PkgData` conjoin what the caller
does with it. `held` is a history variable: the pointers handed out and not given
back. `Free` voids the caller's pointers, as the comment "It is user's
responsibility" has it; `Unlink` is a step of its own, because the destructor of an
object that owns its memory has unlinked the name before, and another process may
have created it again. `Disciplined` says whether clients give back only pointers
they hold; the package's own client, the finalizer, does
(`EveryPointerHasAFinalizer`), a user of the developer interface need not.

`PointerTable` is what clients may rely on: `mapSharedMemory` adds a pointer, which
leads where the others of its key lead, `unmapSharedMemory` takes one back, a free
voids the caller's, an exit all of a process. `TableImplemented` maps `mapCounter`
to the number of pointers and `Leads`, the mapped regions, to where they lead; every
other step of a system call is a stutter.

Not modelled: contents of segments (see PkgData and SharedVector), Windows and macOS
variants, `flush`, failure of `shm_open` for reasons other than the name. Opening a
name and reading the size of the handle is one step: no later step distinguishes
the two orders, as reading the size late is opening late.

### ObjectLifecycle

Each session runs at most one package function (`task[p]`), whose steps are the
registry's actions conjoined with the progress of the function. Between these
steps, where the function allocates R memory, `Finalize` may run on any other
object. `objs` counts objects with a registered finalizer; `mail` is the set of
serialized objects, which any session may read any number of times, also after the
owner has dropped the memory. `stands` records the segments objects were created
for. `accident` and `freed` record the ids whose memory may outlive or predecease
its owner for a reason the code does not defend against (a crash, SIGBUS, a failed
mapping; a manual free), and only properties use them. `ObjInit` ranges over all
placements of names that earlier sessions leaked.

Assumptions: no session reads a serialized object from before the counter was last
lost, so a message's id was issued in this generation (the code has no means to
tell); a user frees by id only from a session with no object on it; nobody edits
`ownData` or `dataId` by hand (README.md of the package: only three properties may
be changed); `R_MakeExternalPtr` does not run out of memory. The counter is cut at
`MaxId`, before it wraps.

`BlocksAsPromised` maps an id to a block from the moment its creator owns it
(`Born`), a session's blocks to the handles it has open (`Opened`; also one that a
failed mapping left, through which it can map the memory without the name), and the
contents to the segment. The owner of a name whose session was killed is nobody.

### PkgData

`init[p]` is where a session is in `initialPkgData`. The semaphore is modelled by
its name, its count and the semaphore each waiting session has open, because the
destructor removes the name while others hold the old semaphore. `value` is the
number in the counter segments: the zero fill and the placement new are separate
steps. `lastId[p]` is the segment the pointer leads to. `drops` counts removals of
the counter's name (releasePkgData, or the cleanup of a failed allocation).
`history` records whether two sessions were inside the guard together and whether a
session left the guard without its destructor. `Faults` names what may fail in a run:
mappings, allocations, the memory test by SIGBUS, sessions that are killed.

`CounterNeverRewinds` is about the counter that has its name. With the name gone the
promise would be false: a session whose mapping of the counter failed keeps an open
handle in its registry; when the name is removed and it tries again, `allocate`
returns at once on the old segment (`sharedObjectClass.cpp:199-202`) and the placement
new sets to 0 a counter that other sessions still use. It takes three sessions, one
failed mapping and one `releasePkgData`.

### BlockMemory, SharedVector, ValueStore

A variable is bound to an object; `same[v]` are the variables bound to the same one,
which R's reference counts stand for. An object is a plain vector or a view of a
block with the flags of its dataInfo. `mem[b]` is what a block holds, `owner[b]` the
session that will unlink it, `mapped[s]` the blocks a session has. `mail` is one
serialized object, which may be read any number of times and late.

| code | action |
|---|---|
| `createSharedObjectFromSource`, with and without data pointer | `Share` (`CopyData`) |
| `unshare` | `Unshare` |
| `sharedVector_dataptr`, a write through it | `WriteInPlace` |
| `sharedVector_duplicate`, and the write R wanted it for | `WriteAfterDuplicate` |
| `sharedVector_subset` | `Subset` |
| `sharedVector_serialized_state`, `sharedVector_unserialize` | `Send`, `Receive` |
| `setAtomicSharedObjectProperties` | `SetProperty` |
| `ptrFinalizer` of a session's last object on a block | `Collect` |

`ValueStore` knows none of this: a variable has a value of its own, which only an
assignment to it changes, or is in a group whose contents all members see. The
refinement maps a view with copy on write to its contents, a view without to the
group of its block.

`MayWriteInPlace` is the contract of R that this needs: R writes without a duplicate
only to an object with one reference, and a block under a copy-on-write view has no
other view then. The code does nothing to keep it: `sharedVector_dataptr` ignores
its argument `writeable`. A session that writes to a singly referenced object which
other sessions have received changes it for them too. R's decision is not in this
repository, so neither the violation nor its absence can be derived from it.

### SharedString

An object is the list `data` of the code (index, character set, cache) with its
dataInfo. Duplicates without copy on write have the same list, so `kin[v]` are the
variables whose objects share it and see a cache that one of them fills. The index
is a view of a block or, after serialization without name, a plain raw vector.
Bytes have `Byte` values, so that a few strings reach the sizes 1, 2 and 4. An
element is a string by identity, as the code compares CHARSXPs. The number of a
string is the number of first occurrences before its own (`First`, `Rank`), which is
what `uniqueCharSet.size()` is when it is inserted. A vector whose distinct strings
do not fit into eight bytes is refused (`Fits`, the `Rf_error` at `altrep.cpp:145`).

| code | action or operator |
|---|---|
| `createSharedStringFromSource` | `Share` (`CharSet`, `UnitSize`, `Encoded`) |
| `unshareString` | `Unshare`, `Unshared` |
| `sharedString_dataptr` | `DataPtr` |
| `sharedString_elt` | `Elt` |
| `sharedString_set_elt`, after `sharedString_duplicate` where R duplicates | `SetElement` |
| `sharedString_duplicate` with copy on write, and the write | `WritePlain` |
| `sharedString_serialized_state`, `sharedString_unserialize` | `Send`, `Receive` |

`Careful` restricts `SetElement` to writes that can be seen (one-byte units, no
cache, see `WriteIsSeen`), which is the documentation's advice to treat shared
strings as read-only in the strict form that makes `StringsAsPromised` true. Run
`string_write` drops it. A write to an index that arrived without its block
(`index.data`) is among those that `Careful` excludes: other objects with the list
would see it, and the promise has no group for them.

### Containers

R objects are nodes of a constant graph, since `share` never changes structure; only
environments have several places. `stack` is the R call stack, one frame per `share`
or `tryShare` with the part it is at and its `mustWork`. `work` says which vectors
are shared in the results of the call, `shared` in what is bound: the two meet when
the call returns to the user, or when an element of an environment is assigned.
`bare` is the set of objects whose S4 bit is off. `Anchor` tells where a value is
bound: to a variable, or as an element of an environment; `Elements` are its elements
and slots. `Region` is what a call finds from an object by entering what `TakenBy`
says it enters.

| code | action |
|---|---|
| `shareANY`, `unshareANY` called by the user | `Share`, `Unshare` |
| the next element, attribute or slot in `doList`, `doAttributes`, `doS4`, `doEnvironment` | `Descend` (`TakenBy`, `MustBelow`) |
| the end of a function, `C_createSharedObjectFromSource`, `C_unshare`, `C_SETS4` | `Finish` |
| `promptError`; the C++ layer throws; R's limit on nesting | `Unsharable`, `OutOfMemory`, `TooDeep` |
| `setSharedObjectPkgOptions(sharedAttributes)` | `SetOption` |

An attribute `class` of an environment is converted, although
`R/allGenerics.R:20` says it never is (`attributes(x)` is handled as a list there);
the model follows the code.

## 3. Runs

| run | instance | result |
|---|---|---|
| `registry` (`MCSharedMemory.cfg`) | 3 processes, 1 key, 3 segments, sizes 0 and 2, 2 pointers per process | 266 thousand states; five invariants, three action properties, the refinement of `PointerTable` |
| `objects` (`MCObjectLifecycle.cfg`) | 2 sessions, 2 ids, 3 segments, 2 pointers | 305 thousand states; nine invariants, among them the inductive one (`ObjIInv`), the refinement of `BlockService` |
| `package_data` (`MCPkgData.cfg`) | 2 sessions, 2 segments, 2 semaphores, 1 increment, 1 removal, all faults | 736 thousand states; five invariants, among them the inductive one (`PkgIInv`), one action property, one liveness property |
| `vectors` (`MCSharedVector.cfg`) | 3 variables in 2 sessions, 2 blocks, vectors of 2 elements, 2 sets of flags | 173 thousand states; three invariants, the refinement of `ValueStore` |
| `strings` (`MCSharedString.cfg`) | 3 variables in 2 sessions, 1 block, 2 strings, bytes of 2 values | 91 thousand states; four invariants, among them the inductive one (`StrIInv`), the refinement of `ValueStore` |
| `containers` (`MCContainers.cfg`) | 4 objects: lists, an environment in four of them, one that contains itself within a list, S4 objects with and without data | 70 thousand states; two invariants, one of them the inductive one (`ContIInv`), three action properties |
| `copy_data` (`MCCopyData.cfg`) | 1 variable, 4 elements, regions of 2 | violation: the second region is copied to the wrong place |
| `string_write` (`MCStringWrite.cfg`) | 2 variables, 1 session | violation: an element that was set keeps its value |
| `used_id` (`MCUsedId.cfg`) | 2 processes | violation: `create_only` against the comment in `sharedMemory.h` |
| `stale_counter` (`MCStaleCounter.cfg`) | 1 process, not disciplined | violation: a counter of −1 survives and a later pointer is unmapped |
| `guard` (`MCGuard.cfg`) | 3 sessions, no failures | violation: two sessions inside the lock guard |
| `manual_init` (`MCManualInit.cfg`) | 2 sessions, no failures, fairness | violation: retrying the initialization never succeeds |

**What they show.** `registry`: with disciplined clients, in every interleaving of
three processes including failed calls and kills, `PointersStayMapped`,
`CounterCountsPointers`, `PointersNeverRetargeted` (freeing and recreating the name
elsewhere does not move a pointer), `ReportedSizeWithinMapping`,
`MappedMemoryKeepsSize` and `NamesEndWithOwner`. `objects`: what the creator put
into an id is what every live object of that id shows (`ObjectsReadTheirData`); the
collector may run inside constructors without harm (`EveryPointerHasAFinalizer`);
two sessions that search for an id at once never work on each other's memory
(`FreshIdIsUnknown`, `PrivateUntilBorn`); a reader never removes the data
(`OneOwner`, `PublishedWhileOwned`); after normal ends nothing is left
(`NoLeakedName`); all of it is the memory service (`BlocksAsPromised`). `package_data`: although the guard does not exclude (run
`guard`), sessions end up with one valid counter, and it goes back only if two
sessions were inside together. `vectors`: as long as nobody changes copyOnWrite of
an existing object, every step of any session is an assignment to one variable, or a
write to one group, of a store without shared memory (`ValuesAsPromised`); all views
of a block agree on copy on write (`CowDecidedByBlock`); pointers lead to memory that
is mapped (`PointersLeadToMemory`). `strings`: the same promise holds for strings
under the advice above (`StringsAsPromised`), because the cache and the index agree
(`CacheAgreesWithIndex`), and every vector of up to five elements over five strings
is decoded as it was encoded (`EncodingIsLossless`); the index leads into the
character set in every session, as sharedString_elt takes for granted (`StrIInv`). `containers`: a successful
`share` or `unshare` reaches all it promises (`ShareIsComplete`,
`UnshareIsComplete`), an error leaves no binding half converted
(`BindingsAreAtomic`), and the S4 bit of the caller's object is lost only if memory
or stack run out (`S4BitKept`). The six violations are explained under "findings" in
`PROJECT.json`.

**Why the bounds are enough.** Keys do not interact in the registry: every
operation reads and writes one key (the proofs hold for any number), so one key
suffices; three processes give a creator, a reader and a third that frees and
recreates; three segments let the name be recreated twice while the first is still
mapped. Size 0 reaches the `size > 0 ? size : 1` branch, 2 differs from what it
gives. Two pointers distinguish "one too early" from "last". In `objects` two ids
allow the search to step over a leaked or taken name. `MaxPtrs` bounds pointers per
process and key, and how far below zero an undisciplined client drives a counter;
`MaxId`, `MaxValue`, `MaxDrops` bound the ids, the counter and the removals of its
name. In `vectors` two variables of one session may be bound to one object, to two on one
block or to two blocks, with a reader in another session; the flag sets are one with
and one without copy on write, and `SetProperty` turns sharedCopy on and off, so that
all branches of duplicate and subset are taken. One block is enough for `strings`,
where the encoding is what matters; its `Texts` cross the boundaries from one byte to
two and from two to four. In `containers` `Limit` lets the objects that end
end, and the one that does not go once around and into its list again. Symmetry over processes and segments is used where no liveness is checked and
no action chooses by identity; `guard` uses it although `Begin` takes any free
semaphore with CHOOSE, since semaphores are not permuted.

**Deadlock** is checked in every run: a process can always exit or start a call, a
variable be assigned, a container shared.

**Fairness.** `FairPkgSpec` has weak fairness for the rest of a started call
(`RunsOn`: initialization, and the removal of the counter's name): its system calls
return, and `timed_wait` returns after three
seconds at the latest, so a call that is not killed goes on. It has weak fairness
for `Retry`, a session that follows the message to initialize again; only
`ManualInitSucceeds` needs it. Nothing is assumed of users otherwise: no session
must start, release, exit or crash.

## 4. Proofs

Every theorem holds for all values of the constants that satisfy the assumptions of
its module: any number of processes, keys, segments, sessions, variables and blocks,
vectors of any length, containers of any shape. The right column says what is assumed
beyond them.

| theorem | states | assumes |
|---|---|---|
| `TypeCorrect` | `Spec => []TypeOK` | – |
| `ReportedSizeCorrect` | `Spec => []ReportedSizeWithinMapping` | – |
| `MappedSizeFixed` | `Spec => MappedMemoryKeepsSize` | – |
| `InductiveInvariant` | `Spec => []IInv` | `Disciplined` |
| `PointersCorrect` | `Spec => []PointersStayMapped` | `Disciplined` |
| `CounterCorrect` | `Spec => []CounterCountsPointers` | `Disciplined` |
| `PointersFixed` | `Spec => PointersNeverRetargeted` | `Disciplined` |
| `NamesOutliveReaders` | `Spec => NamesEndWithOwner` | `Disciplined` |
| `RegistryIsATable` | `Spec => TableImplemented` | `Disciplined` |
| `ObjInductiveInvariant`, `ObjTypeCorrect` | `ObjSpec => []ObjIInv`, `[]ObjTypeOK` | – |
| `PointersAreFinalized` | `ObjSpec => []EveryPointerHasAFinalizer` | – |
| `ObjectsKeepTheirData` | `ObjSpec => []ObjectsReadTheirData` | – |
| `AllocatesUnknownIds` | `ObjSpec => []FreshIdIsUnknown` | – |
| `UnbornMemoryIsPrivate` | `ObjSpec => []PrivateUntilBorn` | – |
| `OwnershipIsUnique` | `ObjSpec => []OneOwner` | – |
| `OwnedMemoryCanBeOpened` | `ObjSpec => []PublishedWhileOwned` | – |
| `NamesAreOwned` | `ObjSpec => []NoLeakedName` | – |
| `ObjectsGetBlocks` | `ObjSpec => BlocksAsPromised` | – |
| `PkgInductiveInvariant`, `PkgTypeCorrect` | `PkgSpec => []PkgIInv`, `[]PkgTypeOK` | – |
| `CounterPointerIsValid` | `PkgSpec => []CounterPointerValid` | – |
| `SessionsShareTheCounter` | `PkgSpec => []OneCounter` | – |
| `SemaphoreIsRemoved` | `PkgSpec => []NoSemaphoreLeft` | – |
| `CounterOnlyGrows` | `PkgSpec => CounterNeverRewinds` | – |
| `VecInductiveInvariant`, `VecTypeCorrect` | `VecSpec => []VecIInv`, `[]VecTypeOK` | – |
| `ViewsLeadToMemory` | `VecSpec => []PointersLeadToMemory` | – |
| `CopiesInheritCow` | `VecSpec => []CowDecidedByBlock` | `CowFixed` |
| `ShareIsACopy` | `VecSpec => ShareKeepsElements` | integer vectors |
| `SharedVectorsAreValues` | `VecSpec => ValuesAsPromised` | `CowFixed`, integer vectors |
| `IndexIsLossless` | `StrSpec => []EncodingIsLossless` | – |
| `StrInductiveInvariant`, `StrTypeCorrect` | `StrSpec => []StrIInv`, `[]StrTypeOK` | `Careful` |
| `CacheIsTheIndex` | `StrSpec => []CacheAgreesWithIndex` | `Careful` |
| `SharedStringsAreValues` | `StrSpec => StringsAsPromised` | `Careful` |
| `ContInductiveInvariant` | `ContSpec => []ContIInv` | – |
| `BindingsNeverHalfConverted` | `ContSpec => []BindingsAreAtomic` | – |
| `ShareReachesAll` | `ContSpec => ShareIsComplete` | – |
| `UnshareReachesAll` | `ContSpec => UnshareIsComplete` | – |
| `S4BitIsKept` | `ContSpec => S4BitKept` | – |

### The registry

`ConstantsAssumption`: null values are not members of the sets they complete, sizes
are natural numbers, the bound is positive. `IInv` is proved in three layers, each
inductive on top of the ones before:

1. `WellFormed`: types; a region is always mapped from the object's open handle
   (`RegionOfHandle`); an allocation or a mapping that is under way works on an open
   handle that is not mapped yet (`CallsHaveHandles`). No assumption on clients.
2. `SegmentsSound`: a segment about to be sized is empty, has one creator and no
   mapping (`FreshSegmentIsPrivate`), and every recorded size fits the open segment
   except the creator's (`SizesFit`). `ReportedSizeWithinMapping` alone is not
   inductive: an object that has its size from `MapOpen` must still fit when it is
   mapped a step later, and the segment must not be sized again in between; that it
   is sized once, by a process that is alone with it, is what the second layer adds.
   No assumption on clients.
3. `PointersCounted`: `PointersStayMapped` and `CounterCountsPointers` together.
   Each needs the other: the decision to destroy an object reads the counter, and
   the counter of a key that is registered again is right only because a key
   without region has no pointers out. This layer needs `Disciplined`; run
   `stale_counter` shows that it fails without.

The frame lemmas (`SegmentsFrame`, `CountedFrame`, `SetObjectEffect`) reduce each
action to the one entry it writes. `RegistryIsATable` is a step refinement: from
`IInv`, each action of `Next` is shown to grant one pointer, take one back, void a
process's pointers, or leave the counter and the regions of every key as they are. It
needs `Disciplined` for the same reason as the third layer: a counter that is not the
number of pointers is no table.

### Clients of the registry

`ObjectLifecycle` and `PkgData` run the registry's actions in step with functions of
their own. Their proofs first show that each of their steps is a step of
`SharedMemory` (so `IInv` holds, and the temporal part is not repeated), and then see
the registry through four attributes of an entry: is it listed, its handle, its
region, its ownership. `RegistryEffects` says for every action which entries keep
these and what the one it works on gets.

*Objects.* `ObjectAssumption`: ids are `1..MaxId`, clients are disciplined, and the
values "no owner" and "nobody" are not sessions. None of the properties is inductive.
That a new id is not registered (`FreshIdIsUnknown`) needs that nobody has heard of
numbers the counter has not reached (`IdsAreFresh`), and that between the increment
and the end of `share()` no other session can come to know the id
(`CreationIsPrivate`), which no step of the other session may break. That objects
read their data needs that everything that refers to an id, in any session, in
messages and in calls in progress, means one segment (`IdsMeanOneSegment`); a name
can be removed and an id given to somebody else only after a manual free, which is
why the names of owners are tracked (`OwnersArePublished`). That nobody else owns it
follows because a reader never sets the flag, and the creator sets it while it is
alone. `ObjIInv` joins these parts; run `objects` checks it.

`ObjectsGetBlocks` needs two parts more: memory with an object on it is the session's
own or was mailed (`ObjectsHaveOrigin`), and what was never mailed nobody else has
open (`UnmailedIsPrivate`). With them, `ShareOwn` is the one step in which a block
appears, whole and private; every other step opens, closes, frees, ends a session, or
is a stutter. This links the two levels of memory for any number of sessions.

*Package data.* `PkgAssumption`: one key, the counter's, whose size is not 0, and the
package is disciplined. The properties need to know where the calls of the registry
stand (`CallsMatchInit`, `InitFindsNoCounter`), that no session owns the counter
(else an exit would remove it, and `OneCounter` break), that handles left by failed
calls lead where the name leads until it is removed (`HandlesAgree`), and that,
unless two sessions were inside the guard together, the one that makes a counter is
alone with it (`MakerIsAlone`). The last part is where `CounterNeverRewinds` gets its
condition about the name (section 2, PkgData): with it, the part is inductive, and
without it the property is false for three sessions.

### Contents

`VectorAssumption`: every variable has a session, vectors are sequences of elements
with 0 among them, and `Nothing` differs from the objects and values it stands in for.

`VecTypeOK` and `PointersLeadToMemory` are inductive only together (`VecIInv`): an
object's contents are a vector because its block is mapped, hence alive, and a block
stays alive because it is not unmapped under a view. `CowDecidedByBlock` is added on
top, under `CowFixed`: nobody changes copyOnWrite of an existing object, which is the
condition the model states anyway (section 5). `CopyDataExact` shows that `copyData`
is the identity for integers, and for everything that fits into one region, whatever
the length and the regions. So `ShareIsACopy` and `SharedVectorsAreValues` are about
integers; run `copy_data` shows that they fail for the other types, and by the lemma
they do so only where R hands a vector without data pointer out in several regions.

`SharedVectorsAreValues` maps each of the twelve kinds of steps to an assignment, a
selection, a write, a message or a reset of one variable of `ValueStore`, or to
nothing (`Collect`, `SetProperty`). The case
that matters is the write in place: with copy on write it is one variable's because
`MayWriteInPlace` guards the step (the proof fails if it is dropped), without it
every view of the block is in the group that changes.

### Strings

`StringAssumption`: every variable has a session, a byte has at least two values,
the initial vector is a sequence of strings, and `Nothing` differs from what it stands
in for.

*The encoding.* `IndexIsLossless` holds for vectors of any length over any strings,
and for any `Byte`. The character set is a bijection: `RanksAreNumbers` shows that the
ranks of first occurrences are exactly `1..n`, `FirstOccurrence` that every element
has one. `Power` is the only recursive definition, over `0..8`; `UnitSizeFits` shows
that the two roundings of the code, to whole bytes and to a power of two, leave room
for every number, `Positions` that bytes of different elements never overlap, and
`BytesDetermine` that a number of `unitSize` bytes is determined by them (byte by byte,
for each of the four sizes, so that no induction is needed).

*The invariant.* `StrTypeOK` says that what a variable is bound to can be read as
strings, and so is not inductive: a write through one object changes the bytes behind
all others with its block. `StrIInv` adds that the objects and messages with one block
have the same strings, unit size, length and flag, whatever session they are in, so
that a byte written for one of them is a number of all (`WrittenByteReads`); and
that every index leads into its character set (`IndexOK`), which
sharedString_elt and unshareString read without a test. A block has its contents
while its objects have it mapped, as for vectors. All of this, the agreement of cache
and index included, is false for users who write where a write is not seen (run
`string_write`), so the theorems assume `Careful`; the encoding needs nothing.

*The refinement.* `SharedStringsAreValues` reads every object through the index
(`ReadIn`), also where the code reads the cache: the invariant says that this is the
same. Filling a cache (`DataPtr`) is then a stutter, because the lists before and
after are `Alike`. `ElementWrites` is the case of sharedString_set_elt: under copy
on write nobody else has the block, without it all objects of the block are alike and
the whole group changes. A message that carries the bytes instead of the block
(`SerializedIs`) reads as the object did when it was sent, which is the one place
where a value leaves its group.

### Containers

`ContainerAssumption` says what an R object is: the parts of an object are objects,
an element of a list is bound where the list is, an element of an environment is
bound by itself, the vectors of a binding are found from it, and a class, names or
levels are a plain vector that is nothing else. There are finitely many objects;
environments may refer to each other in any way.

All of it follows from what every frame of a call knows: the vectors found in the
parts behind it are converted (`Explored`), those of the value the frame is in (`Own`)
in the results of the call, those behind an environment already where they are bound.
`BindingsAreAtomic` is the first half at the end of a function that binds,
`ShareIsComplete` and `UnshareIsComplete` are both at the end of the last one
(`BoundIsDone`, `ReturnIsDone`): what they say is reached lies in `Region`, the class,
names and levels apart, which nothing shares (`FixedAreNotShared`). `Explored` is not
inductive where an environment contains itself. The call then comes back to a value it
is still inside of, and reads it again as it is bound, so that what had been converted
in the results is not any more. What holds is that such a value has been begun again
above (`BegunAgain`), and that the frame that did so converts all of it before it
returns. The proof of `Finish` therefore has two cases for each frame below: its next
part is the value that has just ended (`StackIsAPath`), or the whole value is, and the
object of the frame is found from it. Nothing that was bound is lost meanwhile because
the results are never behind it (`ResultsAreAhead`): `share` only adds vectors and
`unshare` only removes them. In run `containers` the environment `C` contains itself
within a list; without `BegunAgain` TLC finds the invariant violated there.
`S4BitIsKept` needs `MustIsInherited`: wherever `promptError` can stop a call, each
frame below has been told that it must work, and none of those has taken an S4 bit
off. `MustIsKept` is the converse: with mustWork, every element a frame has behind it
is `Sharable`.

What is found is defined by a recursive function (`Reachable`), for which there is no
induction to cite. That the function exists is shown by giving one, the ends of walks of
k steps (`WalkExtends`, `ReachableSteps`); that its last value is closed, by counting:
a value that is not closed has more objects than the one before, and the objects of a
session are finitely many (`ReachableClosed`); that it holds nothing else, by the first
value that would (`ReachableLeast`).

### Only model-checked

- Liveness (`InitReturns`, `ManualInitSucceeds`): TLAPS proves neither properties under
  fairness nor ENABLED.
- What the runs that end in a violation show.

No module declares a RECURSIVE operator.

## 5. Not modelled

- Index vectors of subset with NA, 0 or numbers beyond the length:
  `sharedVector_subset` then reads outside the block; what it reads is undefined.
- Changing copyOnWrite of an object that others view: which of two views then writes
  in place is up to R (`MayWriteInPlace`); `CowDecidedByBlock` says that nothing else
  makes views of a block disagree.
- `share()` of a shared string: the new object keeps the old one as its cache, so
  that reads go through both.
- Setting properties other than the flags and ownData; they are documented as
  read-only, but the setter does not check.
- `is.shared`, `listSharedObjects`, the getters and the debug functions, which change
  no state; generated code, method tables, build files; the Windows and macOS paths.
- Type conversions in assignments (`x[1] <- "a"` for a numeric `x`): R makes a plain
  vector of another type, as for any assignment of a new value.

## 6. Plan

The components of section 1 are modelled as far as they will be, and the safety
properties of the passing runs are proved. What would extend the project is
liveness, which is out of the prover's reach.
