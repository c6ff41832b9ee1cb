---------------------------- MODULE BlockService ----------------------------
(***************************************************************************)
(* What shared objects may expect of the memory below them, in terms of    *)
(* BlockMemory: a block is made whole, with its contents, by one session;  *)
(* others open it while it has a name; its contents never change or move   *)
(* while somebody can reach it; the name goes with its owner's last        *)
(* object, or when somebody frees it, and outlives an owner that is        *)
(* killed.  Nothing here says how many system calls an operation takes.    *)
(*                                                                         *)
(* ObjectLifecycle implements this specification (BlocksAsPromised there), *)
(* SharedVector and SharedString are built on its operations.              *)
(***************************************************************************)
EXTENDS BlockMemory

CONSTANTS
  Contents,
  Orphan     \* the owner of a name that nobody will remove

(* The name may have been freed by its id before the creator was done. *)
Create(s, b) ==
  \E data \in Contents, name \in {s, Nothing} :
    /\ ~Alive(b)
    /\ mem' = [mem EXCEPT ![b] = data]
    /\ owner' = [owner EXCEPT ![b] = name]
    /\ mapped' = [mapped EXCEPT ![s] = @ \cup {b}]

Open(s, b) == CanMap(s, b) /\ OpenBlock(s, b)

Close(s, b) == UnmapBlock(s, b, {})

(* freeSharedMemory *)
FreeName(b) ==
  /\ owner' = [owner EXCEPT ![b] = Nothing]
  /\ UNCHANGED mapped
  /\ DropUnreachable({})

(* A session exits, or is killed and leaves the names in left. *)
Gone(s, left) ==
  /\ mapped' = [mapped EXCEPT ![s] = {}]
  /\ owner' = [b \in Blocks |->
                 IF owner[b] # s THEN owner[b]
                 ELSE IF b \in left THEN Orphan ELSE Nothing]
  /\ DropUnreachable({})

ServiceNext ==
  \E s \in Sessions :
     \/ \E b \in Blocks : Create(s, b) \/ Open(s, b) \/ Close(s, b) \/ FreeName(b)
     \/ \E left \in SUBSET Blocks : Gone(s, left)

ServiceSpec == MemInit /\ [][ServiceNext]_blockVars

=============================================================================
