---------------------------- MODULE BlockMemory ----------------------------
(***************************************************************************)
(* The memory under the contents of shared objects: the registry reduced   *)
(* to what SharedMemory and ObjectLifecycle show of it.  A block has the   *)
(* contents somebody wrote last; a session that has it mapped keeps it     *)
(* until its last object is collected, and the creator's collection takes  *)
(* the name with it.                                                       *)
(***************************************************************************)
EXTENDS Integers, Sequences, FiniteSets

CONSTANTS Sessions, Blocks, Nothing

VARIABLES
  mem,     \* the contents of a block, or Nothing for one nobody can reach
  owner,   \* the session that will unlink the block, or Nothing: no name
  mapped   \* the blocks a session has mapped

blockVars == <<mem, owner, mapped>>

MemInit ==
  /\ mem = [b \in Blocks |-> Nothing]
  /\ owner = [b \in Blocks |-> Nothing]
  /\ mapped = [s \in Sessions |-> {}]

Named(b) == owner[b] # Nothing
Alive(b) == Named(b) \/ \E s \in Sessions : b \in mapped[s]

(* mapSharedMemory succeeds for a block the session has, or by its name. *)
CanMap(s, b) == b \in mapped[s] \/ Named(b)

(* createEmptySharedObject, and the contents its caller puts in. *)
CreateBlock(s, b, data) ==
  /\ mem' = [mem EXCEPT ![b] = data]
  /\ owner' = [owner EXCEPT ![b] = s]
  /\ mapped' = [mapped EXCEPT ![s] = @ \cup {b}]

(* readSharedObject *)
OpenBlock(s, b) ==
  /\ mapped' = [mapped EXCEPT ![s] = @ \cup {b}]
  /\ UNCHANGED <<mem, owner>>

WriteBlock(b, data) ==
  mem' = [mem EXCEPT ![b] = data] /\ UNCHANGED <<owner, mapped>>

(* Contents that nobody can reach any more are dropped; needed are the     *)
(* blocks a message refers to.                                             *)
DropUnreachable(needed) ==
  mem' = [b \in Blocks |-> IF b \in needed \/ Alive(b)' THEN mem[b] ELSE Nothing]

(* The last finalizer of a block in a session unmaps it, and unlinks it if *)
(* the session created it.                                                 *)
UnmapBlock(s, b, needed) ==
  /\ b \in mapped[s]
  /\ mapped' = [mapped EXCEPT ![s] = @ \ {b}]
  /\ owner' = IF owner[b] = s THEN [owner EXCEPT ![b] = Nothing] ELSE owner
  /\ DropUnreachable(needed)

=============================================================================
