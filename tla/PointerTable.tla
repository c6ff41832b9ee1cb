---------------------------- MODULE PointerTable ----------------------------
(***************************************************************************)
(* What the registry promises the clients that map memory by key, with     *)
(* nothing said about names, handles, sizes or system calls: every process *)
(* has, for every key, a number of equivalent pointers that all lead to    *)
(* one piece of memory.  Pointers are granted and given back one at a      *)
(* time; they are lost only by the process's own doing.                    *)
(*                                                                         *)
(* SharedMemory implements this specification (TableImplemented there).    *)
(***************************************************************************)
EXTENDS Naturals

CONSTANTS Procs, Keys, Segs, NoSeg

VARIABLES
  pointers,  \* per process and key: the pointers that are outstanding
  leadsTo    \* per process and key: the memory they lead to, or NoSeg

table == <<pointers, leadsTo>>

None(f) == [k \in Keys |-> f]

TableInit ==
  /\ pointers = [p \in Procs |-> None(0)]
  /\ leadsTo = [p \in Procs |-> None(NoSeg)]

Outstanding(p, k, n, s) ==
  /\ pointers' = [pointers EXCEPT ![p][k] = n]
  /\ leadsTo' = [leadsTo EXCEPT ![p][k] = s]

(* The first pointer leads to some memory, each later one to the same. *)
Grant(p, k) ==
  \E s \in Segs :
     /\ pointers[p][k] > 0 => s = leadsTo[p][k]
     /\ Outstanding(p, k, pointers[p][k] + 1, s)

(* The last pointer takes the memory with it. *)
GiveBackOne(p, k) ==
  /\ pointers[p][k] > 0
  /\ Outstanding(p, k, pointers[p][k] - 1,
                 IF pointers[p][k] = 1 THEN NoSeg ELSE leadsTo[p][k])

(* All pointers of a key become void at once. *)
Revoke(p, k) == Outstanding(p, k, 0, NoSeg)

(* A process that is gone holds nothing. *)
Leave(p) ==
  /\ pointers' = [pointers EXCEPT ![p] = None(0)]
  /\ leadsTo' = [leadsTo EXCEPT ![p] = None(NoSeg)]

TableNext ==
  \E p \in Procs :
     \/ \E k \in Keys : Grant(p, k) \/ GiveBackOne(p, k) \/ Revoke(p, k)
     \/ Leave(p)

TableSpec == TableInit /\ [][TableNext]_table

=============================================================================
