---------------------------- MODULE PageAllocator ----------------------------
(***************************************************************************)
(* What PA::Pool (server/src/pool.h) promises its callers, without blocks, *)
(* lists or locks: an element is either free or handed out to one caller,  *)
(* at most Max are out at a time, and a caller returns only what it has.   *)
(***************************************************************************)
EXTENDS Naturals, FiniteSets

CONSTANTS
  Element,   \* everything the allocator could ever hand out
  Max        \* Pool::max, how many elements may be out at a time

VARIABLE held  \* the elements that are handed out

Init == held = {}

(* alloc_page returns an element that nobody has. *)
Alloc(e) ==
  /\ e \notin held
  /\ Cardinality(held) < Max
  /\ held' = held \cup {e}

(* free_page takes an element back. *)
Free(e) ==
  /\ e \in held
  /\ held' = held \ {e}

Next == \E e \in Element : Alloc(e) \/ Free(e)

Spec == Init /\ [][Next]_held

=============================================================================
