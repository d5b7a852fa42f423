--------------------------------- MODULE Pool ---------------------------------
(***************************************************************************)
(* The block pool of server/src/pool.h: a doubly linked list of blocks of  *)
(* BlockSize elements, grown on demand by alloc_page and shrunk by         *)
(* free_page when a block's last element comes back. All three pools of    *)
(* the server (DMA pages, UAR pages, queue objects) are instances of it.   *)
(*                                                                         *)
(* alloc_page walks the list with the pool's mutex held, one block a step; *)
(* free_page is one critical section. The list is modelled pointer by      *)
(* pointer. A block is named by the order of its creation and the name is  *)
(* never reused: to the code a pointer to a destroyed block stays invalid  *)
(* whatever malloc puts at that address later. Writing through such a      *)
(* pointer has no defined outcome: the model records it in `undefined` and *)
(* stops there, so every other property speaks of the steps before it.     *)
(***************************************************************************)
EXTENDS Naturals, FiniteSets

CONSTANTS
  Thread,      \* the callers of the pool
  Nobody,      \* not a thread: the mutex is free
  BlockSize,   \* Pool::block_size
  Max,         \* Pool::max
  MaxBlocks    \* bound: blocks created in one behaviour

ASSUME PoolAssumption ==
  /\ BlockSize \in Nat \ {0}
  /\ Max \in Nat
  /\ MaxBlocks \in Nat
  /\ Nobody \notin Thread

NULL == 0
Block == 1..MaxBlocks
Pointer == Block \cup {NULL}
Slot == 1..BlockSize
Element == Block \X Slot

VARIABLES
  size, block_count, start, end,      \* Pool's fields
  next, prev, element_count, used,    \* the fields of the blocks: used[b] is
                                      \* the set of b's elements marked used
  created,    \* number of create_block calls so far
  live,       \* blocks created and not yet destroyed
  holder,     \* the thread inside alloc_page, which holds Pool::lock
  cursor,     \* alloc_page's local variable b
  held,       \* elements returned by alloc_page and not yet given back
  undefined   \* a destroyed block was written through a stale pointer

vars == <<size, block_count, start, end, next, prev, element_count, used,
          created, live, holder, cursor, held, undefined>>

list == <<start, end, next, prev, block_count>>

Init ==
  /\ size = 0 /\ block_count = 0
  /\ start = NULL /\ end = NULL
  /\ next = [b \in Block |-> NULL]
  /\ prev = [b \in Block |-> NULL]
  /\ element_count = [b \in Block |-> 0]
  /\ used = [b \in Block |-> {}]
  /\ created = 0 /\ live = {}
  /\ holder = Nobody /\ cursor = NULL
  /\ held = {}
  /\ undefined = FALSE

-----------------------------------------------------------------------------
(* add_block_to_pool of block b, whose links create_block has cleared. *)
AddBlock(b) ==
  /\ end' = b
  /\ block_count' = block_count + 1
  /\ IF start = NULL
     THEN /\ start' = b
          /\ next' = [next EXCEPT ![b] = NULL]
          /\ prev' = [prev EXCEPT ![b] = NULL]
     ELSE /\ start' = start
          /\ next' = [next EXCEPT ![b] = NULL, ![end] = b]
          /\ prev' = [prev EXCEPT ![b] = end]

(* Pool::alloc_block: create_block, every element unused, add_block_to_pool. *)
AllocBlock ==
  LET b == created + 1
  IN  /\ created' = b
      /\ live' = live \cup {b}
      /\ element_count' = [element_count EXCEPT ![b] = 0]
      /\ used' = [used EXCEPT ![b] = {}]
      /\ AddBlock(b)

FullNever == FALSE      \* mutant of Full
Full == size = Max

(* alloc_page on a full pool: returns nullptr. *)
AllocFull(t) ==
  /\ holder = Nobody /\ ~undefined
  /\ Full
  /\ UNCHANGED vars

(* alloc_page takes the lock, and gives an empty pool its first block. *)
AllocEnter(t) ==
  /\ holder = Nobody /\ ~undefined
  /\ ~Full
  /\ created < MaxBlocks          \* bound: a call creates one block at most
  /\ holder' = t
  /\ IF block_count = 0
     THEN AllocBlock
     ELSE UNCHANGED <<list, created, live, element_count, used>>
  /\ cursor' = start'
  /\ UNCHANGED <<size, held, undefined>>

(* Mutants of FreeSlots: the used flag is not looked at; the loop ends one
   element early. *)
FreeSlotsAll(b) == Slot
FreeSlotsShort(b) == (Slot \ {BlockSize}) \ used[b]

FreeSlots(b) == Slot \ used[b]

(* The block under the cursor has an unused element: the first one is
   marked, counted and returned, and the lock is released. *)
AllocTake(t) ==
  /\ holder = t /\ ~undefined
  /\ element_count[cursor] < BlockSize
  /\ \E i \in FreeSlots(cursor) :
       /\ \A j \in FreeSlots(cursor) : i <= j
       /\ used' = [used EXCEPT ![cursor] = @ \cup {i}]
       /\ held' = held \cup {<<cursor, i>>}
  /\ size' = size + 1
  /\ element_count' = [element_count EXCEPT ![cursor] = @ + 1]
  /\ holder' = Nobody /\ cursor' = NULL
  /\ UNCHANGED <<list, created, live, undefined>>

WalkToStart == start'      \* mutant of WalkTo: the walk starts over
WalkTo == next'[cursor]

(* The block under the cursor has none: on to the next block, which is
   created first when there is none. *)
AllocAdvance(t) ==
  /\ holder = t /\ ~undefined
  /\ element_count[cursor] >= BlockSize \/ FreeSlots(cursor) = {}
  /\ IF next[cursor] = NULL
     THEN AllocBlock
     ELSE UNCHANGED <<list, created, live, element_count, used>>
  /\ cursor' = WalkTo
  /\ UNCHANGED <<size, holder, held, undefined>>

-----------------------------------------------------------------------------
(* remove_block_from_pool for a block b whose prev, if any, still exists.
   The new head keeps the prev it has. *)
RemoveBlock(b) ==
  /\ block_count' = block_count - 1
  /\ CASE prev[b] = NULL /\ next[b] = NULL ->
            start' = NULL /\ UNCHANGED <<end, next, prev>>
       [] prev[b] = NULL /\ next[b] # NULL ->
            start' = next[b] /\ UNCHANGED <<end, next, prev>>
       [] prev[b] # NULL /\ next[b] = NULL ->
            /\ next' = [next EXCEPT ![prev[b]] = NULL]
            /\ end' = prev[b]
            /\ UNCHANGED <<start, prev>>
       [] OTHER ->
            /\ next' = [next EXCEPT ![prev[b]] = next[b]]
            /\ prev' = [prev EXCEPT ![next[b]] = prev[b]]
            /\ UNCHANGED <<start, end>>

(* Pool::free_block: remove_block_from_pool, then destroy_block. With a prev
   that points to a destroyed block the removal writes into freed memory. *)
FreeBlock(b) ==
  IF prev[b] \in live \cup {NULL}
  THEN /\ RemoveBlock(b)
       /\ live' = live \ {b}
       /\ undefined' = FALSE
  ELSE /\ undefined' = TRUE
       /\ UNCHANGED <<list, live>>

(* Mutants of IsLast: one element too early; the count before the decrement. *)
IsLastEarly(b) == element_count[b] <= 2
IsLastLate(b) == element_count[b] = 0

IsLast(b) == element_count[b] - 1 = 0

(* free_page of element <<b, i>>, one critical section. *)
FreePage(t, b, i) ==
  /\ holder = Nobody /\ ~undefined
  /\ <<b, i>> \in held
  /\ held' = held \ {<<b, i>>}
  /\ size' = size - 1
  /\ element_count' = [element_count EXCEPT ![b] = @ - 1]
  /\ used' = [used EXCEPT ![b] = @ \ {i}]
  /\ IF IsLast(b)
     THEN FreeBlock(b)
     ELSE UNCHANGED <<list, live, undefined>>
  /\ UNCHANGED <<created, holder, cursor>>

-----------------------------------------------------------------------------
Next ==
  \E t \in Thread :
    \/ AllocFull(t)
    \/ AllocEnter(t)
    \/ AllocTake(t)
    \/ AllocAdvance(t)
    \/ \E b \in Block, i \in Slot : FreePage(t, b, i)

Spec == Init /\ [][Next]_vars

(* The thread that holds the mutex keeps running. *)
Fairness ==
  \A t \in Thread : WF_vars(AllocTake(t)) /\ WF_vars(AllocAdvance(t))

FairSpec == Spec /\ Fairness

-----------------------------------------------------------------------------
TypeOK ==
  /\ size \in Nat /\ block_count \in Nat
  /\ start \in Pointer /\ end \in Pointer /\ cursor \in Pointer
  /\ next \in [Block -> Pointer] /\ prev \in [Block -> Pointer]
  /\ element_count \in [Block -> Nat]
  /\ used \in [Block -> SUBSET Slot]
  /\ created \in 0..MaxBlocks /\ live \subseteq Block
  /\ holder \in Thread \cup {Nobody}
  /\ held \subseteq Element
  /\ undefined \in BOOLEAN

(* size, every block's element_count and the used flags all agree with what
   the callers have: a page handed out twice, or a count that drifts through
   interleaved calls, shows here. *)
CountsMatchHeld ==
  ~undefined =>
    /\ size = Cardinality(held)
    /\ block_count = Cardinality(live)
    /\ \A b \in live : /\ used[b] = {i \in Slot : <<b, i>> \in held}
                       /\ element_count[b] = Cardinality(used[b])

(* A caller's page stays inside a block that still exists: free_page never
   destroys memory somebody was given. *)
HeldPagesExist == ~undefined => \A e \in held : e[1] \in live

(* start is the oldest block there is, end the youngest, and next leads from
   each block to the next younger one. *)
Linked ==
  /\ start = NULL <=> live = {}
  /\ live # {} => /\ start \in live /\ \A b \in live : start <= b
                 /\ end \in live /\ \A b \in live : b <= end
  /\ \A b \in live :
       IF b = end THEN next[b] = NULL
       ELSE /\ next[b] \in live /\ b < next[b]
            /\ \A c \in live : c <= b \/ next[b] <= c

(* From start, next runs through every existing block once, in creation order,
   and ends at `end`: no block is lost, none is reached after destroy_block. *)
WellLinked == ~undefined => Linked

(* Outside alloc_page no existing block is empty: the pool gives memory back as
   soon as it can. *)
NoEmptyBlocks ==
  ~undefined /\ holder = Nobody => \A b \in live : used[b] # {}

(* alloc_page creates a block only when every element of every existing block
   is in use, whatever other threads did since the walk began. *)
GrowsOnlyWhenFull ==
  [][created' # created => \A b \in live : used[b] = Slot]_vars

(* Every alloc_page call that got the mutex returns: the walk ends. *)
AllocReturns == \A t \in Thread : holder = t ~> holder = Nobody

Abstract == INSTANCE PageAllocator

(* The pool implements the page allocator. *)
ImplementsPageAllocator == Abstract!Spec

(* remove_block_from_pool "removes Block from Pool Block List" (pool.h:89):
   once removed and destroyed, a block is not written by the list again. *)
RemovedBlockUntouched == ~undefined

=============================================================================
