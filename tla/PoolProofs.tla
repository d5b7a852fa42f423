------------------------------ MODULE PoolProofs ------------------------------
(***************************************************************************)
(* Proofs about Pool, for any threads, block size and limits.              *)
(*                                                                         *)
(* The inductive invariant says that the list is in creation order. Of the *)
(* back links it can only say what the code keeps: the prev of every block *)
(* but the head is its predecessor, and the head's prev is no existing     *)
(* block. That is enough for all that happens before a block with a stale  *)
(* prev is removed, which is where `undefined` becomes true.               *)
(***************************************************************************)
EXTENDS Pool, FiniteSetTheorems, TLAPS

(* Names are given in order. *)
Ordered == \A b \in live : b <= created

(* What the code keeps of the back links. *)
BackLinks ==
  /\ \A b \in live : prev[b] < b
  /\ \A b \in live : b # start => prev[b] \in live /\ next[prev[b]] = b
  /\ live # {} => prev[start] \notin live

(* The counters and flags agree with what the callers hold. *)
Counted ==
  /\ IsFiniteSet(held) /\ size = Cardinality(held)
  /\ IsFiniteSet(live) /\ block_count = Cardinality(live)
  /\ \A b \in live : /\ used[b] = {i \in Slot : <<b, i>> \in held}
                     /\ element_count[b] = Cardinality(used[b])

Owned == \A e \in held : e[1] \in live

(* alloc_page's walk: the blocks behind the cursor are full, only the block
   under it may be empty, and the call has not created a block unless the last
   one is empty. *)
Walk ==
  /\ size <= Max
  /\ holder # Nobody => /\ size < Max
                        /\ cursor \in live
                        /\ \A b \in live : b < cursor => used[b] = Slot
                        /\ created < MaxBlocks \/ used[end] = {}
  /\ \A b \in live : used[b] = {} => holder # Nobody /\ b = cursor

Inv ==
  /\ TypeOK
  /\ ~undefined => Ordered /\ Linked /\ BackLinks /\ Counted /\ Owned /\ Walk

-----------------------------------------------------------------------------
(* Slots are finitely many, and a set of BlockSize slots is all of them. *)
LEMMA SlotCard ==
  ASSUME NEW S \in SUBSET Slot
  PROVE  /\ IsFiniteSet(S) /\ Cardinality(S) \in Nat
         /\ Cardinality(S) >= BlockSize => S = Slot
<1>1. IsFiniteSet(Slot) /\ Cardinality(Slot) = BlockSize
  BY FS_Interval, PoolAssumption DEF Slot
<1>2. /\ IsFiniteSet(S) /\ Cardinality(S) <= Cardinality(Slot)
      /\ Cardinality(Slot) = Cardinality(S) => Slot = S
  BY <1>1, FS_Subset
<1>3. Cardinality(S) \in Nat
  BY <1>2, FS_CardinalityType
<1> QED
  BY <1>1, <1>2, <1>3, PoolAssumption

(* What TypeOK says of block names, in the form the proofs use it. *)
LEMMA LiveBlocks ==
  ASSUME TypeOK
  PROVE  /\ Pointer \subseteq Nat /\ NULL \in Pointer
         /\ \A b \in live : /\ b \in Nat /\ b \in Block /\ b # NULL
                            /\ b \in Pointer
                            /\ next[b] \in Pointer /\ next[b] \in Nat
                            /\ prev[b] \in Pointer /\ prev[b] \in Nat
         /\ NULL \notin live
<1>1. Block \subseteq Nat /\ NULL \in Nat /\ NULL \notin Block
  BY PoolAssumption DEF Block, NULL
<1>2. Pointer \subseteq Nat /\ NULL \in Pointer /\ Block \subseteq Pointer
  BY <1>1 DEF Pointer
<1>3. /\ live \subseteq Block
      /\ \A b \in Block : next[b] \in Pointer /\ prev[b] \in Pointer
  BY DEF TypeOK
<1> QED
  BY <1>1, <1>2, <1>3

(* The new block becomes the last one of the list. *)
LEMMA AllocBlockLinks ==
  ASSUME TypeOK, Ordered, Linked, BackLinks, created < MaxBlocks, AllocBlock
  PROVE  /\ created' = created + 1 /\ live' = live \cup {created'}
         /\ created' \in Block /\ created' \notin live
         /\ used' = [used EXCEPT ![created'] = {}]
         /\ element_count' = [element_count EXCEPT ![created'] = 0]
         /\ block_count' = block_count + 1
         /\ start' \in Pointer /\ end' \in Pointer
         /\ next' \in [Block -> Pointer] /\ prev' \in [Block -> Pointer]
         /\ Ordered' /\ Linked' /\ BackLinks'
         /\ start' = IF start = NULL THEN created' ELSE start
         /\ end' = created'
         /\ live # {} => next'[end] = created'
<1> DEFINE b == created + 1
<1>1. /\ created' = b /\ live' = live \cup {b} /\ b \in Block /\ b \notin live
      /\ b \in Nat /\ b # NULL /\ live \subseteq Block
      /\ used' = [used EXCEPT ![b] = {}]
      /\ element_count' = [element_count EXCEPT ![b] = 0]
      /\ AddBlock(b)
  BY PoolAssumption DEF AllocBlock, TypeOK, Ordered, Block, NULL
<1>2. CASE start = NULL
  <2>1. live = {} /\ live' = {b}
    BY <1>1, <1>2 DEF Linked
  <2>2. /\ start' = b /\ end' = b /\ block_count' = block_count + 1
        /\ next' = [next EXCEPT ![b] = NULL] /\ prev' = [prev EXCEPT ![b] = NULL]
    BY <1>1, <1>2 DEF AddBlock
  <2>3. next'[b] = NULL /\ prev'[b] = NULL
    BY <2>2, <1>1 DEF TypeOK
  <2> QED
    BY <1>1, <1>2, <2>1, <2>2, <2>3
    DEF TypeOK, Ordered, Linked, BackLinks, Pointer, NULL, Block
<1>3. CASE start # NULL
  <2>1. live # {} /\ start \in live /\ end \in live
    BY <1>3 DEF Linked
  <2>2. /\ start' = start /\ end' = b /\ block_count' = block_count + 1
        /\ next' = [next EXCEPT ![b] = NULL, ![end] = b]
        /\ prev' = [prev EXCEPT ![b] = end]
    BY <1>1, <1>3 DEF AddBlock
  <2>3. \A c \in live : c \in Nat /\ c < b /\ c \in Block
    BY <1>1 DEF Ordered, TypeOK, Block
  <2>4. /\ next'[b] = NULL /\ next'[end] = b /\ prev'[b] = end
        /\ \A c \in live : c # end => next'[c] = next[c]
        /\ \A c \in live : prev'[c] = prev[c]
    BY <1>1, <2>1, <2>2, <2>3 DEF TypeOK
  <2>5. Ordered'
    BY <1>1, <2>3 DEF Ordered
  <2>6. Linked'
    <3>1. (start' = NULL <=> live' = {}) /\ start' \in live' /\ end' \in live'
      BY <1>1, <1>3, <2>1, <2>2
    <3>2. \A c \in live' : start' <= c /\ c <= end'
      BY <1>1, <2>1, <2>2, <2>3 DEF Linked
    <3>3. ASSUME NEW c \in live', c # b, c # end
          PROVE  /\ next'[c] \in live' /\ c < next'[c]
                 /\ \A d \in live' : d <= c \/ next'[c] <= d
      <4>1. c \in live /\ next'[c] = next[c]
        BY <1>1, <2>4, <3>3
      <4>2. next[c] \in live /\ c < next[c] /\ \A d \in live : d <= c \/ next[c] <= d
        BY <3>3, <4>1 DEF Linked
      <4>3. next[c] <= b
        BY <1>1, <2>3, <4>2
      <4> QED
        BY <1>1, <4>1, <4>2, <4>3
    <3>4. /\ next'[end] = b /\ end < b
          /\ \A d \in live' : d <= end \/ b <= d
      BY <1>1, <2>1, <2>3, <2>4, <3>2 DEF Linked
    <3>5. ASSUME NEW c \in live'
          PROVE  IF c = end' THEN next'[c] = NULL
                 ELSE /\ next'[c] \in live' /\ c < next'[c]
                      /\ \A d \in live' : d <= c \/ next'[c] <= d
      <4>1. CASE c = b
        BY <2>2, <2>4, <4>1
      <4>2. CASE c # b /\ c = end
        <5>1. c # end' /\ b \in live' /\ next'[c] = b
          BY <1>1, <2>2, <3>4, <4>2
        <5>2. c < b /\ \A d \in live' : d <= c \/ b <= d
          BY <3>4, <4>2
        <5> QED
          BY <5>1, <5>2
      <4>3. CASE c # b /\ c # end
        BY <2>2, <3>3, <4>3
      <4> QED
        BY <4>1, <4>2, <4>3
    <3> QED
      BY <3>1, <3>2, <3>5 DEF Linked
  <2>7. BackLinks'
    <3>1. \A c \in live' : prev'[c] < c
      BY <1>1, <2>1, <2>3, <2>4 DEF BackLinks
    <3>2. prev'[b] \in live' /\ next'[prev'[b]] = b
      BY <1>1, <2>1, <2>4
    <3>3. ASSUME NEW c \in live, c # start
          PROVE  prev'[c] \in live' /\ next'[prev'[c]] = c
      <4>1. prev[c] \in live /\ next[prev[c]] = c /\ prev'[c] = prev[c]
        BY <2>4, <3>3 DEF BackLinks
      <4>2. prev[c] # end
        BY <3>3, <4>1, LiveBlocks DEF Linked
      <4> QED
        BY <1>1, <2>4, <4>1, <4>2
    <3>4. prev'[start] \notin live'
      <4>1. prev[start] < start /\ start < b /\ prev[start] \notin live
        BY <2>1, <2>3 DEF BackLinks
      <4>2. prev[start] \in Nat /\ prev'[start] = prev[start]
        BY <2>1, <2>3, <2>4 DEF TypeOK, Pointer, Block, NULL
      <4> QED
        BY <1>1, <2>1, <2>3, <4>1, <4>2
    <3> QED
      BY <1>1, <2>2, <3>1, <3>2, <3>3, <3>4 DEF BackLinks
  <2> QED
    BY <1>1, <1>3, <2>1, <2>2, <2>4, <2>5, <2>6, <2>7 DEF TypeOK, Pointer
<1> QED
  BY <1>2, <1>3

(* next takes no two blocks to the same one. *)
LEMMA NextInjective ==
  ASSUME TypeOK, Linked, NEW b \in live, NEW c \in live,
         b # end, c # end, next[b] = next[c]
  PROVE  b = c
<1>1. b \in Nat /\ c \in Nat /\ next[b] \in Nat
  BY LiveBlocks
<1>2. \A d \in live : (d <= b \/ next[b] <= d) /\ (d <= c \/ next[c] <= d)
  BY DEF Linked
<1>3. (c <= b \/ next[b] <= c) /\ (b <= c \/ next[c] <= b) /\ b < next[b] /\ c < next[c]
  BY <1>2 DEF Linked
<1> QED
  BY <1>1, <1>3

(* Removing any block leaves a list in order, as long as its own prev exists. *)
LEMMA RemoveBlockLinks ==
  ASSUME TypeOK, Ordered, Linked, BackLinks, NEW b \in live,
         prev[b] \in live \cup {NULL}, RemoveBlock(b), live' = live \ {b},
         created' = created
  PROVE  /\ start' \in Pointer /\ end' \in Pointer
         /\ next' \in [Block -> Pointer] /\ prev' \in [Block -> Pointer]
         /\ Ordered' /\ Linked' /\ BackLinks'
<1>1. /\ live \subseteq Block /\ live \subseteq Pointer /\ NULL \notin live
      /\ \A c \in live : c \in Nat /\ c # NULL /\ c \in Block
                         /\ next[c] \in Pointer /\ next[c] \in Nat
                         /\ prev[c] \in Pointer /\ prev[c] \in Nat
      /\ NULL \in Pointer
  BY LiveBlocks DEF TypeOK
<1>2. Ordered'
  BY DEF Ordered
<1>3. start \in live /\ end \in live
  BY DEF Linked
<1>4. (prev[b] = NULL) <=> (b = start)
  BY <1>1, <1>3 DEF BackLinks
<1>5. (next[b] = NULL) <=> (b = end)
  BY <1>1, <1>3 DEF Linked
<1>6. CASE prev[b] = NULL /\ next[b] = NULL
  <2>1. live = {b}
    <3>1. b = start /\ b = end
      BY <1>4, <1>5, <1>6
    <3>2. \A c \in live : start <= c /\ c <= end
      BY DEF Linked
    <3> QED
      BY <1>1, <3>1, <3>2
  <2> QED
    BY <1>1, <1>2, <1>6, <2>1 DEF RemoveBlock, Linked, BackLinks, TypeOK
<1>7. CASE prev[b] = NULL /\ next[b] # NULL
  <2>1. start' = next[b] /\ end' = end /\ next' = next /\ prev' = prev
    BY <1>7 DEF RemoveBlock
  <2>2. b = start /\ b # end /\ next[b] \in live /\ b < next[b]
    BY <1>4, <1>5, <1>7 DEF Linked
  <2>3. \A c \in live \ {b} : b < c /\ next[b] <= c
    BY <1>1, <2>2 DEF Linked
  <2>4. \A c \in live \ {b} : c # end => next[c] \in live \ {b}
    BY <1>1, <2>3 DEF Linked
  <2>5. Linked'
    BY <1>1, <1>3, <2>1, <2>2, <2>3, <2>4 DEF Linked
  <2>6. \A c \in live \ {b} : c # next[b] => prev[c] # b
    BY <2>2 DEF BackLinks
  <2>7. prev[next[b]] = b
    <3>1. next[b] # start
      BY <1>1, <2>2
    <3>2. prev[next[b]] \in live /\ next[prev[next[b]]] = next[b]
      BY <2>2, <3>1 DEF BackLinks
    <3>3. prev[next[b]] # end
      BY <1>1, <2>2, <3>2 DEF Linked
    <3> QED
      BY <2>2, <3>2, <3>3, NextInjective
  <2>8. BackLinks'
    BY <1>1, <2>1, <2>2, <2>3, <2>6, <2>7 DEF BackLinks
  <2> QED
    BY <1>1, <1>2, <2>1, <2>2, <2>5, <2>8 DEF TypeOK
<1>8. CASE prev[b] # NULL /\ next[b] = NULL
  <2> DEFINE p == prev[b]
  <2>1. /\ start' = start /\ end' = p /\ prev' = prev
        /\ next' = [next EXCEPT ![p] = NULL]
    BY <1>8 DEF RemoveBlock
  <2>2. b = end /\ b # start /\ p \in live /\ p < b /\ next[p] = b /\ p # end
    BY <1>1, <1>4, <1>5, <1>8 DEF BackLinks
  <2>3. \A c \in live \ {b} : c <= p
    BY <1>1, <2>2 DEF Linked
  <2>4. \A c \in live \ {b} : c # p => next[c] \in live \ {b}
    BY <2>2, NextInjective DEF Linked
  <2>5. next'[p] = NULL /\ \A c \in live : c # p => next'[c] = next[c]
    BY <1>1, <2>1, <2>2 DEF TypeOK
  <2>6. Linked'
    BY <1>1, <1>3, <2>1, <2>2, <2>3, <2>4, <2>5 DEF Linked
  <2>7. \A c \in live \ {b} : c # start => prev[c] \in live \ {b} /\ prev[c] # p
    BY <1>1, <1>8, <2>2 DEF BackLinks
  <2>8. BackLinks'
    BY <1>1, <2>1, <2>2, <2>5, <2>7 DEF BackLinks
  <2> QED
    BY <1>1, <1>2, <1>3, <2>1, <2>2, <2>6, <2>8 DEF TypeOK
<1>9. CASE prev[b] # NULL /\ next[b] # NULL
  <2> DEFINE p == prev[b]
             n == next[b]
  <2>1. /\ start' = start /\ end' = end
        /\ next' = [next EXCEPT ![p] = n] /\ prev' = [prev EXCEPT ![n] = p]
    BY <1>9 DEF RemoveBlock
  <2>2. /\ b # start /\ b # end /\ p \in live /\ p < b /\ next[p] = b /\ p # end
        /\ n \in live /\ b < n /\ n # start
    <3>1. b # start /\ b # end
      BY <1>4, <1>5, <1>9
    <3>2. p \in live /\ p < b /\ next[p] = b
      BY <3>1 DEF BackLinks
    <3>3. n \in live /\ b < n
      BY <3>1 DEF Linked
    <3>4. p # end
      BY <1>1, <3>2 DEF Linked
    <3>5. n # start
      BY <1>1, <3>3 DEF Linked
    <3> QED
      BY <3>1, <3>2, <3>3, <3>4, <3>5
  <2>3. \A c \in live \ {b} : c # p /\ c # end => next[c] \in live \ {b}
    BY <2>2, NextInjective DEF Linked
  <2>4. \A c \in live \ {b} : c <= p \/ n <= c
    BY <1>1, <2>2 DEF Linked
  <2>5. next'[p] = n /\ \A c \in live : c # p => next'[c] = next[c]
    BY <1>1, <2>1, <2>2 DEF TypeOK
  <2>6. prev'[n] = p /\ \A c \in live : c # n => prev'[c] = prev[c]
    BY <1>1, <2>1, <2>2 DEF TypeOK
  <2>7. Linked'
    BY <1>1, <1>3, <2>1, <2>2, <2>3, <2>4, <2>5 DEF Linked
  <2>8. \A c \in live \ {b} : c # start /\ c # n =>
          prev[c] \in live \ {b} /\ prev[c] # p /\ next[prev[c]] = c
    BY <1>1, <2>2 DEF BackLinks
  <2>9. BackLinks'
    BY <1>1, <1>3, <2>1, <2>2, <2>5, <2>6, <2>8 DEF BackLinks
  <2> QED
    BY <1>1, <1>2, <1>3, <2>1, <2>2, <2>7, <2>9 DEF TypeOK
<1> QED
  BY <1>6, <1>7, <1>8, <1>9

-----------------------------------------------------------------------------
(* An invariant that only the list's variables matter to survives a step that
   leaves them alone. *)
LEMMA SameList ==
  ASSUME UNCHANGED <<list, live, created>>
  PROVE  /\ Ordered => Ordered'
         /\ Linked => Linked'
         /\ BackLinks => BackLinks'
BY DEF list, Ordered, Linked, BackLinks

(* alloc_page entered: perhaps with a first block, empty and under the cursor. *)
LEMMA EnterInv ==
  ASSUME Inv, NEW t \in Thread, AllocEnter(t)
  PROVE  Inv' /\ (created' # created => \A b \in live : used[b] = Slot)
<1>1. /\ TypeOK /\ Ordered /\ Linked /\ BackLinks /\ Counted /\ Owned /\ Walk
      /\ holder = Nobody /\ undefined = FALSE /\ size # Max /\ created < MaxBlocks
      /\ holder' = t /\ t # Nobody /\ cursor' = start'
      /\ UNCHANGED <<size, held, undefined>>
  BY PoolAssumption DEF Inv, AllocEnter, TypeOK, Full
<1>2. size < Max /\ size' <= Max /\ size' < Max
  BY <1>1, PoolAssumption DEF Walk, TypeOK
<1>3. CASE block_count = 0
  <2>1. AllocBlock
    BY <1>3 DEF AllocEnter, Full
  <2>2. live = {}
    BY <1>1, <1>3, FS_EmptySet DEF Counted
  <2>3. /\ created' = created + 1 /\ live' = {created'}
        /\ created' \in Block
        /\ used' = [used EXCEPT ![created'] = {}]
        /\ element_count' = [element_count EXCEPT ![created'] = 0]
        /\ block_count' = block_count + 1
        /\ start' \in Pointer /\ end' \in Pointer
        /\ next' \in [Block -> Pointer] /\ prev' \in [Block -> Pointer]
        /\ Ordered' /\ Linked' /\ BackLinks'
        /\ start' = created' /\ end' = created'
    BY <1>1, <2>1, <2>2, AllocBlockLinks DEF Linked
  <2>4. TypeOK'
    BY <1>1, <2>3, PoolAssumption DEF TypeOK, Pointer
  <2>5. used'[created'] = {} /\ element_count'[created'] = 0
    BY <1>1, <2>3 DEF TypeOK
  <2>6. Counted'
    <3>1. held = {}
      BY <1>1, <2>2 DEF Owned
    <3>2. Cardinality(live') = 1 /\ IsFiniteSet(live')
      BY <2>3, FS_Singleton
    <3>3. held' = held /\ IsFiniteSet(held') /\ size' = Cardinality(held')
      BY <1>1 DEF Counted
    <3>4. block_count' = Cardinality(live')
      BY <1>3, <2>3, <3>2
    <3>5. used'[created'] = {i \in Slot : <<created', i>> \in held'}
      BY <2>5, <3>1, <3>3
    <3>6. element_count'[created'] = Cardinality(used'[created'])
      BY <2>5, FS_EmptySet
    <3> QED
      BY <2>3, <3>2, <3>3, <3>4, <3>5, <3>6 DEF Counted
  <2>7. Owned' /\ Walk'
    BY <1>1, <1>2, <2>2, <2>3, <2>5, LiveBlocks DEF Owned, Walk, Block
  <2> QED
    BY <1>1, <2>2, <2>3, <2>4, <2>6, <2>7 DEF Inv
<1>4. CASE block_count # 0
  <2>1. UNCHANGED <<list, created, live, element_count, used>>
    BY <1>4 DEF AllocEnter, Full
  <2>2. live # {} /\ start \in live /\ \A b \in live : start <= b /\ b \in Nat
    BY <1>1, <1>4, FS_EmptySet, LiveBlocks DEF Counted, Linked
  <2>3. TypeOK'
    BY <1>1, <2>1, <2>2 DEF TypeOK, list
  <2>4. Ordered' /\ Linked' /\ BackLinks'
    BY <1>1, <2>1, SameList
  <2>5. Counted' /\ Owned'
    BY <1>1, <2>1 DEF Counted, Owned, list
  <2>6. Walk'
    BY <1>1, <1>2, <2>1, <2>2 DEF Walk, list
  <2> QED
    BY <1>1, <2>1, <2>3, <2>4, <2>5, <2>6 DEF Inv
<1> QED
  BY <1>3, <1>4

(* alloc_page takes an element of the block under the cursor. *)
LEMMA TakeInv ==
  ASSUME Inv, NEW t \in Thread, AllocTake(t)
  PROVE  /\ Inv' /\ created' = created
         /\ \E e \in Element : Abstract!Alloc(e)
<1>1. /\ TypeOK /\ Ordered /\ Linked /\ BackLinks /\ Counted /\ Owned /\ Walk
      /\ holder = t /\ t # Nobody /\ undefined = FALSE
      /\ holder' = Nobody /\ cursor' = NULL
      /\ size' = size + 1
      /\ element_count' = [element_count EXCEPT ![cursor] = @ + 1]
      /\ UNCHANGED <<list, created, live, undefined>>
  BY PoolAssumption DEF Inv, AllocTake, TypeOK
<1>2. /\ cursor \in live /\ cursor \in Block /\ size < Max
      /\ \A b \in live : used[b] = {} => b = cursor
  BY <1>1 DEF Walk, TypeOK
<1>3. PICK i \in Slot : /\ i \notin used[cursor]
                        /\ used' = [used EXCEPT ![cursor] = @ \cup {i}]
                        /\ held' = held \cup {<<cursor, i>>}
  BY DEF AllocTake, FreeSlots
<1>4. used[cursor] = {j \in Slot : <<cursor, j>> \in held} /\ <<cursor, i>> \notin held
  BY <1>1, <1>2, <1>3 DEF Counted
<1>5. /\ IsFiniteSet(held') /\ Cardinality(held') = Cardinality(held) + 1
  BY <1>1, <1>3, <1>4, FS_AddElement DEF Counted
<1>6. TypeOK'
  <2>1. <<cursor, i>> \in Element
    BY <1>2, <1>3 DEF Element
  <2> QED
    BY <1>1, <1>2, <1>3, <2>1, LiveBlocks DEF TypeOK, list
<1>7. Ordered' /\ Linked' /\ BackLinks'
  BY <1>1, SameList
<1>8. Counted'
  <2>1. used'[cursor] = used[cursor] \cup {i}
        /\ element_count'[cursor] = element_count[cursor] + 1
    BY <1>1, <1>2, <1>3 DEF TypeOK
  <2>2. element_count'[cursor] = Cardinality(used'[cursor])
    <3>1. used[cursor] \in SUBSET Slot
      BY <1>1, <1>2 DEF TypeOK
    <3>2. IsFiniteSet(used[cursor])
      BY <3>1, SlotCard
    <3> QED
      BY <1>1, <1>2, <1>3, <2>1, <3>2, FS_AddElement DEF Counted
  <2>3. used'[cursor] = {j \in Slot : <<cursor, j>> \in held'}
    BY <1>3, <1>4, <2>1
  <2>4. ASSUME NEW b \in live, b # cursor
        PROVE  /\ used'[b] = {j \in Slot : <<b, j>> \in held'}
               /\ element_count'[b] = Cardinality(used'[b])
    <3>1. used'[b] = used[b] /\ element_count'[b] = element_count[b]
      BY <1>1, <1>3, <2>4 DEF TypeOK
    <3>2. \A j \in Slot : <<b, j>> \in held' <=> <<b, j>> \in held
      BY <1>3, <2>4
    <3> QED
      BY <1>1, <3>1, <3>2 DEF Counted
  <2> QED
    BY <1>1, <1>5, <2>2, <2>3, <2>4 DEF Counted, list
<1>9. Owned'
  BY <1>1, <1>2, <1>3 DEF Owned
<1>10. Walk'
  <2>1. \A b \in live : used'[b] # {}
    BY <1>1, <1>2, <1>3 DEF TypeOK
  <2> QED
    BY <1>1, <1>2, <2>1, PoolAssumption DEF Walk, TypeOK
<1>11. \E e \in Element : Abstract!Alloc(e)
  <2>1. <<cursor, i>> \in Element
    BY <1>2, <1>3 DEF Element
  <2>2. Abstract!Alloc(<<cursor, i>>)
    BY <1>1, <1>2, <1>3, <1>4
    DEF Abstract!Alloc, Abstract!Cardinality, Abstract!IsFiniteSet, Cardinality, IsFiniteSet, Counted
  <2> QED
    BY <2>1, <2>2
<1> QED
  BY <1>1, <1>6, <1>7, <1>8, <1>9, <1>10, <1>11 DEF Inv

(* alloc_page leaves a full block behind, and appends a new one only when that
   was the last. *)
LEMMA AdvanceInv ==
  ASSUME Inv, NEW t \in Thread, AllocAdvance(t)
  PROVE  Inv' /\ (created' # created => \A b \in live : used[b] = Slot)
<1>1. /\ TypeOK /\ Ordered /\ Linked /\ BackLinks /\ Counted /\ Owned /\ Walk
      /\ holder = t /\ t # Nobody /\ undefined = FALSE
      /\ cursor' = next'[cursor]
      /\ UNCHANGED <<size, holder, held, undefined>>
  BY PoolAssumption DEF Inv, AllocAdvance, TypeOK, WalkTo
<1>2. /\ cursor \in live /\ size < Max /\ cursor \in Block /\ cursor \in Nat
      /\ \A b \in live : used[b] = {} => b = cursor
  BY <1>1, LiveBlocks DEF Walk, TypeOK
<1>3. used[cursor] = Slot
  <2>1. used[cursor] \in SUBSET Slot /\ element_count[cursor] = Cardinality(used[cursor])
    BY <1>1, <1>2 DEF TypeOK, Counted
  <2>2. CASE FreeSlots(cursor) = {}
    BY <2>1, <2>2 DEF FreeSlots
  <2>3. CASE element_count[cursor] >= BlockSize
    BY <2>1, <2>3, SlotCard
  <2> QED
    BY <2>2, <2>3 DEF AllocAdvance, WalkTo
<1>4. \A b \in live : b <= cursor => used[b] = Slot
  <2>1. \A b \in live : b < cursor => used[b] = Slot
    BY <1>1 DEF Walk
  <2>2. \A b \in live : b <= cursor => b < cursor \/ b = cursor
    BY <1>1, <1>2, LiveBlocks
  <2> QED
    BY <1>3, <2>1, <2>2
<1>5. Slot # {}
  BY PoolAssumption DEF Slot
<1>6. CASE next[cursor] = NULL
  <2>1. AllocBlock
    BY <1>6 DEF AllocAdvance, WalkTo
  <2>2. cursor = end /\ \A b \in live : used[b] = Slot
    <3>1. cursor = end
      BY <1>1, <1>2, <1>6, LiveBlocks DEF Linked
    <3> QED
      BY <1>1, <1>2, <1>4, <3>1 DEF Linked
  <2>3. /\ created' = created + 1 /\ live' = live \cup {created'}
        /\ created' \in Block /\ created' \notin live
        /\ used' = [used EXCEPT ![created'] = {}]
        /\ element_count' = [element_count EXCEPT ![created'] = 0]
        /\ block_count' = block_count + 1
        /\ start' \in Pointer /\ end' \in Pointer
        /\ next' \in [Block -> Pointer] /\ prev' \in [Block -> Pointer]
        /\ Ordered' /\ Linked' /\ BackLinks'
        /\ cursor' = created' /\ end' = created'
    <3>1. created < MaxBlocks
      BY <1>1, <1>2, <1>3, <1>5, <2>2 DEF Walk
    <3> QED
      BY <1>1, <1>2, <2>1, <2>2, <3>1, AllocBlockLinks
  <2>4. /\ used'[created'] = {} /\ element_count'[created'] = 0
        /\ \A b \in live : used'[b] = used[b] /\ element_count'[b] = element_count[b]
    BY <1>1, <2>3 DEF TypeOK
  <2>5. TypeOK'
    <3>1. /\ created' \in 0..MaxBlocks /\ created' \in Pointer
          /\ live' \subseteq Block /\ block_count' \in Nat
      BY <1>1, <2>3, PoolAssumption DEF TypeOK, Pointer, Block
    <3>2. element_count' \in [Block -> Nat] /\ used' \in [Block -> SUBSET Slot]
      BY <1>1, <2>3 DEF TypeOK
    <3> QED
      BY <1>1, <2>3, <3>1, <3>2 DEF TypeOK
  <2>6. Counted'
    <3>1. IsFiniteSet(live') /\ Cardinality(live') = block_count'
      BY <1>1, <2>3, FS_AddElement DEF Counted
    <3>2. used'[created'] = {i \in Slot : <<created', i>> \in held'}
      <4>1. \A i \in Slot : <<created', i>> \notin held
        BY <1>1, <2>3 DEF Owned
      <4> QED
        BY <1>1, <2>4, <4>1
    <3>3. element_count'[created'] = Cardinality(used'[created'])
      BY <2>4, FS_EmptySet
    <3> QED
      BY <1>1, <2>3, <2>4, <3>1, <3>2, <3>3 DEF Counted
  <2>7. Owned'
    BY <1>1, <2>3 DEF Owned
  <2>8. Walk'
    BY <1>1, <1>2, <1>5, <2>2, <2>3, <2>4 DEF Walk
  <2> QED
    BY <1>1, <2>2, <2>3, <2>5, <2>6, <2>7, <2>8 DEF Inv
<1>7. CASE next[cursor] # NULL
  <2>1. UNCHANGED <<list, created, live, element_count, used>>
    BY <1>7 DEF AllocAdvance, WalkTo
  <2>2. /\ next[cursor] \in live /\ cursor' = next[cursor]
        /\ \A b \in live : b <= cursor \/ next[cursor] <= b
    BY <1>1, <1>2, <1>7, <2>1 DEF Linked, list
  <2>3. TypeOK'
    BY <1>1, <2>1, <2>2, LiveBlocks DEF TypeOK, list
  <2>4. Ordered' /\ Linked' /\ BackLinks'
    BY <1>1, <2>1, SameList
  <2>5. Counted' /\ Owned'
    BY <1>1, <2>1 DEF Counted, Owned, list
  <2>6. Walk'
    <3>1. \A b \in live : b < next[cursor] => used[b] = Slot
      BY <1>4, <2>2, LiveBlocks, <1>1
    <3>2. \A b \in live : used[b] # {}
      BY <1>2, <1>3, <1>5
    <3> QED
      BY <1>1, <1>2, <2>1, <2>2, <3>1, <3>2 DEF Walk, list
  <2> QED
    BY <1>1, <2>1, <2>3, <2>4, <2>5, <2>6 DEF Inv
<1> QED
  BY <1>6, <1>7

(* An element comes back, perhaps its block's last. *)
LEMMA FreeInv ==
  ASSUME Inv, NEW t \in Thread, NEW b \in Block, NEW i \in Slot, FreePage(t, b, i)
  PROVE  /\ Inv' /\ created' = created
         /\ <<b, i>> \in Element /\ Abstract!Free(<<b, i>>)
<1>1. /\ TypeOK /\ Ordered /\ Linked /\ BackLinks /\ Counted /\ Owned /\ Walk
      /\ holder = Nobody /\ undefined = FALSE
      /\ <<b, i>> \in held /\ held' = held \ {<<b, i>>}
      /\ size' = size - 1
      /\ element_count' = [element_count EXCEPT ![b] = @ - 1]
      /\ used' = [used EXCEPT ![b] = @ \ {i}]
      /\ UNCHANGED <<created, holder, cursor>>
  BY DEF Inv, FreePage, IsLast
<1>2. b \in live /\ i \in used[b] /\ used[b] = {j \in Slot : <<b, j>> \in held}
  <2>1. b \in live
    BY <1>1 DEF Owned
  <2> QED
    BY <1>1, <2>1 DEF Counted
<1>3. /\ IsFiniteSet(held') /\ size' = Cardinality(held') /\ size' \in Nat
      /\ size' <= Max
  <2>1. IsFiniteSet(held') /\ Cardinality(held') = Cardinality(held) - 1
    BY <1>1, FS_RemoveElement DEF Counted
  <2>2. Cardinality(held') \in Nat
    BY <2>1, FS_CardinalityType
  <2> QED
    BY <1>1, <2>1, <2>2, PoolAssumption DEF Counted, Walk, TypeOK
<1>4. used'[b] = used[b] \ {i} /\ element_count'[b] = element_count[b] - 1
  BY <1>1 DEF TypeOK
<1>5. element_count'[b] = Cardinality(used'[b]) /\ element_count'[b] \in Nat
  <2>1. used[b] \in SUBSET Slot /\ used'[b] \in SUBSET Slot
    BY <1>1, <1>4 DEF TypeOK
  <2>2. IsFiniteSet(used[b]) /\ Cardinality(used'[b]) \in Nat
    BY <2>1, SlotCard
  <2>3. Cardinality(used'[b]) = Cardinality(used[b]) - 1
    <3>1. Cardinality(used[b] \ {i}) = Cardinality(used[b]) - 1
      BY <1>2, <2>2, FS_RemoveElement
    <3> QED
      BY <1>4, <3>1
  <2>4. element_count[b] = Cardinality(used[b])
    BY <1>1, <1>2 DEF Counted
  <2>5. element_count'[b] = Cardinality(used'[b])
    BY <1>4, <2>3, <2>4
  <2> QED
    BY <2>2, <2>5
<1>6. used'[b] = {j \in Slot : <<b, j>> \in held'}
  BY <1>1, <1>2, <1>4
<1>7. \A c \in live \ {b} :
        /\ used'[c] = used[c] /\ used[c] # {}
        /\ used'[c] = {j \in Slot : <<c, j>> \in held'}
        /\ element_count'[c] = Cardinality(used'[c])
  <2> TAKE c \in live \ {b}
  <2>1. used'[c] = used[c] /\ element_count'[c] = element_count[c]
    BY <1>1 DEF TypeOK
  <2>2. \A j \in Slot : <<c, j>> \in held' <=> <<c, j>> \in held
    BY <1>1
  <2>3. used[c] # {}
    BY <1>1 DEF Walk
  <2> QED
    BY <1>1, <2>1, <2>2, <2>3 DEF Counted
<1>8. /\ element_count' \in [Block -> Nat] /\ used' \in [Block -> SUBSET Slot]
      /\ held' \subseteq Element
  BY <1>1, <1>4, <1>5 DEF TypeOK
<1>9. <<b, i>> \in Element /\ Abstract!Free(<<b, i>>)
  BY <1>1 DEF Abstract!Free, TypeOK
<1>10. CASE element_count[b] - 1 # 0
  <2>1. UNCHANGED <<list, live, undefined>>
    BY <1>10 DEF FreePage, IsLast
  <2>2. TypeOK'
    BY <1>1, <1>3, <1>8, <2>1 DEF TypeOK, list
  <2>3. Ordered' /\ Linked' /\ BackLinks'
    BY <1>1, <2>1, SameList
  <2>4. Counted'
    BY <1>1, <1>3, <1>5, <1>6, <1>7, <2>1 DEF Counted, list
  <2>5. Owned'
    BY <1>1, <2>1 DEF Owned
  <2>6. Walk'
    <3>1. used'[b] # {}
      BY <1>4, <1>5, <1>10, FS_EmptySet
    <3> QED
      BY <1>1, <1>3, <1>7, <2>1, <3>1 DEF Walk
  <2> QED
    BY <1>1, <1>9, <2>2, <2>3, <2>4, <2>5, <2>6 DEF Inv
<1>11. CASE element_count[b] - 1 = 0 /\ prev[b] \notin live \cup {NULL}
  <2>1. undefined' = TRUE /\ UNCHANGED <<list, live>>
    BY <1>11 DEF FreePage, FreeBlock, IsLast
  <2>2. TypeOK'
    BY <1>1, <1>3, <1>8, <2>1 DEF TypeOK, list
  <2> QED
    BY <1>1, <1>9, <2>1, <2>2 DEF Inv
<1>12. CASE element_count[b] - 1 = 0 /\ prev[b] \in live \cup {NULL}
  <2>1. RemoveBlock(b) /\ live' = live \ {b} /\ undefined' = FALSE
    BY <1>12 DEF FreePage, FreeBlock, IsLast
  <2>2. /\ start' \in Pointer /\ end' \in Pointer
        /\ next' \in [Block -> Pointer] /\ prev' \in [Block -> Pointer]
        /\ Ordered' /\ Linked' /\ BackLinks'
    BY <1>1, <1>2, <1>12, <2>1, RemoveBlockLinks
  <2>3. block_count' = block_count - 1
    BY <2>1 DEF RemoveBlock
  <2>4. IsFiniteSet(live') /\ block_count' = Cardinality(live') /\ block_count' \in Nat
    <3>1. IsFiniteSet(live') /\ Cardinality(live') = Cardinality(live) - 1
      BY <1>1, <1>2, <2>1, FS_RemoveElement DEF Counted
    <3> QED
      BY <1>1, <2>3, <3>1, FS_CardinalityType DEF Counted
  <2>5. TypeOK'
    BY <1>1, <1>3, <1>8, <2>1, <2>2, <2>4 DEF TypeOK
  <2>6. Counted'
    BY <1>3, <1>7, <2>1, <2>4 DEF Counted
  <2>7. Owned'
    <3>1. used'[b] = {}
      <4>1. IsFiniteSet(used'[b]) /\ Cardinality(used'[b]) = 0
        BY <1>4, <1>5, <1>8, <1>12, SlotCard
      <4> QED
        BY <4>1, FS_EmptySet
    <3>2. \A e \in held' : e \in Element /\ e[1] \in live
      BY <1>1, <1>8 DEF Owned
    <3>3. \A e \in held' : e[1] # b
      BY <1>6, <3>1, <3>2 DEF Element
    <3> QED
      BY <2>1, <3>2, <3>3 DEF Owned
  <2>8. Walk'
    BY <1>1, <1>3, <1>7, <2>1 DEF Walk
  <2> QED
    BY <1>1, <1>9, <2>1, <2>2, <2>5, <2>6, <2>7, <2>8 DEF Inv
<1> QED
  BY <1>10, <1>11, <1>12

-----------------------------------------------------------------------------
(* The empty pool the constructor makes is consistent. *)
LEMMA InitInv == ASSUME Init PROVE Inv
<1>1. TypeOK
  <2>1. NULL \in Pointer /\ 0 \in Nat /\ {} \in SUBSET Slot /\ 0 \in 0..MaxBlocks
    BY PoolAssumption DEF Pointer
  <2>2. /\ [x \in Block |-> NULL] \in [Block -> Pointer]
        /\ [x \in Block |-> 0] \in [Block -> Nat]
        /\ [x \in Block |-> {}] \in [Block -> SUBSET Slot]
    BY <2>1
  <2> QED
    BY <2>1, <2>2 DEF Init, TypeOK
<1>2. Counted
  BY FS_EmptySet DEF Init, Counted
<1>3. Ordered /\ Linked /\ BackLinks /\ Owned /\ Walk
  BY PoolAssumption DEF Init, Ordered, Linked, BackLinks, Owned, Walk
<1> QED
  BY <1>1, <1>2, <1>3 DEF Inv

(* A step that changes nothing, such as alloc_page on a full pool, keeps Inv. *)
LEMMA SameInv ==
  ASSUME Inv, UNCHANGED vars
  PROVE  Inv'
<1>1. TypeOK'
  BY DEF Inv, TypeOK, vars
<1>2. ASSUME ~undefined
      PROVE  Ordered' /\ Linked' /\ BackLinks' /\ Counted' /\ Owned' /\ Walk'
  <2>1. Ordered' /\ Linked' /\ BackLinks'
    <3>1. UNCHANGED <<list, live, created>>
      BY DEF vars, list
    <3>2. Ordered /\ Linked /\ BackLinks
      BY <1>2 DEF Inv
    <3> QED
      BY <3>1, <3>2, SameList
  <2>2. Counted' /\ Owned'
    BY <1>2 DEF Inv, vars, list, Counted, Owned
  <2>3. Walk'
    BY <1>2 DEF Inv, vars, list, Walk
  <2> QED
    BY <2>1, <2>2, <2>3
<1> QED
  BY <1>1, <1>2 DEF Inv, vars

(* One step of the pool: the invariant is kept, a block is only created when
   every element is in use, and the callers see an allocation, a release or
   nothing. *)
LEMMA StepInv ==
  ASSUME Inv, [Next]_vars
  PROVE  /\ Inv'
         /\ created' # created => \A b \in live : used[b] = Slot
         /\ [Abstract!Next]_held
<1>1. CASE UNCHANGED vars
  BY <1>1, SameInv DEF vars
<1>2. ASSUME NEW t \in Thread, AllocFull(t)
      PROVE  UNCHANGED vars
  BY <1>2 DEF AllocFull, Full
<1>3. ASSUME NEW t \in Thread, AllocEnter(t)
      PROVE  /\ Inv' /\ held' = held
             /\ created' # created => \A b \in live : used[b] = Slot
  BY <1>3, EnterInv DEF AllocEnter, Full
<1>4. ASSUME NEW t \in Thread, AllocTake(t)
      PROVE  Inv' /\ created' = created /\ Abstract!Next
  BY <1>4, TakeInv DEF Abstract!Next
<1>5. ASSUME NEW t \in Thread, AllocAdvance(t)
      PROVE  /\ Inv' /\ held' = held
             /\ created' # created => \A b \in live : used[b] = Slot
  BY <1>5, AdvanceInv DEF AllocAdvance, WalkTo
<1>6. ASSUME NEW t \in Thread, NEW b \in Block, NEW i \in Slot, FreePage(t, b, i)
      PROVE  Inv' /\ created' = created /\ Abstract!Next
  BY <1>6, FreeInv DEF Abstract!Next
<1> QED
  BY <1>1, <1>2, <1>3, <1>4, <1>5, <1>6 DEF Next

(* Every state that calls of alloc_page and free_page can reach satisfies the
   inductive invariant. *)
THEOREM Invariance == Spec => []Inv
<1>1. Init => Inv
  BY InitInv
<1>2. Inv /\ [Next]_vars => Inv'
  BY StepInv
<1> QED
  BY <1>1, <1>2, PTL DEF Spec

(* The fields, the walk's cursor and what callers hold keep their types. *)
THEOREM TypeCorrect == Spec => []TypeOK
<1>1. Inv => TypeOK
  BY DEF Inv
<1> QED
  BY <1>1, Invariance, PTL

(* size, block_count, every element_count and the used flags agree with what
   callers hold, however alloc_page's walks and free_page interleave. *)
THEOREM CountsCorrect == Spec => []CountsMatchHeld
<1>1. Inv => CountsMatchHeld
  BY DEF Inv, Counted, CountsMatchHeld
<1> QED
  BY <1>1, Invariance, PTL

(* free_page never destroys a block that has an element handed out. *)
THEOREM HeldPagesSafe == Spec => []HeldPagesExist
<1>1. Inv => HeldPagesExist
  BY DEF Inv, Owned, HeldPagesExist
<1> QED
  BY <1>1, Invariance, PTL

(* add_block_to_pool and remove_block_from_pool keep every existing block, and
   no other, on the list from start to end. *)
THEOREM ListCorrect == Spec => []WellLinked
<1>1. Inv => WellLinked
  BY DEF Inv, WellLinked
<1> QED
  BY <1>1, Invariance, PTL

(* With no alloc_page in progress, every block has an element handed out. *)
THEOREM EmptyBlocksGone == Spec => []NoEmptyBlocks
<1>1. Inv => NoEmptyBlocks
  BY DEF Inv, Walk, NoEmptyBlocks
<1> QED
  BY <1>1, Invariance, PTL

(* alloc_page adds a block only to a pool all of whose elements are in use. *)
THEOREM GrowthNeeded == Spec => GrowsOnlyWhenFull
<1>1. Inv /\ [Next]_vars =>
        [created' # created => \A b \in live : used[b] = Slot]_vars
  BY StepInv
<1> QED
  BY <1>1, Invariance, PTL DEF Spec, GrowsOnlyWhenFull

(* To its callers the pool, walks, blocks and mutex and all, is a set of
   elements given out at most Max at a time and each to one caller only. *)
THEOREM PoolRefinesAllocator == Spec => ImplementsPageAllocator
<1>1. Init => Abstract!Init
  BY DEF Init, Abstract!Init
<1>2. Inv /\ [Next]_vars => [Abstract!Next]_held
  BY StepInv
<1> QED
  BY <1>1, <1>2, Invariance, PTL DEF Spec, ImplementsPageAllocator, Abstract!Spec

=============================================================================
