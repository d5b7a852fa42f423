--------------------------- MODULE EventQueueProofs ---------------------------
(***************************************************************************)
(* Proofs about EventQueue, for a ring of any size.                        *)
(*                                                                         *)
(* In the handler's first round the entries in front of the ones posted    *)
(* hold the events, in order, and those behind are still the hardware's,   *)
(* except the last one: so the handler's head, which is as far as the      *)
(* number of events it has read, never passes what is posted.              *)
(***************************************************************************)
EXTENDS EventQueue, SequenceTheorems, TLAPS

(* The entries the HCA has handed over, the one it writes, and those it still
   owns. *)
PostedInOrder ==
  /\ writing # NoEvent => writing = posted + 1 /\ data[posted] = writing
  /\ \A s \in Slot : /\ s < posted => owner[s] = "sw" /\ data[s] = s + 1
                     /\ posted <= s /\ s < Size - 1 => owner[s] = "hw"

(* In the first round the head counts the events read. *)
HeadCounts == Len(first) < Size - 1 => head = Len(first)

Inv == TypeOK /\ PostedInOrder /\ HeadCounts /\ FirstRoundInOrder

-----------------------------------------------------------------------------
LEMMA InitInv ==
  ASSUME Init
  PROVE  Inv
<1> USE EventQueueAssumption DEF Init
<1>1. TypeOK
  <2>1. InitEq \in [Slot -> {"hw", "sw"}] /\ [s \in Slot |-> NoEvent] \in [Slot -> 0..Size]
    BY DEF InitEq, NoEvent
  <2>2. 0 \in Slot /\ <<>> \in Seq(0..Size) /\ Len(<<>>) = 0
    BY DEF Slot
  <2> QED
    BY <2>1, <2>2 DEF TypeOK, NoEvent
<1>2. PostedInOrder
  BY DEF PostedInOrder, InitEq, Slot
<1>3. HeadCounts /\ FirstRoundInOrder
  BY DEF HeadCounts, FirstRoundInOrder
<1> QED
  BY <1>1, <1>2, <1>3 DEF Inv

(* In the first round an entry that is the software's has been posted, and holds
   the event after the last one read. *)
LEMMA NextEvent ==
  ASSUME Inv, ReadEqe, Len(first) < Size - 1
  PROVE  /\ data[head] = Len(first) + 1 /\ NextHead = Len(first) + 1
         /\ NextHead \in Slot
<1>1. /\ head = Len(first) /\ head \in Slot /\ owner[head] # "hw"
      /\ Len(first) \in Nat /\ posted \in 0..Size
  BY DEF Inv, HeadCounts, TypeOK, ReadEqe, EqeOwnedByHw
<1>2. head < posted
  BY <1>1, EventQueueAssumption DEF Inv, PostedInOrder, Slot
<1> QED
  BY <1>1, <1>2, EventQueueAssumption DEF Inv, PostedInOrder, NextHead, Slot

LEMMA StepInv ==
  ASSUME Inv, [Next]_vars
  PROVE  Inv'
<1> USE EventQueueAssumption
<1>1. TypeOK /\ PostedInOrder /\ HeadCounts /\ FirstRoundInOrder
  BY DEF Inv
<1>2. ASSUME UNCHANGED <<head, first>>
      PROVE  HeadCounts' /\ FirstRoundInOrder'
  BY <1>1, <1>2 DEF HeadCounts, FirstRoundInOrder
<1>3. ASSUME UNCHANGED queue
      PROVE  PostedInOrder'
  BY <1>1, <1>3 DEF PostedInOrder, queue
<1>4. CASE UNCHANGED vars
  BY <1>1, <1>2, <1>3, <1>4 DEF vars, queue, TypeOK, Inv
<1>5. CASE HcaWrites
  <2>1. /\ posted \in Slot /\ posted + 1 \in 0..Size
        /\ data' = [data EXCEPT ![posted] = posted + 1] /\ writing' = posted + 1
    BY <1>1, <1>5 DEF HcaWrites, TypeOK, Slot
  <2>2. TypeOK'
    BY <1>1, <1>5, <2>1 DEF HcaWrites, TypeOK
  <2>3. PostedInOrder'
    BY <1>1, <1>5, <2>1 DEF HcaWrites, PostedInOrder, TypeOK, Slot
  <2> QED
    BY <1>2, <1>5, <2>2, <2>3 DEF HcaWrites, Inv
<1>6. CASE HcaPosts
  <2>1. writing = posted + 1 /\ writing \in 0..Size /\ posted \in Slot
    BY <1>1, <1>6 DEF HcaPosts, PostedInOrder, TypeOK, Slot
  <2>2. owner' = [owner EXCEPT ![posted] = "sw"] /\ posted' = posted + 1
    BY <2>1, <1>1, <1>6 DEF HcaPosts, TypeOK
  <2>3. TypeOK'
    BY <1>1, <1>6, <2>1, <2>2 DEF HcaPosts, TypeOK, NoEvent
  <2>4. PostedInOrder'
    <3>1. /\ posted + 1 \in Nat /\ posted \in Nat /\ writing' = NoEvent
          /\ data' = data /\ data[posted] = posted + 1 /\ owner'[posted] = "sw"
          /\ \A s \in Slot : s # posted => owner'[s] = owner[s]
      BY <1>1, <1>6, <2>1, <2>2 DEF HcaPosts, PostedInOrder, TypeOK, Slot
    <3>2. ASSUME NEW s \in Slot
          PROVE  /\ s < posted' => owner'[s] = "sw" /\ data'[s] = s + 1
                 /\ posted' <= s /\ s < Size - 1 => owner'[s] = "hw"
      BY <1>1, <2>2, <3>1 DEF PostedInOrder, Slot
    <3> QED
      BY <3>1, <3>2 DEF PostedInOrder
  <2> QED
    BY <1>2, <1>6, <2>3, <2>4 DEF HcaPosts, Inv
<1>7. CASE ReadEqe
  <2>1. /\ data[head] \in 0..Size /\ head' = NextHead /\ NextHead \in Slot
        /\ Len(first) \in Nat /\ first \in Seq(0..Size)
    BY <1>1, <1>7 DEF ReadEqe, ReadEntry, TypeOK, NextHead, Slot
  <2>2. ASSUME Len(first) < Size - 1
        PROVE  HeadCounts' /\ FirstRoundInOrder'
    <3>1. first' = Append(first, data[head])
      BY <1>7, <2>2 DEF ReadEqe, ReadEntry
    <3>2. /\ first' \in Seq(0..Size) /\ Len(first') = Len(first) + 1
          /\ \A i \in 1..Len(first) : first'[i] = first[i]
          /\ first'[Len(first) + 1] = data[head]
      BY <2>1, <3>1, AppendProperties
    <3>3. data[head] = Len(first) + 1 /\ head' = Len(first) + 1
      BY <1>7, <2>1, <2>2, NextEvent
    <3>4. \A i \in 1..Len(first') : first'[i] = i
      BY <1>1, <2>1, <3>2, <3>3 DEF FirstRoundInOrder
    <3> QED
      BY <2>1, <2>2, <3>2, <3>3, <3>4 DEF HeadCounts, FirstRoundInOrder
  <2>3. ASSUME ~(Len(first) < Size - 1)
        PROVE  HeadCounts' /\ FirstRoundInOrder'
    BY <1>1, <1>7, <2>3 DEF ReadEqe, ReadEntry, HeadCounts, FirstRoundInOrder
  <2>4. TypeOK'
    <3>1. first' \in Seq(0..Size) /\ Len(first') < Size
      <4>1. CASE Len(first) < Size - 1
        <5>1. first' = Append(first, data[head])
          BY <1>7, <4>1 DEF ReadEqe, ReadEntry
        <5>2. first' \in Seq(0..Size) /\ Len(first') = Len(first) + 1
          BY <2>1, <5>1, AppendProperties
        <5> QED
          BY <2>1, <4>1, <5>2
      <4>2. CASE ~(Len(first) < Size - 1)
        BY <1>1, <1>7, <4>2 DEF ReadEqe, ReadEntry, TypeOK
      <4> QED
        BY <4>1, <4>2
    <3>2. at' \in {"wait", "look", "work"} /\ again' \in BOOLEAN
      BY <1>7 DEF ReadEqe, ReadEntry
    <3>3. seen' \subseteq 0..Size
      BY <1>1, <1>7, <2>1 DEF ReadEqe, ReadEntry, TypeOK
    <3> QED
      BY <1>1, <1>7, <2>1, <3>1, <3>2, <3>3 DEF ReadEqe, ReadEntry, queue, TypeOK
  <2> QED
    BY <1>3, <1>7, <2>2, <2>3, <2>4 DEF ReadEqe, ReadEntry, Inv
<1>8. CASE HcaInterrupts \/ Wakes \/ FindsNothing \/ Handled
  BY <1>1, <1>2, <1>3, <1>8
  DEF HcaInterrupts, Wakes, FindsNothing, Handled, TypeOK, queue, Inv
<1> QED
  BY <1>4, <1>5, <1>6, <1>7, <1>8 DEF Next, HandlerStep

(* The inductive invariant holds in every state of the queue. *)
THEOREM Invariance == Spec => []Inv
<1>1. Init => Inv
  BY InitInv
<1>2. Inv /\ [Next]_vars => Inv'
  BY StepInv
<1> QED
  BY <1>1, <1>2, PTL DEF Spec

(* The variables keep to their types: the handler's head never leaves the ring. *)
THEOREM TypeCorrect == Spec => []TypeOK
BY Invariance, PTL DEF Inv

(* In its first round through the ring read_eqe returns the HCA's events, each whole
   and once, in the order they were posted: none is read before the HCA has handed
   it over, although init_eq leaves the last entry the software's. *)
THEOREM FirstRoundRead == Spec => []FirstRoundInOrder
BY Invariance, PTL DEF Inv

=============================================================================
