------------------------------ MODULE EventQueue ------------------------------
(***************************************************************************)
(* The event queue (server/src/event.cc) between the HCA, which writes an  *)
(* entry and then hands it to the software, and the handler thread, which  *)
(* waits for an interrupt, but not for ever, looks at the entry at its     *)
(* head each time it wakes up, and reads it when it is the software's.     *)
(* Events are numbered in the order the HCA posts them; 0 is what an entry *)
(* holds before.                                                           *)
(*                                                                         *)
(* The HCA is external. It fills the ring in order and, as the driver arms *)
(* the queue once, with consumer index 0, it posts no more events than the *)
(* ring has entries. An interrupt may come before or after its event, for  *)
(* several events, or not at all; one that is pending is not counted twice.*)
(***************************************************************************)
EXTENDS Naturals, Sequences

CONSTANT Size   \* entries in the queue; setup_event_queue asks for 4

ASSUME EventQueueAssumption == Size \in Nat /\ Size > 1

Slot == 0..(Size - 1)
Event == 1..Size
NoEvent == 0

VARIABLES
  owner,    \* ownership bit of every entry: "hw" (1) or "sw" (0)
  data,     \* the event in an entry
  writing,  \* the event the HCA has written but not yet handed over
  posted,   \* events handed over
  head,     \* the handler's head
  at,       \* the handler waits, looks at its entry, or answers an event
  irq,      \* an interrupt is pending
  first,    \* the first Size - 1 events the handler has read, in order
  seen,     \* all events it has read
  again     \* the last entry read held no event, or one read before

vars == <<owner, data, writing, posted, head, at, irq, first, seen, again>>
queue == <<owner, data, writing, posted>>

(* Mutant of InitEq: one entry fewer is given to the hardware. *)
InitEqShort == [s \in Slot |-> IF s < Size - 2 THEN "hw" ELSE "sw"]

(* init_eq, on fresh memory: the loop ends before the last entry, which keeps
   its 0. *)
InitEq == [s \in Slot |-> IF s < Size - 1 THEN "hw" ELSE "sw"]

Init ==
  /\ owner = InitEq
  /\ data = [s \in Slot |-> NoEvent]
  /\ writing = NoEvent /\ posted = 0
  /\ head = 0
  /\ at = "wait" /\ irq = FALSE
  /\ first = <<>> /\ seen = {}
  /\ again = FALSE

-----------------------------------------------------------------------------
(* The HCA writes the next event into its entry, ... *)
HcaWrites ==
  /\ writing = NoEvent /\ posted < Size
  /\ writing' = posted + 1
  /\ data' = [data EXCEPT ![posted] = posted + 1]
  /\ UNCHANGED <<owner, posted, head, at, irq, first, seen, again>>

(* ... and then hands the entry over. *)
HcaPosts ==
  /\ writing # NoEvent
  /\ owner' = [owner EXCEPT ![writing - 1] = "sw"]
  /\ posted' = writing
  /\ writing' = NoEvent
  /\ UNCHANGED <<data, head, at, irq, first, seen, again>>

HcaInterrupts ==
  /\ ~irq /\ irq' = TRUE
  /\ UNCHANGED <<queue, head, at, first, seen, again>>

-----------------------------------------------------------------------------
(* The handler's receive ends with an interrupt or when its time is up. Mutant of
   TimesOut: L4_IPC_NEVER, as in the line that is commented out (driver.cc:485). *)
TimesOutNever == FALSE
TimesOut == TRUE

Wakes ==
  /\ at = "wait"
  /\ irq \/ TimesOut
  /\ at' = "look" /\ irq' = FALSE
  /\ UNCHANGED <<queue, head, first, seen, again>>

EqeOwnedByHw == owner[head] = "hw"

FindsNothing ==
  /\ at = "look" /\ EqeOwnedByHw
  /\ at' = "wait"
  /\ UNCHANGED <<queue, irq, head, first, seen, again>>

(* Mutant of NextHead: it wraps one entry late. *)
NextHeadLate == IF head + 1 > Size THEN 0 ELSE head + 1

NextHead == IF head + 1 >= Size THEN 0 ELSE head + 1

ReadEntry(new_head) ==
  /\ at' = "work"
  /\ head' = new_head
  /\ first' = IF Len(first) < Size - 1 THEN Append(first, data[head]) ELSE first
  /\ seen' = seen \cup {data[head]}
  /\ again' = (data[head] \in seen \cup {NoEvent})
  /\ UNCHANGED <<queue, irq>>

(* Mutant of ReadEqe: without the check of the owner. *)
ReadEqeUnchecked == at = "look" /\ ReadEntry(NextHead)

(* The handler finds the entry at its head the software's and reads it; the
   ownership bit stays as it is. *)
ReadEqe == at = "look" /\ ~EqeOwnedByHw /\ ReadEntry(NextHead)

(* The handler has provided or reclaimed the pages, and waits again. *)
Handled ==
  /\ at = "work"
  /\ at' = "wait"
  /\ UNCHANGED <<queue, irq, head, first, seen, again>>

HandlerStep == Wakes \/ FindsNothing \/ ReadEqe \/ Handled

Next == HcaWrites \/ HcaPosts \/ HcaInterrupts \/ HandlerStep

Spec == Init /\ [][Next]_vars

(* The handler's loop runs as long as the server does. The HCA finishes a
   post it has begun; it owes no interrupt. *)
Fairness == WF_vars(HandlerStep) /\ WF_vars(HcaPosts)

FairSpec == Spec /\ Fairness

-----------------------------------------------------------------------------
TypeOK ==
  /\ owner \in [Slot -> {"hw", "sw"}]
  /\ data \in [Slot -> 0..Size]
  /\ writing \in 0..Size /\ posted \in 0..Size
  /\ head \in Slot
  /\ at \in {"wait", "look", "work"} /\ irq \in BOOLEAN
  /\ first \in Seq(0..Size) /\ Len(first) < Size
  /\ seen \subseteq 0..Size
  /\ again \in BOOLEAN

(* The handler's first Size - 1 events are the HCA's first, in the order they
   were posted, each whole and each once: no entry is read before the HCA has
   handed it over. *)
FirstRoundInOrder == \A i \in 1..Len(first) : first[i] = i

(* No event stays unread in the ring, also when its interrupt is late, is one for
   several events, or never comes. *)
EveryEventRead == \A e \in Event : posted >= e ~> e \in seen

(* The handler's "check if event occurred" (driver.cc:488) lets only an event
   pass that has occurred and was not read before. *)
NoPhantomEvent == ~again

=============================================================================
