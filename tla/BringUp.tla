-------------------------------- MODULE BringUp --------------------------------
(***************************************************************************)
(* The main thread from the empty bus to commands that work: main sets the *)
(* PCI device up (PciDevice), init_hca waits for the firmware, looks at    *)
(* the size of its command queue, tells it where the queue is and waits    *)
(* again (server/src/driver.cc), and then commands with mailboxes go to    *)
(* the HCA (Mailbox).                                                      *)
(*                                                                         *)
(* One thread runs all of it, one part after the other: the module         *)
(* composes the two others in sequence. The HCA, which clears the          *)
(* initializing bit when it wants and executes commands, is external.      *)
(***************************************************************************)
EXTENDS PciDevice, Mailbox

CONSTANT WaitTurns      \* turns of init_wait's loop before its time is up: 250

ASSUME BringUpAssumption ==
  /\ WaitTurns \in Nat
  /\ \A h \in Hardware : h.log_size \in 0..15 /\ h.log_stride \in 0..15

VARIABLES
  phase,             \* which part main is in
  waited,            \* init_wait: how long
  initializing,      \* the bit of the initialization segment
  told               \* the HCA knows the address of the queue

init_vars == <<phase, waited, initializing, told>>
vars == <<pci_vars, mail_vars, init_vars>>

Init ==
  /\ PciInit /\ MailInit
  /\ phase = "pci" /\ waited = 0 /\ initializing \in BOOLEAN /\ told = FALSE

-----------------------------------------------------------------------------
SetUp ==
  /\ phase = "pci"
  /\ \/ PciNext /\ UNCHANGED phase
     \/ at = "ready" /\ phase' = "wait" /\ UNCHANGED pci_vars
  /\ UNCHANGED <<mail_vars, waited, initializing, told>>

(* init_wait looks at the bit, then at the clock, then sleeps. Mutant of
   Expired: no look at the clock. *)
NeverExpired == FALSE
Expired == waited >= WaitTurns

InitWait(from, to) ==
  /\ phase = from
  /\ IF ~initializing THEN phase' = to /\ waited' = 0
     ELSE IF Expired THEN phase' = "stopped" /\ UNCHANGED waited
     ELSE waited' = Lower(waited + 1, WaitTurns) /\ UNCHANGED phase
  /\ UNCHANGED <<pci_vars, mail_vars, initializing, told>>

FirstWait == InitWait("wait", "check")
SecondWait == InitWait("wait_again", "commands")

(* The HCA's queue has at most 32 entries and fits into a page. *)
QueueFits == 2 ^ hw.log_size <= 32 /\ hw.log_size + hw.log_stride <= 12

CheckQueue ==
  /\ phase = "check"
  /\ phase' = IF QueueFits THEN "address" ELSE "stopped"
  /\ UNCHANGED <<pci_vars, mail_vars, waited, initializing, told>>

(* On the queue's address the HCA may start to initialize again. At other times it
   is taken not to raise the bit: the code does not look at it again. *)
TellAddress ==
  /\ phase = "address" /\ phase' = "wait_again"
  /\ told' = TRUE
  /\ initializing' \in BOOLEAN
  /\ UNCHANGED <<pci_vars, mail_vars, waited>>

Command ==
  /\ phase = "commands"
  /\ MailStep
  /\ UNCHANGED <<pci_vars, init_vars>>

MainStep == SetUp \/ FirstWait \/ CheckQueue \/ TellAddress \/ SecondWait \/ Command

HcaInitialized ==
  /\ initializing /\ initializing' = FALSE
  /\ UNCHANGED <<pci_vars, mail_vars, phase, waited, told>>

HcaExecutes ==
  /\ phase = "commands"
  /\ Execute
  /\ UNCHANGED <<pci_vars, init_vars>>

Next == MainStep \/ HcaInitialized \/ HcaExecutes

(* Main is scheduled; the HCA owes nothing. *)
Spec == Init /\ [][Next]_vars /\ WF_vars(MainStep)

-----------------------------------------------------------------------------
TypeOK ==
  /\ PciTypeOK /\ MailTypeOK
  /\ phase \in {"pci", "wait", "check", "address", "wait_again", "commands", "stopped"}
  /\ waited \in 0..WaitTurns /\ initializing \in BOOLEAN /\ told \in BOOLEAN

(* No register is used before BAR 0 is mapped and answers, and no command goes
   to the HCA before it has finished with its initialization, knows its queue,
   can reach it by bus-mastering through a bound DMA space, and can interrupt
   with a table that is mapped and has vectors enough. *)
DeviceReachable ==
  /\ phase \notin {"pci", "stopped"} => decode /\ region[0] # Nothing
  /\ phase = "commands" =>
       /\ told /\ ~initializing
       /\ master /\ bound
       /\ msix /\ region[hw.bir] # Nothing /\ hw.table_size >= 9

(* Bringing the device up and its commands come to an end, all done or the program
   stopped, whatever the HCA does and whatever fails, with one exception: get_pci_cap
   follows a list of capabilities that comes back to itself, and in which MSI-X is
   not, for ever. *)
BringUpEnds ==
  \/ <>(\/ at = "stopped" \/ phase = "stopped" \/ step = "stopped"
        \/ phase = "commands" /\ step = "idle" /\ mail = MaxMails)
  \/ /\ hw.loop # 0 /\ \A j \in DOMAIN hw.caps : hw.caps[j] # "msix"
     /\ <>[](at \in {"caps", "id"})

=============================================================================
