----------------------------- MODULE BringUpProofs -----------------------------
(***************************************************************************)
(* Proofs about BringUp: what PciDeviceProofs shows of the device's setup  *)
(* goes on holding while main waits for the firmware and sends commands,   *)
(* what MailboxProofs shows of commands holds from the first one, and each *)
(* part of main starts only where the one before it has ended.             *)
(***************************************************************************)
EXTENDS BringUp, PciDeviceProofs, MailboxProofs

(* main's parts come in order, each after what it needs. *)
PhaseInv ==
  /\ phase \in {"pci", "wait", "check", "address", "wait_again", "commands", "stopped"}
  /\ waited \in 0..WaitTurns /\ initializing \in BOOLEAN /\ told \in BOOLEAN
  /\ phase \notin {"pci", "stopped"} => at = "ready"
  /\ phase \in {"wait_again", "commands"} => told
  /\ phase = "commands" => ~initializing

Inv == PciInv /\ MailInv /\ PhaseInv

-----------------------------------------------------------------------------
LEMMA InitInv == Init => Inv
<1> SUFFICES ASSUME Init
             PROVE  Inv
  OBVIOUS
<1>1. PciInv /\ MailInv
  BY PciInitInv, MailInitInv DEF Init
<1>2. 0 \in 0..WaitTurns
  BY BringUpAssumption
<1>3. phase = "pci" /\ waited = 0 /\ initializing \in BOOLEAN /\ told = FALSE
  BY DEF Init
<1>4. PhaseInv
  BY <1>2, <1>3 DEF PhaseInv
<1> QED
  BY <1>1, <1>4 DEF Inv

(* Only SetUp touches the device, as PciDevice says, and only commands touch what
   Mailbox is about. *)
LEMMA PartsStep ==
  ASSUME Inv, [Next]_vars
  PROVE  PciInv' /\ MailInv'
<1>1. [PciNext]_pci_vars
  BY DEF vars, Next, MainStep, SetUp, FirstWait, SecondWait, InitWait, CheckQueue,
         TellAddress, Command, HcaInitialized, HcaExecutes
<1>2. [MailNext]_mail_vars
  BY DEF vars, Next, MainStep, SetUp, FirstWait, SecondWait, InitWait, CheckQueue,
         TellAddress, Command, HcaInitialized, HcaExecutes, MailNext
<1> QED
  BY <1>1, <1>2, PciStepInv, MailStepInv DEF Inv

LEMMA PhaseStep ==
  ASSUME Inv, [Next]_vars
  PROVE  PhaseInv'
<1>1. WaitTurns \in Nat /\ PhaseInv
  BY BringUpAssumption DEF Inv
<1>2. CASE SetUp
  <2>1. phase = "pci" /\ UNCHANGED <<waited, initializing, told>>
    BY <1>2 DEF SetUp
  <2>2. phase' = "pci" \/ (phase' = "wait" /\ at' = "ready")
    BY <1>2 DEF SetUp, pci_vars
  <2> QED
    BY <1>1, <2>1, <2>2 DEF PhaseInv
<1> SUFFICES ASSUME ~SetUp
             PROVE  PhaseInv'
  BY <1>2
<1>3. UNCHANGED at
  BY DEF vars, pci_vars, Next, MainStep, FirstWait, SecondWait, InitWait, CheckQueue,
         TellAddress, Command, HcaInitialized, HcaExecutes
<1>4. ASSUME NEW from \in {"wait", "wait_again"}, NEW to \in {"check", "commands"},
             InitWait(from, to), to = "commands" => from = "wait_again"
      PROVE  PhaseInv'
  <2>1. phase = from /\ UNCHANGED <<initializing, told>>
    BY <1>4 DEF InitWait
  <2>2. CASE ~initializing
    <3>1. phase' = to /\ waited' = 0
      BY <1>4, <2>2 DEF InitWait
    <3> QED
      BY <1>1, <1>3, <1>4, <2>1, <2>2, <3>1 DEF PhaseInv
  <2>3. CASE initializing /\ Expired
    <3>1. phase' = "stopped" /\ UNCHANGED waited
      BY <1>4, <2>3 DEF InitWait
    <3> QED
      BY <1>1, <1>3, <2>1, <3>1 DEF PhaseInv
  <2>4. CASE initializing /\ ~Expired
    <3>1. UNCHANGED phase /\ waited' = Lower(waited + 1, WaitTurns)
      BY <1>4, <2>4 DEF InitWait
    <3>2. waited' \in 0..WaitTurns
      BY <1>1, <3>1 DEF PhaseInv, Lower
    <3> QED
      BY <1>1, <1>3, <2>1, <3>1, <3>2 DEF PhaseInv
  <2> QED
    BY <2>2, <2>3, <2>4
<1>5. CASE FirstWait
  BY <1>4, <1>5 DEF FirstWait
<1>6. CASE SecondWait
  BY <1>4, <1>6 DEF SecondWait
<1>7. CASE CheckQueue
  BY <1>1, <1>3, <1>7 DEF CheckQueue, PhaseInv
<1>8. CASE TellAddress
  BY <1>1, <1>3, <1>8 DEF TellAddress, PhaseInv
<1>9. CASE HcaInitialized
  BY <1>1, <1>3, <1>9 DEF HcaInitialized, PhaseInv
<1>10. CASE UNCHANGED vars \/ Command \/ HcaExecutes
  BY <1>1, <1>3, <1>10 DEF vars, init_vars, Command, HcaExecutes, PhaseInv
<1> QED
  BY <1>5, <1>6, <1>7, <1>8, <1>9, <1>10 DEF Next, MainStep

(* The inductive invariant of main and the device. *)
THEOREM Invariance == Spec => []Inv
<1>1. Init => Inv
  BY InitInv
<1>2. Inv /\ [Next]_vars => Inv'
  BY PartsStep, PhaseStep DEF Inv
<1> QED
  BY <1>1, <1>2, PTL DEF Spec

-----------------------------------------------------------------------------
(* The variables of main, of the device and of the mailboxes keep to their types. *)
THEOREM TypeCorrect == Spec => []TypeOK
<1>1. Inv => TypeOK
  BY DEF Inv, PciInv, MailInv, PhaseInv, TypeOK
<1> QED
  BY <1>1, Invariance, PTL

(* While a BAR register holds anything but the address the machine gave it, also
   after map_pci_bar failed half way, the device does not answer. *)
THEOREM AddressesDecoded == Spec => []OnlyAddressesDecoded
BY Invariance, PTL DEF Inv, PciInv

(* map_pci_bar maps all of the BAR it was asked for and no page more, for memory BARs
   of every type and size and registers of any width; of the I/O BARs it maps the
   wrong place for just those whose address has the bit that it reads as 64. *)
THEOREM RegionsMapped == Spec => []RegionIsBar
BY Invariance, PTL DEF Inv, PciInv

(* pci_get_dev gives main the last child that was read as an adapter, or one behind
   it to which every read from there on failed; of a bus whose children all answer,
   its last adapter. *)
THEOREM AdapterChosen == Spec => []AdapterFound
BY Invariance, PTL DEF Inv, PciInv

(* init_hca and every command find the device mapped and answering; commands also
   find the HCA initialized, bus-mastering, and the interrupt table in place. *)
THEOREM Reachable == Spec => []DeviceReachable
<1>1. Inv => DeviceReachable
  BY DEF Inv, PhaseInv, PciInv, Registers, InOrder, DeviceReachable
<1> QED
  BY <1>1, Invariance, PTL

-----------------------------------------------------------------------------
(* The HCA gets the payload of a command word for word, for every length and block
   size, whatever earlier commands left in the mailbox that pack_mail fills. *)
THEOREM InputArrives == Spec => []InputDelivered
BY Invariance, PTL DEF Inv, MailInv

(* create_cqe's caller finds in its array what the HCA wrote, word for word: the
   blocks that it counts for the output and the loop of unpack_mail agree with the
   HCA's walk along the pointers. *)
THEOREM OutputArrives == Spec => []OutputDelivered
BY Invariance, PTL DEF Inv, MailInv

(* tie_mail_together gives the HCA no reason for a bad pointer or block number:
   both chains have just the blocks their lengths need, also after longer ones. *)
THEOREM ChainsTied == Spec => []ChainsWellFormed
<1>1. Inv => ChainsWellFormed
  BY MailInvAcceptable DEF Inv
<1> QED
  BY <1>1, Invariance, PTL

=============================================================================
