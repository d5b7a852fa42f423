------------------------------- MODULE PciDevice -------------------------------
(***************************************************************************)
(* From the bus to a device that can be used (server/src/device.cc, called *)
(* from main.cc): pick the adapter among the devices of the bus, size and  *)
(* map its BAR 0, enable MSI-X, map the BAR that holds the MSI-X table,    *)
(* and bind a DMA space. It is one thread, but each access to the          *)
(* configuration space can fail, and the device is there in between: while *)
(* a BAR is sized its register holds no address.                           *)
(*                                                                         *)
(* The machine and the answers of its configuration space are external:    *)
(* a BAR register keeps the bits of an address that its size leaves free,  *)
(* and its type in the low bits.                                           *)
(***************************************************************************)
EXTENDS Integers, Sequences

CONSTANTS
  Full,       \* values of a register: 2 ^ 32
  PageSize,   \* L4_PAGESIZE
  Hardware    \* the machines: the children of the bus, and of the one that is
              \* picked the BARs, capabilities and tables

Kind == {"mem64", "mem32", "io", "high", "none"}   \* "high": second half of a mem64
Mappable == {"mem64", "mem32", "io"}
BarNo == 0..6                            \* the six BARs, and the register behind them

(* A child that is no PCI device has no configuration space to read; of others the
   first read may fail too. Of a size, which is a power of two, it is only said
   what it divides. A list of capabilities may come back to one of its own. *)
ASSUME PciAssumption ==
  /\ Full \in Nat \ {0} /\ Full % 16 = 0 /\ PageSize \in Nat \ {0}
  /\ \A h \in Hardware :
       /\ h.vbus \in Seq({"mlx", "pci", "other"})
       /\ \A j \in DOMAIN h.vbus : h.vbus[j] = "other" => j \in h.silent
       /\ h.caps \in Seq(STRING) /\ h.loop \in 0..Len(h.caps)
       /\ h.bars \in [BarNo -> [kind : Kind, prefetchable : BOOLEAN, addr : Nat, size : Nat]]
       /\ h.bir \in 0..5 /\ h.bars[6].kind = "none" /\ h.table_size \in Nat
       /\ \A j \in BarNo : LET b == h.bars[j] IN
            /\ b.kind \in Mappable =>
                 /\ b.size > 0 /\ b.addr % b.size = 0
                 /\ IF b.kind = "io" THEN b.size % 4 = 0 /\ ~b.prefetchable
                    ELSE b.size % 16 = 0
                 /\ IF b.kind = "mem64"
                    THEN /\ b.addr + b.size < Full * Full
                         /\ \/ Full % b.size = 0
                            \/ b.size % Full = 0 /\ (Full * Full) % b.size = 0
                    ELSE b.addr + b.size < Full /\ Full % b.size = 0
            /\ b.kind = "mem64" => j + 1 \in BarNo /\ h.bars[j + 1].kind = "high"
            /\ b.kind = "high" => j - 1 \in BarNo /\ h.bars[j - 1].kind = "mem64"

VARIABLES
  hw,                  \* the machine
  at,                  \* where main is
  child, id_reg, dev,  \* pci_get_dev: the child it looks at, what it read, its result
  decode, master,      \* command register: memory and I/O space on, bus master
  reg,                 \* the BAR registers
  idx, addr, size,     \* map_pci_bar: its BAR, what it read of the two registers
  region,              \* what is mapped for each BAR
  cap,                 \* get_pci_cap: the capability it is at; 0 is no pointer
  msix,                \* MSI-X is enabled
  bound                \* the DMA space is bound, with the queue and mailboxes in it

find_vars == <<child, id_reg, dev>>
bar_vars == <<decode, master, reg, idx, addr, size, region>>
pci_vars == <<hw, at, find_vars, bar_vars, cap, msix, bound>>

-----------------------------------------------------------------------------
Bit(v, weight) == (v \div weight) % 2 = 1
Clear(v, unit) == v - (v % unit)         \* v with the bits below unit cleared
Lower(v, w) == IF v < w THEN v ELSE w

Flags(b) ==
  (CASE b.kind = "mem64" -> 4 [] b.kind = "io" -> 1 [] OTHER -> 0)
    + IF b.prefetchable THEN 8 ELSE 0

(* What BAR register j of the machine holds after v is written to it. *)
Written(j, v) ==
  LET b == hw.bars[j] IN
  CASE b.kind = "none" -> 0
    [] b.kind = "high" ->
         Clear(v, IF hw.bars[j - 1].size > Full THEN hw.bars[j - 1].size \div Full ELSE 1)
    [] OTHER -> Clear(v, Lower(b.size, Full)) + Flags(b)

(* What it holds before anyone sizes it: the address that the machine gave. *)
Assigned(j) ==
  LET b == hw.bars[j] IN
  CASE b.kind = "none" -> 0
    [] b.kind = "high" -> hw.bars[j - 1].addr \div Full
    [] OTHER -> (b.addr % Full) + Flags(b)

Nothing == [start |-> 0, size |-> 0]

(* id_reg is uninitialised; decode and master are as the machine left them. *)
PciInit ==
  /\ hw \in Hardware
  /\ at = "find" /\ child = 0 /\ id_reg \in {"mlx", "pci"} /\ dev = 0
  /\ decode \in BOOLEAN /\ master \in BOOLEAN
  /\ reg = [j \in BarNo |-> Assigned(j)]
  /\ idx = 0
  /\ addr = [lsb |-> 0, msb |-> 0] /\ size = [lsb |-> 0, msb |-> 0]
  /\ region = [j \in BarNo |-> Nothing]
  /\ cap = 0 /\ msix = FALSE /\ bound = FALSE

-----------------------------------------------------------------------------
(* The vendor is 0x15b3. Mutant of IsMellanox: takes any device. *)
AnyVendor(id) == TRUE
IsMellanox(id) == id = "mlx"

(* A turn of pci_get_dev's loop. The result of cfg_read is not looked at: when it
   fails, id_reg stays what it was. *)
Find ==
  LET c == child + 1 IN
  /\ at = "find" /\ c \in DOMAIN hw.vbus
  /\ child' = c
  /\ id_reg' = IF c \in hw.silent THEN id_reg ELSE hw.vbus[c]
  /\ dev' = IF IsMellanox(id_reg') THEN c ELSE dev
  /\ UNCHANGED <<hw, at, bar_vars, cap, msix, bound>>

Found ==
  /\ at = "find" /\ child = Len(hw.vbus)
  /\ at' = "off" /\ idx' = 0
  /\ UNCHANGED <<hw, find_vars, decode, master, reg, addr, size, region, cap, msix, bound>>

(* Main goes from one label to the next with an access that succeeds; only PCI
   devices have a configuration space. *)
Access(from, to) ==
  /\ at = from /\ at' = to
  /\ dev # 0 /\ hw.vbus[dev] # "other"
  /\ UNCHANGED <<hw, find_vars>>

-----------------------------------------------------------------------------
(* map_pci_bar. Mutant of DecodeOff: the spaces stay as they are. *)
DecodeKept == decode
DecodeOff == FALSE

SpacesOff ==
  /\ Access("off", "ones")
  /\ decode' = DecodeOff /\ master' = TRUE
  /\ UNCHANGED <<reg, idx, addr, size, region, cap, msix, bound>>

(* Read a register's address and write ones, ... *)
Ones(from, to, half, j) ==
  /\ Access(from, to)
  /\ addr' = [addr EXCEPT ![half] = reg[j]]
  /\ reg' = [reg EXCEPT ![j] = Written(j, Full - 1)]
  /\ UNCHANGED <<decode, master, idx, size, region, cap, msix, bound>>

(* ... read what stayed of them and write the address back. *)
Back(from, to, half, j) ==
  /\ Access(from, to)
  /\ size' = [size EXCEPT ![half] = reg[j]]
  /\ reg' = [reg EXCEPT ![j] = Written(j, addr[half])]
  /\ UNCHANGED <<decode, master, idx, addr, region, cap, msix, bound>>

(* The bit is looked at first: in an I/O BAR it belongs to the address. Mutant of
   Is64: the bit above, which says prefetchable. *)
IsPrefetchable == Bit(addr.lsb, 8)
Is64 == Bit(addr.lsb, 4)
IsIo == Bit(addr.lsb, 1)

SizeLow == Ones("ones", "back", "lsb", idx)
RestoreLow == Back("back", IF Is64 THEN "ones_hi" ELSE "on", "lsb", idx)
SizeHigh == Ones("ones_hi", "back_hi", "msb", idx + 1)
RestoreHigh == Back("back_hi", "on", "msb", idx + 1)

SpacesOn ==
  /\ Access("on", "attach")
  /\ decode' = TRUE
  /\ UNCHANGED <<master, reg, idx, addr, size, region, cap, msix, bound>>

Complement(v, modulus) == (modulus - v) % modulus       \* ~v + 1

bar_addr ==
  IF Is64 THEN addr.msb * Full + Clear(addr.lsb, 16)
  ELSE Clear(addr.lsb, IF IsIo THEN 4 ELSE 16)

bar_size ==
  IF Is64 THEN Complement(size.msb * Full + Clear(size.lsb, 16), Full * Full)
  ELSE Complement(Clear(size.lsb, IF IsIo THEN 4 ELSE 16), Full)

RoundPage(n) == Clear(n + PageSize - 1, PageSize)

(* After BAR 0 comes MSI-X, after the BAR with the table the ICU. Without a size
   there is nothing to attach. *)
Attach ==
  /\ bar_size # 0
  /\ Access("attach", IF msix THEN "icu" ELSE "caps")
  /\ region' = [region EXCEPT ![idx] = [start |-> bar_addr, size |-> RoundPage(bar_size)]]
  /\ UNCHANGED <<decode, master, reg, idx, addr, size, cap, msix, bound>>

AttachFails ==
  /\ bar_size = 0
  /\ Access("attach", "stopped")
  /\ UNCHANGED <<bar_vars, cap, msix, bound>>

-----------------------------------------------------------------------------
(* get_pci_cap: without a list main throws; ... *)
NoList ==
  /\ ~hw.listed
  /\ Access("caps", "stopped")
  /\ UNCHANGED <<bar_vars, cap, msix, bound>>

(* ... a turn of its loop reads the pointer to a capability, ... *)
NextCap ==
  /\ hw.listed
  /\ Access("caps", "id")
  /\ cap' = IF cap < Len(hw.caps) THEN cap + 1 ELSE hw.loop
  /\ UNCHANGED <<bar_vars, msix, bound>>

(* ... and its id, also when the pointer is 0 and the list is over. *)
ReadCap ==
  /\ Access("id", IF cap = 0 THEN "stopped"
                  ELSE IF hw.caps[cap] = "msix" THEN "msix" ELSE "caps")
  /\ UNCHANGED <<bar_vars, cap, msix, bound>>

(* The table holds one vector more than its size says; main wants ten. *)
EnoughVectors == hw.table_size # 0 /\ hw.table_size + 1 >= 10

(* Mutant of OwnBar: the table is taken to be in BAR 0. *)
InBarZero == FALSE
OwnBar == hw.bir # 0

(* The rest of setup_msix, which enables MSI-X before it looks at the size, and
   main's choice of the table's BAR. *)
EnableMsix ==
  /\ Access("msix", IF ~EnoughVectors THEN "stopped" ELSE IF OwnBar THEN "off" ELSE "icu")
  /\ msix' = TRUE
  /\ idx' = IF OwnBar THEN hw.bir ELSE idx
  /\ UNCHANGED <<decode, master, reg, addr, size, region, cap, bound>>

GetIcu ==
  /\ Access("icu", "dma")
  /\ UNCHANGED <<bar_vars, cap, msix, bound>>

(* The DMA domain among the device's resources is bound, and main allocates the
   command queue and the mailboxes in it. *)
BindDma ==
  /\ hw.dma
  /\ Access("dma", "ready")
  /\ bound' = TRUE
  /\ UNCHANGED <<bar_vars, cap, msix>>

NoDma ==
  /\ ~hw.dma
  /\ Access("dma", "stopped")
  /\ UNCHANGED <<bar_vars, cap, msix, bound>>

(* An access, an allocation or a mapping fails: chksys throws, nobody catches. *)
SetupThrows ==
  /\ at \notin {"find", "ready", "stopped"}
  /\ at' = "stopped"
  /\ UNCHANGED <<hw, find_vars, bar_vars, cap, msix, bound>>

-----------------------------------------------------------------------------
PciNext ==
  \/ Find \/ Found
  \/ SpacesOff \/ SizeLow \/ RestoreLow \/ SizeHigh \/ RestoreHigh \/ SpacesOn
  \/ Attach \/ AttachFails \/ NoList \/ NextCap \/ ReadCap \/ EnableMsix
  \/ GetIcu \/ BindDma \/ NoDma
  \/ SetupThrows

-----------------------------------------------------------------------------
Half == [lsb : 0..(Full - 1), msb : 0..(Full - 1)]

PciTypeOK ==
  /\ hw \in Hardware
  /\ at \in {"find", "off", "ones", "back", "ones_hi", "back_hi", "on", "attach",
             "caps", "id", "msix", "icu", "dma", "ready", "stopped"}
  /\ child \in 0..Len(hw.vbus) /\ dev \in 0..child /\ id_reg \in {"mlx", "pci"}
  /\ decode \in BOOLEAN /\ master \in BOOLEAN /\ msix \in BOOLEAN /\ bound \in BOOLEAN
  /\ reg \in [BarNo -> 0..(Full - 1)] /\ addr \in Half /\ size \in Half
  /\ idx \in BarNo /\ cap \in 0..Len(hw.caps)
  /\ region \in [BarNo -> [start : Nat, size : Nat]]

(* The device answers only at the addresses the machine gave to its BARs: while
   one holds anything else, also after a failure in the middle of map_pci_bar,
   its memory and I/O spaces are off. *)
OnlyAddressesDecoded == decode => \A j \in BarNo : reg[j] = Assigned(j)

(* An I/O BAR, of four bytes, with the bit that means 64 in a memory BAR. *)
TakenFor64(b) == b.kind = "io" /\ Bit(b.addr, 4)

(* map_pci_bar maps the BAR it was asked for, all of it and no page more, whatever
   its type and whichever halves its size is in, but for one kind of I/O BAR: what
   it maps for that one is somewhere else. *)
RegionIsBar ==
  \A j \in BarNo : LET b == hw.bars[j] IN
    region[j] # Nothing /\ b.kind \in Mappable =>
      IF TakenFor64(b) THEN region[j].start # b.addr
      ELSE /\ region[j].start = b.addr
           /\ b.size <= region[j].size /\ region[j].size < b.size + PageSize

(* pci_get_dev returns the last of the children it has passed that was read as an
   adapter, or one behind it when every read from there on failed: id_reg still has
   the adapter's id then (or, before any read, whatever it had). So if all children
   answer it is the bus's last adapter, and it is no adapter only if its own read,
   and those since the last adapter's, failed. *)
AdapterFound ==
  LET adapters == {j \in DOMAIN hw.vbus \ hw.silent : hw.vbus[j] = "mlx"} IN
  /\ \E a \in adapters \cup {0} : a <= dev /\ (a + 1)..dev \subseteq hw.silent
  /\ \A a \in adapters : a <= child => a <= dev

=============================================================================
