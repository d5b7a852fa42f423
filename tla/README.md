# A verification project for l4rdma

l4rdma is a user-space driver for ConnectX-4 network adapters under L4Re. It
brings the adapter (the HCA) up over its firmware command interface, gives it
the memory pages it asks for, and serves clients that create and terminate
work and completion queues. This directory holds TLA+ modules that model its
logic, TLC configurations that check them on small instances, and proofs that
TLAPS checks for every value of the parameters. Paths below are relative to the
repository's root, `src/`.

Contents: 1 the system · 2 the modules · 3 module by module · 4 runs, bounds
and fairness · 5 disagreements found · 6 proofs · 7 what is not modelled ·
8 plan.

## 1. The system: inventory

Threads and processes: the **main thread** (setup, then the IPC service loop,
then shutdown), the **handler thread** (answers the HCA's page requests), one
**queue thread** per work or completion queue a client creates, the **clients**
(other tasks, reached by IPC) and the **HCA** (hardware, reached through memory
both sides write).

| Component | State | Operations | Interacts with |
|---|---|---|---|
| Block pool, `server/src/pool.h` | `size`, `block_count`, list of blocks with links, element counts and `used` flags, a mutex | `alloc_page`, `free_page` and, inside them, `create_block`, `add_block_to_pool`, `remove_block_from_pool`, `destroy_block` | used by all other pools; callers in several threads |
| DMA page pool, `mem.h/.cc` | a block pool and `data.index`, address to page | `alloc_page`, `free_page`, `alloc_block`, `free_block` | Driver takes pages for the HCA and for doorbell records |
| UAR page pool, `uar.h/.cc` | a block pool | `alloc_page`, `free_page`, blocks over `ALLOC_UAR` | queue objects |
| Queue objects, `queue.h/.cc` | rings with a `head`; pools of them; `index` by queue number | `enqueue`, `alloc_queue`, `free_queue` | command queue, event queue, work queues |
| Command interface, `cmd.h/.cc` | command queue (`cq`), one input and one output mailbox, doorbell vector | `create_cqe`, `ring_doorbell`, `validate_cqe`, `get_cmd_output` | every operation of Driver; shares memory with the HCA |
| Driver, `driver.h/.cc`, `wq.cc`, `event.cc` | state of the HCA, pages it has, objects in it, `PRH_OPT.active` | `init_hca`, `setup_event_queue`, `setup_work_queue`, `page_request_handler`, `teardown_hca` | main and handler thread, command interface, page pool |
| Event queue, `event.h/.cc` | ring of entries with ownership bits | `create_eq`, `init_eq`, `eqe_owned_by_hw`, `read_eqe`, `arm_eq` | HCA writes, handler reads |
| Interrupts, `interrupt.h/.cc` | MSI-X table, arguments of the new thread | `create_msix_thread`, `create_msix_irq` | starts the handler |
| Work and completion queue contexts, `wq.*`, `cq.*` | a queue object, a doorbell page, a protection domain | `create_wqc`, `destroy_wqc`, `create_cq` (never called) | Driver, queue objects |
| IPC server, `server_interface.cc`, `wq_interface.cc`, `cq_interface.cc` | service loop; per queue an object, a dataspace, a mapping | `create_wq`, `create_cq`, `kill`; per queue get and subtract calls and `terminate` | clients; main and queue threads hand a pointer and a message to each other |
| Main program, `main.cc` | the pools' and the queue's parameters | setup, loop, shutdown | all of the above |
| PCI device setup, `device.*` | configuration space: command register, BAR registers, capabilities; mapped regions | `pci_get_dev`, `map_pci_bar`, `setup_msix`, `get_pci_cap`, `create_icu_cap`, `bind_dma_space_to_device` | called by main before everything else; each access can fail |
| Test client, `test/`, `conf/` | - | a sequence of calls | IPC server |

What is hard in it, and what correctness means there:

* **Pool.** `alloc_page` walks a list from which `free_page` removes blocks in
  any order. Counters, flags, links and the elements callers hold must agree
  after any mix of calls, no block may go while somebody uses it, and the pool
  must stop at `max`.
* **Command interface.** A lock-free handshake with hardware over an ownership
  bit, mailboxes that all commands share, a doorbell, two statuses, a timeout,
  a ring that wraps. A caller must get its own command's output, the HCA its
  own command's input, and neither may touch what the other owns. Two threads
  use it.
* **Mailboxes.** Payloads of any length are cut into blocks that are used again
  and again, linked by pointers the hardware follows. The words that arrive must
  be this command's, in order, and the chain must have exactly the blocks the
  length needs.
* **PCI setup.** BARs are sized by writing ones into the registers that give the
  device its addresses; sizes span one register or two; children of the bus that
  are no PCI devices answer nothing, and others may not answer. The device must
  never answer at a wrong address, and no command may go to it before all of it
  is set up.
* **Driver.** Two threads move pages in chunks, in commands that the HCA takes
  only in certain states, and shutdown has to wait for one of them. No page may
  be lost or be in two places, commands must come in order, shutdown must end.
* **Event queue.** Entries have to be read whole, in order and once, and none
  may wait for an interrupt that does not come.
* **IPC server.** A handshake in which another thread writes into the caller's
  frame, setups that fail halfway, objects and memory with two lifetimes,
  clients that call at any time, and a kill out of the middle of it all.

`PROJECT.json` lists the hazards at the lines where they bite, with the
properties that look for them, or why none does yet.

## 2. The modules

| Module | Models | Built on |
|---|---|---|
| `PageAllocator` | abstract: what a pool promises its callers | - |
| `Pool` | `pool.h`, pointer by pointer | implements `PageAllocator` |
| `CommandService` | abstract: what the command interface promises | - |
| `CommandInterface` | `cmd.cc`, with the HCA's side | implements `CommandService` |
| `Driver` | `driver.cc`, `main.cc`, the two threads' life | uses `PageAllocator` for its pages, takes commands as `CommandService` gives them |
| `EventQueue` | the ring of `event.cc` | - |
| `Mailbox` | how `cmd.cc` lays payloads out in mailbox blocks | - |
| `PciDevice` | `device.cc` on a configuration space | - |
| `BringUp` | main from the empty bus to working commands: `main.cc`, the start of `init_hca` | `PciDevice`, then `Mailbox` |
| `IpcServer` | the service loop and the queue threads | - |
| `PoolProofs`, `CommandInterfaceProofs`, `DriverProofs`, `EventQueueProofs`, `IpcServerProofs`, `PciDeviceProofs`, `MailboxProofs` | theorems about the module of that name | that module |
| `BringUpProofs` | theorems about `BringUp` | `PciDeviceProofs`, `MailboxProofs` |
| `MC...` | instances for TLC | the module of that name |

The composition is by contract. `Driver` does not repeat the list of blocks or
the ring of commands: its page pool is an `INSTANCE` of `PageAllocator`, which
`Pool` is shown (and proved) to implement, and its commands are the issue,
effect and return of a synchronous call, which is what `CommandInterface` is
shown to implement *as long as no two commands overlap*. That condition is not
assumed in `Driver`. It is an outcome there: two overlapping commands are the
fault `overlap`, and whether they happen is what run `driver_overlap` asks.
In the same way `EventQueue` says what a handler finds when it looks at its
queue, and `Driver` lets it find any page count. `BringUp` composes by sequence:
one thread runs `PciDevice`'s steps, the waits of `init_hca`, and then
`Mailbox`'s, and each part leaves the variables of the others alone. It ends
where `Driver` begins; both take `ENABLE_HCA` to be the first command.

Definitions called `...Early`, `...Late`, `...Never` and so on, marked "mutant"
in their comments, are faulty variants of the small definition after them, such
as the test whether a block's last element has gone. Nothing uses them; they are
there to put in its place and see that a property notices.

## 3. Module by module

**Pool.** One variable per field of `Pool` and `Block`; a pointer is a block or
`NULL`. Blocks are named by the order of creation and names are not reused,
because a pointer to a destroyed block is invalid whatever `malloc` does later.
`alloc_page` is `AllocFull` (returns `nullptr`), or `AllocEnter` (mutex taken,
first block made if there is none), any number of `AllocAdvance` (a full block:
on to the next, made if there is none) and `AllocTake`. Each is one turn of the
code's loop, so that a fault of the walk would show with the other thread's
calls between. `free_page` never waits inside and is one action. `FreeBlock`
follows `remove_block_from_pool` case by case; where the code would write to a
freed block, `undefined` becomes true and the behaviour ends. The pools'
`alloc_block` callbacks differ in what an element's data is, not in this;
that they may throw (out of DMA memory) ends the program and is left out.

**CommandInterface.** `create_cqe` is four steps (`ClearEntry`, `FillEntry`,
`GiveOwnership`, `Enqueue`), then `RingDoorbell`, a poll that returns or times
out, `CheckStatus` and `ReadOutput`, each at the granularity at which another
thread or the HCA can see a difference. Data is reduced to whose it is: an
entry holds the number of a command, a mailbox the number of the command whose
words are in it. The HCA (external, known only from how `cmd.cc` uses it)
answers doorbells in any order and at any time, reads entry and input mailbox
at one moment, and later writes output, statuses and the ownership bit.
`Exclusive` says whether a thread may start a command during another's.

**Driver.** The sequence of commands of setup and teardown is a relation from
label to command to next label, one part per function (`InitScript`,
`IssiScript`, ..., `TeardownScript`), so that the order can be read off and
changed in one place. Page movement is written out: `AllocPage`, `AddPage`,
`GivePages`, `GivePagesReturns`, `ProvideReturns` are `provide_pages` with its
chunks. A page is allocated in two steps, because `MEM::alloc_page` takes it
under the pool's lock (`held`) and enters it into the map without (`index`);
between the two it is `fresh`. `TakePages`, `TakePagesReturns`, `FreePage`,
`ReclaimReturns` are `reclaim_pages` and, for main, the loop of
`reclaim_all_pages`. `HandlerStarts`, `HandlerChecks`, `NoEvent`, `PageEvent`
are `page_request_handler`. A fault ends the program, and the variable names
it: `exception` (a command failed or timed out), `null_page` (a full pool,
`mem.h:53`), `overflow` (more pages reclaimed than the output array has room
for: `create_cqe` then ties a block behind the output mailbox, `cmd.cc:151-158`,
and `get_cmd_output` overruns the array of `driver.cc:222`), `frame` (the handler copies its arguments from a frame
that is gone, `interrupt.cc:65`), `overlap`, and `index_race` (one thread
changes the map while the other does; it may also go well). Properties speak of the steps up
to a fault. What the HCA accepts in which state (`Accepts`) is external.

**Mailbox.** Two words of a payload travel in the queue entry, the others in
blocks of `Words` (128 in the code). `PackWord` is a turn of `pack_mail`'s loop,
with its two counters, `Tie` is `tie_mail_together`, `LastOutput` the number of
output blocks that `create_cqe` computes (which is not how `pack_mail` counts
the input's), `UnpackWord` a turn of `unpack_mail`'s loop. A word is a pair of a
command's number and a place, so that a word left by an earlier command, or in
the wrong place, is told from the right one. The HCA is external: it follows the
pointers, wants as many blocks as the length says, numbered from 0 and ended by
`NULL` (`CQE_STATUS_BAD_BNUM` and so on in `cmd.h` name its complaints).

**PciDevice.** One step per access that changes the device: `SpacesOff`, then
ones into a register and its address back (`SizeLow`, `RestoreLow`, and for a
64-bit BAR `SizeHigh`, `RestoreHigh`), `SpacesOn`, `Attach`. `bar_addr` and
`bar_size` do the code's arithmetic in registers that have `Full` values (2^32
in the machine). What a BAR
register holds after a write (`Written`) is external and is what the PCI
specification says: the bits below the BAR's size do not stick, the type bits
are fixed. `Find` is the loop of `pci_get_dev`, with the id that is left from the
child before, or uninitialised, where a read fails; which children's reads fail
(`silent`) is part of the machine, so that the result can be compared with it,
and includes at least those that are no PCI devices. A read that fails is taken
to leave the variable as it was. `NextCap` and `ReadCap` are a turn of
`get_pci_cap`'s loop, over a list that may come back to one of its own
capabilities; the code has no bound on it, nor has the model. `AttachFails`: a
region without a size cannot be attached. `SetupThrows` lets any access,
allocation or mapping after the search fail. The BAR that holds the MSI-X table and BAR 0
go through the same steps, as they do through the same function.

**BringUp.** `SetUp` runs `PciDevice`; `FirstWait`, `CheckQueue`, `TellAddress`
and `SecondWait` are `init_hca` before its first command, with the time limit of
`init_wait` as a number of turns of its loop (250 in the code); `Command` runs
`Mailbox`. The firmware may take any time, and may begin to initialize again
when it learns the queue's address; that it does not raise the bit at any other
time is an assumption about the HCA, since the code does not look again.

**EventQueue.** The ownership bits and contents of all entries, the handler's
`head`, and what it has read. `init_eq` is translated with its loop bound, which
leaves the last entry out. The HCA writes an entry and hands it over in two
steps. `Wakes`, `FindsNothing`, `ReadEqe` and `Handled` are the handler's loop;
`irq->receive` ends with an interrupt or with its time. Interrupts come before or
after their events, once for several, without one or not at all. As the code arms the queue once, with consumer index 0, the HCA is taken
to post no more events than there are entries.

**IpcServer.** `server` is where the main thread is in its loop, `state[q]`
where a queue thread is: `start`, `alloc`, `register`, `publish`, `notify` are
`setup_and_start`, `loop` its own service loop, `unregister` and `cleanup` the
way out after `terminate`. Each step of the setup can fail, and then `failed` or
`deleted` says whether the thread's memory is gone too; what it has taken stays.
The last step is the message (`NotifyFails`): it leaves a registered object, with
its memory and in the server's variable, and no thread behind it. A detach in
`cleanup` may fail, which leaves the mapping. `result` is the local variable of the server's call
that the queue thread writes through a pointer. `wq_interface.cc` and
`cq_interface.cc` are the same code twice and are modelled once. Clients call
in any order; kernel behaviour (a call to an object that is unregistered or whose
thread is gone fails; a receive from a returned thread may fail or wait, one from
a thread that has not returned waits) is external.

## 4. Runs, bounds and fairness

| Run | Instance | Checks |
|---|---|---|
| `pool` | 2 threads, blocks of 2, at most 5 elements, 6 blocks created | counters and flags (`CountsMatchHeld`), `HeldPagesExist`, `WellLinked`, `NoEmptyBlocks`, `GrowsOnlyWhenFull`, `AllocReturns`, refinement of `PageAllocator` |
| `pool_stale` | the same | `RemovedBlockUntouched`, violated |
| `command` | 2 threads, ring of 2, 4 commands, one at a time | `ReplyIsOwn`, `InputIsOwn`, `NoLostDoorbell`, `HardwareOwnsEntry`, `CommandEnds`, refinement of `CommandService` |
| `command_shared` | 2 commands, not one at a time | `HardwareOwnsEntry`, violated |
| `driver` | 4 pages, pool of 4, 2 pages a command, requests of up to 3, 2 events | `PagesAccounted`, `CommandsInOrder`, `EqOutlivesHandler`, `FaultsConfined`, `ShutdownCompletes`, `EventsHandled` |
| `driver_overlap` | the same, pages symmetric | `OneCommandAtATime`, violated |
| `event_queue` | 5 entries | `FirstRoundInOrder`, `EveryEventRead` |
| `event_queue_phantom` | 4 entries, the code's number | `NoPhantomEvent`, violated |
| `ipc` | 2 clients, 2 queues | `RepliesMatch`, `FrameOutlivesSetup`, `MemoryFollowsObject`, `CreatesServed`, `TerminateFrees` |
| `ipc_create` | 1 client, 1 queue | `FailureReported`, violated |
| `ipc_kill` | 1 client, no queue | `KillSucceeds`, violated |
| `bring_up` | registers of 8 bits, 34 machines; blocks of 2 words, 3 blocks, payloads of 0 to 8 words, 3 commands | `OnlyAddressesDecoded`, `RegionIsBar`, `AdapterFound`, `DeviceReachable`, `InputDelivered`, `OutputDelivered`, `ChainsWellFormed`, `BringUpEnds` |

Each passing run checks its module's `TypeOK` as well. Why the bounds suffice:

* `pool`: three blocks exist at once, which is what it takes for a block to be
  removed from the head, the middle and the tail; `Max` is odd, so the pool is
  full with an element to spare; six creations let the list empty and grow
  again. The proofs of section 6 have no bound on any of this but the number of
  creations, which is arbitrary.
* `command`: four commands over two entries use every entry twice, so that what
  an earlier command left in it, and a late answer, are there to be mistaken.
* `driver`: three pages take two commands; four pages are all the pool has, so
  it can run out inside a request; two events let the handler give and take;
  three given back exceed what one command's output holds.
* `event_queue`: with five entries the handler goes round more than once; each
  entry's contents are distinct.
* `ipc`: two clients can be in a create call at once, and one setup can fail,
  in any of its steps, before or after another succeeds.
* `bring_up`: BARs smaller and larger than a register can size, of all types,
  prefetchable or not, and a table in BAR 0 or another; I/O BARs of 8 and of 4
  bytes, of the latter one whose address has the bit that means 64 and one whose
  address has not; buses with the adapter first, in the middle, last, twice, and
  every set of children whose reads fail; lists of capabilities that end, that
  are empty and that go round, with and without MSI-X. Two machines come up; the
  others each fail at another check, or stop where what they are there for is
  over. Payloads end before, at and after the end of the first, second and last
  block; with three commands there are leftovers of two longer or shorter ones
  in the blocks.

Deadlock is not checked where the program really stops (a fault, a kill, the
end) or where a bound ends the behaviour; each `.cfg` says which.
`event_queue` does check it: the handler's loop never ends.

Fairness, always weak and only of what the code's scheduling guarantees:

* `Pool`: the thread that holds the mutex runs. No fairness for callers.
* `CommandInterface`: a thread inside a command runs. The HCA owes nothing;
  `CommandEnds` rests on the clock in `poll_ownership`.
* `Driver`: both threads are scheduled; an issued command returns or throws.
  No client ever has to kill the server.
* `EventQueue`: the handler's loop runs; the HCA finishes a post it has begun,
  need not begin any, and owes no interrupt. `EveryEventRead` rests on the time
  limit of `receive`: with `L4_IPC_NEVER`, which is in the line commented out
  above it, it fails.
* `BringUp`: main is scheduled. The HCA owes nothing: `BringUpEnds` rests on the
  clocks of `init_wait` and `poll_ownership`, and on the end of the list of
  capabilities; where that has none it says where main stays.
* `IpcServer`: the server's and the queues' threads are scheduled, the kernel
  fails calls to dead objects. Clients owe nothing.

## 5. Disagreements found

Six runs check a statement of a comment or of the test client and find that the
code does something else. Their traces are short and worth reading.

* `pool_stale`. After the head of the list is removed, the new head's `prev`
  still points to it (`pool.h:94`). When the new head empties in turn,
  `remove_block_from_pool` writes into the freed block and leaves `start`
  pointing to the one that is about to be freed. Two blocks that empty in the
  order they were made are enough. Pages come in blocks of 1024 and the
  doorbell record is never freed, so `reclaim_all_pages` can get there once the
  HCA has been given 2048 pages, depending on the order it returns them in.
* `driver_overlap` and `command_shared`. The handler exists from
  `driver.cc:525` on, and main still issues `QUERY_EQ`, `ALLOC_PD` and
  `DEALLOC_PD`. A page request in that time makes two threads use one command
  queue and one pair of mailboxes; in `create_cqe` both then fill the same
  entry. `FaultsConfined` shows that it cannot happen later, and the same of
  the other thing the two threads share without a lock, the map of pages: main
  allocates the doorbell record in that time. It also shows that an overrun of
  `reclaim_pages`'s output array (`driver.cc:222`) can only come from a page
  event, and that teardown meets no fault but the HCA's errors.
* `event_queue_phantom`. `init_eq` leaves out the last entry, which looks like
  an event from the start, and entries that were read are not given back, so
  that the second round of the ring reads them again.
* `ipc_create`. A queue thread that fails in its setup sends no message, or its
  message fails. The server waits for it without a limit or, if the receive
  fails, answers `L4_EOK`, without a queue or, if it was the message that failed,
  with one whose thread is gone.
* `ipc_kill`. `op_kill` leaves the service loop by an exception, so the call is
  never answered, which the test client takes for a failed kill.

Others are worth knowing, although no document promises otherwise. The
properties of the passing runs say exactly what happens in these cases, so that
they cannot be overlooked there.

* The read of an id is not looked at (`device.cc:20`): when it fails for a child
  after the adapter, such as the ICU, which is no PCI device, or a PCI device
  that does not answer, `pci_get_dev` finds the adapter's id in its variable and
  takes that child for the adapter. If it is a PCI device, main sizes and maps
  *its* BARs. `AdapterFound` states what the result can be.
* `map_pci_bar` looks at the bit for 64-bit BARs before that for I/O
  (`device.cc:55`). In an I/O BAR of four bytes that bit belongs to the address:
  if it is set, the BAR after it is sized as its upper half and another region is
  mapped. `RegionIsBar` has this BAR as its one exception, and says that what is
  mapped for it starts elsewhere.
* `get_pci_cap` (`device.cc:137`) never ends on a list of capabilities that comes
  back to itself without MSI-X; a device that answers every read with ones looks
  like that. It is the one exception in `BringUpEnds`.
* A queue whose message failed can be handed to the client (`RepliesMatch`), with
  nobody to serve it; a failed detach leaves its mapping (`MemoryFollowsObject`,
  `TerminateFrees`); a setup that failed gives nothing back (`wq_interface.cc:83`).
* The check of the HCA's queue (`driver.cc:313`) accepts a queue smaller than the
  32 entries the software uses.

The properties of the passing runs hold nevertheless, up to the point where the
first of these bites; the modules make that point explicit (`undefined`,
`fault`, `Exclusive`, and in `FirstRoundInOrder` the first round).

## 6. Proofs

Every type invariant and every safety property that a passing run checks is a
theorem `Spec => [](...)`, and so are both refinements. The theorems hold for
every value of the constants that the `ASSUME`s of the modules allow.

| Module | Theorems, besides `Invariance` and `TypeCorrect` |
|---|---|
| `PoolProofs` | `CountsCorrect`, `HeldPagesSafe`, `ListCorrect`, `EmptyBlocksGone`, `GrowthNeeded`, `PoolRefinesAllocator` |
| `CommandInterfaceProofs` | `RepliesCorrect`, `InputsCorrect`, `DoorbellsKept`, `OwnershipHonoured`, `CommandsRefineService` |
| `DriverProofs` | `PagesNeverLost`, `CommandsOrdered`, `EqKept`, `FaultsWhereKnown` |
| `IpcServerProofs` | `RepliesBelong`, `FramesOutlive`, `MemoryKept` |
| `EventQueueProofs` | `FirstRoundRead` |
| `BringUpProofs`, on `PciDeviceProofs` and `MailboxProofs` | `AddressesDecoded`, `RegionsMapped`, `AdapterChosen`, `Reachable`, `InputArrives`, `OutputArrives`, `ChainsTied` |

Each follows the same argument: an inductive invariant `Inv`, that `Init`
implies it, that every step keeps it, one action at a time, and that it implies
the property. Hardly any of the properties is inductive alone; TLC checked
each `Inv` as an invariant of the module's run before it was proved. What the
invariants add is the real reason why the code works:

**Pool.** Assumed: the parameters are natural numbers, the block size is not 0,
`Nobody` is no thread.

* `Ordered`: blocks exist only under names already given. With it the list can
  be described without recursion or paths: it is in order of creation, so
  `next` leads to the least existing block that is younger (`Linked`).
* `BackLinks`: what the code really keeps of the back links. A block's `prev`
  is its predecessor, *except the head's*, whose `prev` is only known not to be
  an existing block. The stronger statement one would like, that the head's
  `prev` is `NULL`, is what `pool_stale` refutes. The weak one is enough: a
  removal either finds `prev` right, or `NULL`, or ends the behaviour.
* `Walk`: while a thread is inside `alloc_page`, the blocks behind its cursor
  are full, no block but the one under the cursor is empty, and the pool is
  below `Max`. This is why a block is created only when all elements are in
  use, and why a new block never makes the walk pass an unused element.
* `Counted` and `Owned`: the counters with the finiteness that cardinalities
  need.

Lemmas about the list (`AllocBlockLinks`, `NextInjective`, `RemoveBlockLinks`)
say that appending and removing keep `Linked` and `BackLinks`. `EnterInv`,
`TakeInv`, `AdvanceInv` and `FreeInv` take one action each, one conjunct at a
time; `StepInv` puts them together and yields, in the same pass, the two facts
about steps that `GrowthNeeded` and `PoolRefinesAllocator` need.

**CommandInterface.** All but `TypeCorrect` have the hypothesis `Exclusive`,
that callers take turns; `command_shared` shows that it cannot be dropped, and
`driver_overlap` that the driver does not quite provide it. `Turns`: the
command in progress is the last one issued. `Ownership`: the bit is set for its
entry only, from `give` to the answer, so an entry that the ring comes back to
is the software's. `InputKept` and `Doorbells`: until the HCA answers, entry and
input mailbox hold the command, and a doorbell or a copy of an entry can only
be the command's that is being polled for: an answer after a time limit finds
nobody, because a time limit ends the program. `OutputKept` and
`Executions`: a reported success means that the command was carried out, once,
with its own input. In `CommandsRefineService`, `ClearEntry` is the call of
`CommandService`, an answer of the HCA that reports success the execution,
`ReadOutput` the return, a time limit or a bad status the stop; all other steps
stutter.

**Driver.** Assumed: the limits are natural numbers and a command carries at
least one page; the set of pages may be infinite. `Position` ties everything to main's label: the HCA's state (`HcaAt`) and objects
(`ObjectsAt`), whether the handler is unborn, alive or exited, and the `active`
flag it polls. The three phases of main (`Early`, `During`, `Late`) are where
the handler does not exist yet, may run, and is gone. `InCommand` says that a
thread waits for a command only where its script issues it, `Hands` how many
pages a thread has taken out of the pool but not given away yet; that number is
what makes a chunk's count right when `GIVE_PAGES` returns. `PagesAccounted` and
`FaultsConfined` are inductive with these.

**IpcServer.** `OneSetup` is the heart: a queue thread is in its setup only while
the server is in the call that started it, so there is at most one; all earlier
threads serve, have ended, or have failed and are deleted. `OwnResult`: what is
in the local variable is that call's queue, with its object registered, whether
or not its message arrived. `MemoryFirst`: the object is registered after the
memory is complete and unregistered before it is freed; of what a queue had, only
the mapping may outlast it.
`Bounded` counts the calls that have not been taken yet, so that the bound on
queues never cuts a call short.

**EventQueue.** `PostedInOrder`: entries before the posted one hold their events,
those after it are still the hardware's, but for the last. `HeadCounts`: in the
first round the handler's head is the number of events it has read. Together
they say that the handler's head never passes the HCA's.

**PciDevice.** The numbers are the difficulty here, not the order of steps.
Sizes and register values are powers of two in the machine; `PciAssumption`
asks only what they divide (a BAR's size divides the number of register values,
or is a multiple of it that divides its square; the address is a multiple of the
size; a memory BAR has at least 16 bytes, an I/O BAR at least 4). Nothing is
assumed of which BARs there are. With lemmas about remainders (`Cleared`,
`Difference`, `Remainder`, ...), `LowRegister` and `HighRegister` compute what a
register holds before, during and after it is sized, `KindRead` that main tells
the BAR's type from it (and when it does not, `TakenFor64`), `AddressRead` and
`SizeRead` that `bar_addr` and `bar_size` are the BAR's address and size, for each
type and for sizes in one register or two, and `AddressTaken` that for an I/O BAR
taken for 64 bits `bar_addr` is not its address. The inductive invariant `PciInv` then says at each label which
registers hold their address (`Registers`), what main has read (`ReadSoFar`),
what has been mapped (`InOrder`) and, with `AdapterFound` itself, what
`pci_get_dev` has seen (`LastAdapter`).

**Mailbox.** Block b and place p hold word `WordNo(b, p) = b * Words + p`; a
handful of lemmas say that this numbering is one to one and that the words of a
length are in its first blocks. `MailInv` says how far each loop has got in
these terms (`Looping`, `InputPacked`, `OutputUnpacked`), that both chains are
tied before the HCA sees the entry (`Linked`), and what the HCA wrote
(`OutputWritten`). Nothing is said of the rest of the blocks, which may hold
what earlier commands left. `LastOutputOf` shows that `create_cqe`'s three-way
count of output blocks is the quotient that the HCA's walk ends at. `Chain` is a
recursive function: `ChainExists` gives a function that fits its definition, and
`ChainTied` takes the least block where it could differ from the tied order, by
the well-foundedness of the natural numbers.

**BringUp.** `PhaseInv`: main's later phases have the device `ready`, know that
the queue's address was told, and commands find the firmware initialized. As
the parts leave each other's variables alone, `PciInv` and `MailInv` go through
unchanged.

Model-checked only: the liveness properties `AllocReturns`, `CommandEnds`,
`ShutdownCompletes`, `EventsHandled`, `EveryEventRead`, `CreatesServed`,
`TerminateFrees` and `BringUpEnds`, because fairness and `ENABLED` are out of the
prover's reach. None of the modules uses a RECURSIVE operator.

## 7. What is not modelled

* The MSI-X table's entry and the IRQ binding (`interrupt.cc`), and the table's
  offset in its BAR: register writes with nothing to interleave with.
* What is done with DMA memory inside `alloc_dma_mem` and `free_dma_mem`, and
  exceptions out of `alloc_block`, which end the program.
* `pas_list` in `alloc_queue`, and the words of the payloads of commands such as
  `CREATE_EQ`: `Mailbox` tells words apart, not what they mean.
* That the page pool suffices: a full one is the fault `null_page` in `Driver`,
  where the behaviour ends. How many pages the HCA asks for is not in the
  repository.
* What a mailbox does while two threads use it: `Mailbox` has one command at a
  time, and `command_shared` shows where two meet.
* `create_cq` and `free_queue`, which nothing calls, the UAR index, and which
  dataspace a queue's get calls return.
* The test client and the configuration: `IpcServer`'s clients make every
  sequence of calls.

## 8. Plan

All components that keep state are modelled: pool, command interface, driver,
event queue, IPC server, mailboxes, device setup and their composition. All
safety properties of the runs are proved. What is left:

1. Make the link between `CommandInterface` and `Driver` a theorem rather than a
   contract: that `Driver`'s issue, effect and return of a command, in the
   states before the fault `overlap`, are steps of `CommandService`.
2. Action properties worth proving beside the invariants: that `Driver`'s HCA
   goes through its states once and in one direction, that an `IpcServer`
   object that has been unregistered never comes back.
