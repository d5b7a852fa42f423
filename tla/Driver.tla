-------------------------------- MODULE Driver --------------------------------
(***************************************************************************)
(* The life of the server (server/src/driver.cc, main.cc): the main thread *)
(* brings the HCA up, creates the event queue and the thread that answers  *)
(* the HCA's page requests, serves clients until one of them kills it, and *)
(* takes everything down again, while the handler thread gives the HCA     *)
(* pages and takes them back.                                              *)
(*                                                                         *)
(* A command is two steps: it is issued, and later it returns, with its    *)
(* effect on the HCA, or the program stops on an exception (a bad status,  *)
(* a timeout). What happens inside one command is CommandInterface; what a *)
(* thread may rely on there is that no other command overlaps its own, so  *)
(* two that do are a fault here. Faults end the behaviour. The page pool   *)
(* is PageAllocator; the contents of the event queue are EventQueue, here  *)
(* the handler may find any page count in it.                              *)
(***************************************************************************)
EXTENDS Integers, FiniteSets

CONSTANTS
  Page,        \* pages of DMA memory
  Max,         \* mem_page_pool.max
  Chunk,       \* pages one MANAGE_PAGES command can carry: IMB_MAX_DATA / 2
  MaxAsk,      \* bound: pages the HCA asks for, or gives back, at a time
  MaxEvents    \* bound: events the handler finds

ASSUME DriverAssumption ==
  /\ Max \in Nat /\ Chunk \in Nat \ {0}
  /\ MaxAsk \in Nat /\ MaxEvents \in Nat

Thread == {"main", "handler"}
Other(t) == IF t = "main" THEN "handler" ELSE "main"

VARIABLES
  pc,         \* where the threads are; "unborn" before pthread_create
  command,    \* the command a thread waits for, or "none"
  todo,       \* pages the thread still has to give or take back
  fresh,      \* the page it got from the pool and has not put into the map
  batch,      \* pages in the thread's hands: to give next, or to free
  held,       \* pages the pool has handed out
  index,      \* the map's keys, mem_page_pool.data.index
  dbr,        \* pages that are doorbell records of work queues
  hca,        \* the HCA's state: "off", "enabled", "ready", "closed"
  hca_pages,  \* pages the HCA uses
  objects,    \* what exists in the HCA: "uar", "eq", "pd"
  active,     \* PRH_OPT::active
  events,     \* events found so far
  fault       \* why the program stopped, or "none"

pages == <<fresh, held, index, dbr>>
device == <<hca, hca_pages, objects>>
work == <<todo, batch, pages>>
handler_vars == <<active, events>>
vars == <<pc, command, work, device, handler_vars, fault>>

Pool == INSTANCE PageAllocator WITH Element <- Page

Init ==
  /\ pc = [t \in Thread |-> IF t = "main" THEN "enable" ELSE "unborn"]
  /\ command = [t \in Thread |-> "none"]
  /\ todo = [t \in Thread |-> 0]
  /\ fresh = [t \in Thread |-> {}] /\ batch = [t \in Thread |-> {}]
  /\ held = {} /\ index = {} /\ dbr = {}
  /\ hca = "off" /\ hca_pages = {} /\ objects = {}
  /\ active = FALSE
  /\ events = 0
  /\ fault = "none"

At(t, label) == fault = "none" /\ pc[t] = label
Free(t) == command[t] = "none"
Goto(t, label) == pc' = [pc EXCEPT ![t] = label]

(* t goes from one label to the next and changes nothing else. *)
Moves(t, from, to) ==
  /\ At(t, from)
  /\ Goto(t, to)
  /\ UNCHANGED <<command, work, device, handler_vars, fault>>

(* t starts command o; fault' says whether the other thread is inside one. *)
Issue(t, o) ==
  /\ Free(t)
  /\ command' = [command EXCEPT ![t] = o]
  /\ fault' = IF Free(Other(t)) THEN "none" ELSE "overlap"

Returns(t, o) ==
  /\ fault = "none" /\ command[t] = o
  /\ command' = [command EXCEPT ![t] = "none"]

-----------------------------------------------------------------------------
(* Straight-line code: at a label, a command, and the label it leads to. *)
InitScript == {
  <<"enable",      "ENABLE_HCA",         "query_issi">>,
  <<"init",        "INIT_HCA",           "set_driver">>}

IssiScript == {
  <<"query_issi",  "QUERY_ISSI",         "set_issi">>,
  <<"set_issi",    "SET_ISSI",           "query_boot">>}

CapScript == {
  <<"query_cap",   "QUERY_HCA_CAP",      "set_cap">>,
  <<"set_cap",     "SET_HCA_CAP",        "query_init">>}

VersionScript == {
  <<"set_driver",  "SET_DRIVER_VERSION", "alloc_uar">>}

UarScript == {
  <<"alloc_uar",   "ALLOC_UAR",          "create_eq">>,
  <<"dealloc_uar", "DEALLOC_UAR",        "teardown">>}

EqScript == {
  <<"create_eq",   "CREATE_EQ",          "query_eq">>,
  <<"query_eq",    "QUERY_EQ",           "spawn">>,
  <<"query_armed", "QUERY_EQ",           "alloc_dbr">>,
  <<"destroy_eq",  "DESTROY_EQ",         "dealloc_uar">>}

PdScript == {
  <<"alloc_pd",    "ALLOC_PD",           "dealloc_pd">>,
  <<"dealloc_pd",  "DEALLOC_PD",         "serve">>}

(* Mutant of TeardownScript: the pages are not asked back. *)
TeardownScriptKeeps == {
  <<"teardown",    "TEARDOWN_HCA",       "disable">>,
  <<"disable",     "DISABLE_HCA",        "done">>}

(* teardown_hca from TEARDOWN_HCA on; reclaim_all_pages is between the two. *)
TeardownScript == {
  <<"teardown",    "TEARDOWN_HCA",       "reclaim">>,
  <<"disable",     "DISABLE_HCA",        "done">>}

Script == UNION {InitScript, IssiScript, CapScript, VersionScript, UarScript,
                 EqScript, PdScript, TeardownScript}

(* What a command of the script does to the HCA. *)
Effect(o) ==
  /\ hca' = CASE o = "ENABLE_HCA"   -> "enabled"
              [] o = "INIT_HCA"     -> "ready"
              [] o = "TEARDOWN_HCA" -> "closed"
              [] o = "DISABLE_HCA"  -> "off"
              [] OTHER              -> hca
  /\ objects' = CASE o = "ALLOC_UAR"   -> objects \cup {"uar"}
                  [] o = "CREATE_EQ"   -> objects \cup {"eq"}
                  [] o = "ALLOC_PD"    -> objects \cup {"pd"}
                  [] o = "DEALLOC_UAR" -> objects \ {"uar"}
                  [] o = "DESTROY_EQ"  -> objects \ {"eq"}
                  [] o = "DEALLOC_PD"  -> objects \ {"pd"}
                  [] OTHER             -> objects
  /\ UNCHANGED hca_pages

MainIssues ==
  \E s \in Script :
    /\ At("main", s[1])
    /\ Issue("main", s[2])
    /\ UNCHANGED <<pc, work, device, handler_vars>>

MainReturns ==
  \E s \in Script :
    /\ At("main", s[1])
    /\ Returns("main", s[2])
    /\ Effect(s[2])
    /\ Goto("main", s[3])
    /\ UNCHANGED <<work, handler_vars, fault>>

(* The HCA capabilities say that the driver version is not wanted. *)
SkipDriverVersion == Free("main") /\ Moves("main", "set_driver", "alloc_uar")

(* An exception out of validate_cqe, or of the code that looks at the output
   (a negative number of pages): nothing catches it. *)
CommandFails(t) ==
  /\ fault = "none" /\ ~Free(t)
  /\ fault' = "exception"
  /\ UNCHANGED <<pc, command, work, device, handler_vars>>

-----------------------------------------------------------------------------
(* provide_boot_pages and provide_init_pages ask how many pages to provide. *)
QueryLabels == {"query_boot", "query_init"}

QueryPages ==
  /\ \E label \in QueryLabels : At("main", label)
  /\ Issue("main", "QUERY_PAGES")
  /\ UNCHANGED <<pc, work, device, handler_vars>>

QueryPagesReturns ==
  /\ Returns("main", "QUERY_PAGES")
  /\ \E n \in 0..MaxAsk : todo' = [todo EXCEPT !["main"] = n]
  /\ Goto("main", IF pc["main"] = "query_boot" THEN "give_boot" ELSE "give_init")
  /\ UNCHANGED <<batch, pages, device, handler_vars, fault>>

-----------------------------------------------------------------------------
(* provide_pages, by either thread. *)
GiveLabels == {"give_boot", "give_init", "give"}
Giving(t) == fault = "none" /\ pc[t] \in GiveLabels /\ Free(t) /\ fresh[t] = {}
NextChunk(t) == IF todo[t] < Chunk THEN todo[t] ELSE Chunk

(* MEM::alloc_page takes a page from the pool, under the pool's lock. A full
   pool returns nullptr, which is dereferenced (mem.h:53). *)
TakeFromPool(t) ==
  IF Cardinality(held) = Max
  THEN fault' = "null_page" /\ UNCHANGED <<held, fresh>>
  ELSE /\ \E p \in Page : Pool!Alloc(p) /\ fresh' = [fresh EXCEPT ![t] = {p}]
       /\ UNCHANGED fault

(* MEM::alloc_page and MEM::free_page change the map without a lock. What comes
   of it when both threads do is not defined: it may go well. *)
InMap(t) == fresh[t] # {} \/ (pc[t] = "free" /\ batch[t] # {})

ChangeMap(t) ==
  fault' \in {"none"} \cup (IF InMap(Other(t)) THEN {"index_race"} ELSE {})

PutIntoMap(t) ==
  /\ fault = "none" /\ fresh[t] # {}
  /\ ChangeMap(t)
  /\ index' = index \cup fresh[t]
  /\ fresh' = [fresh EXCEPT ![t] = {}]

(* The next page of the payload. *)
AllocPage(t) ==
  /\ Giving(t)
  /\ Cardinality(batch[t]) < NextChunk(t)
  /\ TakeFromPool(t)
  /\ UNCHANGED <<pc, command, todo, batch, index, dbr, device, handler_vars>>

AddPage(t) ==
  /\ pc[t] \in GiveLabels
  /\ PutIntoMap(t)
  /\ batch' = [batch EXCEPT ![t] = @ \cup fresh[t]]
  /\ UNCHANGED <<pc, command, todo, held, dbr, device, handler_vars>>

GivePages(t) ==
  /\ Giving(t)
  /\ batch[t] # {} /\ Cardinality(batch[t]) = NextChunk(t)
  /\ Issue(t, "GIVE_PAGES")
  /\ UNCHANGED <<pc, work, device, handler_vars>>

GivePagesReturns(t) ==
  /\ Returns(t, "GIVE_PAGES")
  /\ hca_pages' = hca_pages \cup batch[t]
  /\ todo' = [todo EXCEPT ![t] = @ - Cardinality(batch[t])]
  /\ batch' = [batch EXCEPT ![t] = {}]
  /\ UNCHANGED <<pc, pages, hca, objects, handler_vars, fault>>

ProvideReturns(t) ==
  /\ Giving(t)
  /\ todo[t] = 0
  /\ Moves(t, pc[t], CASE pc[t] = "give_boot" -> "query_cap"
                       [] pc[t] = "give_init" -> "init"
                       [] pc[t] = "give"      -> "check")

-----------------------------------------------------------------------------
(* reclaim_pages: of todo pages by the handler, of a full chunk, again and
   again until none come back, by main (reclaim_all_pages). *)
Wanted(t) == IF t = "main" THEN Chunk ELSE todo[t]

(* Asking for more than a chunk overruns the output mailbox when the command is
   made: create_cqe ties one block more than main.cc:48 allocates (cmd.cc:151-158);
   the output array of driver.cc:222 overruns later, in get_cmd_output. *)
TakePages(t) ==
  /\ fault = "none" /\ pc[t] \in {"reclaim", "take"} /\ Free(t)
  /\ IF Wanted(t) > Chunk
     THEN fault' = "overflow" /\ UNCHANGED command
     ELSE Issue(t, "TAKE_PAGES")
  /\ UNCHANGED <<pc, work, device, handler_vars>>

(* The HCA gives back pages it can do without; after TEARDOWN_HCA, all it is
   asked for. *)
GivesBack(back, n) ==
  /\ Cardinality(back) <= n
  /\ hca = "closed" => Cardinality(back) = n \/ back = hca_pages

(* The label after a TAKE_PAGES command; mutant: no page is no answer. *)
AfterTakeRetries(t, back) ==
  IF back # {} THEN "free" ELSE IF t = "main" THEN "disable" ELSE "take"

AfterTake(t, back) == IF t = "main" /\ back = {} THEN "disable" ELSE "free"

ToFreeNone(back) == {}     \* mutant of ToFree: what came back is not looked at
ToFree(back) == back

TakePagesReturns(t) ==
  /\ Returns(t, "TAKE_PAGES")
  /\ \E back \in SUBSET hca_pages :
       /\ GivesBack(back, Wanted(t))
       /\ hca_pages' = hca_pages \ back
       /\ batch' = [batch EXCEPT ![t] = ToFree(back)]
       /\ Goto(t, AfterTake(t, back))
  /\ UNCHANGED <<todo, pages, hca, objects, handler_vars, fault>>

(* MEM::free_page: out of the map, back to the pool. *)
FreePage(t) ==
  /\ At(t, "free")
  /\ \E p \in batch[t] : /\ ChangeMap(t)
                         /\ index' = index \ {p}
                         /\ Pool!Free(p)
                         /\ batch' = [batch EXCEPT ![t] = @ \ {p}]
  /\ UNCHANGED <<pc, command, todo, fresh, dbr, device, handler_vars>>

ReclaimReturns(t) ==
  /\ At(t, "free")
  /\ batch[t] = {}
  /\ Goto(t, IF t = "main" THEN "reclaim" ELSE "check")
  /\ todo' = [todo EXCEPT ![t] = 0]
  /\ UNCHANGED <<command, batch, pages, device, handler_vars, fault>>

-----------------------------------------------------------------------------
(* setup_event_queue: PRH_OPT is filled in and create_msix_thread creates the
   handler, whose arguments are in create_msix_thread's own frame ... *)
SpawnHandler ==
  /\ At("main", "spawn")
  /\ active' = TRUE
  /\ pc' = [pc EXCEPT !["main"] = "spawned", !["handler"] = "start"]
  /\ UNCHANGED <<command, work, device, events, fault>>

(* ... and returns, so that the frame is gone. *)
CreateThreadReturns == Moves("main", "spawned", "arm")

ArmEq == Moves("main", "arm", "query_armed")

(* create_wqc takes a page for the doorbell record. destroy_wqc leaves it. *)
AllocDbr ==
  /\ At("main", "alloc_dbr") /\ fresh["main"] = {}
  /\ TakeFromPool("main")
  /\ UNCHANGED <<pc, command, todo, batch, index, dbr, device, handler_vars>>

SetDbr ==
  /\ pc["main"] = "alloc_dbr"
  /\ PutIntoMap("main")
  /\ dbr' = dbr \cup fresh["main"]
  /\ Goto("main", "alloc_pd")
  /\ UNCHANGED <<command, todo, batch, held, device, handler_vars>>

(* A client calls kill: the exception ends the server loop. *)
Kill == Moves("main", "serve", "stop")

Deactivate ==
  /\ At("main", "stop")
  /\ active' = FALSE
  /\ Goto("main", "join")
  /\ UNCHANGED <<command, work, device, events, fault>>

JoinedAtOnce == TRUE     \* mutant of Joined: no pthread_join
Joined == pc["handler"] = "exited"

Join == Joined /\ Moves("main", "join", "destroy_eq")

-----------------------------------------------------------------------------
(* page_request_handler copies its arguments and sets its interrupt up, which
   may throw. Once the frame of the arguments is gone, what it copies is what
   is there: perhaps still the arguments, perhaps not. *)
HandlerStarts ==
  /\ At("handler", "start")
  /\ fault' \in {"none", "exception"} \cup
                (IF pc["main"] = "spawned" THEN {} ELSE {"frame"})
  /\ Goto("handler", "check")
  /\ UNCHANGED <<command, work, device, handler_vars>>

LoopsForever == TRUE     \* mutant of Loops: the flag is read once
Loops == active

HandlerChecks == Moves("handler", "check", IF Loops THEN "wait" ELSE "exited")

(* receive has returned, and the entry at the head is the hardware's. *)
NoEvent == Moves("handler", "wait", "check")

AskedSigned(n) == n      \* mutant of Asked: the count keeps its sign
Asked(n) == IF n > 0 THEN n ELSE -n

(* It is the software's: a count of pages to give, or to take back. *)
PageEvent ==
  /\ At("handler", "wait")
  /\ events < MaxEvents                                   \* bound
  /\ events' = events + 1
  /\ \E n \in -MaxAsk..MaxAsk :
       /\ todo' = [todo EXCEPT !["handler"] = Asked(n)]
       /\ Goto("handler", IF n > 0 THEN "give" ELSE "take")
  /\ UNCHANGED <<command, batch, pages, device, active, fault>>

-----------------------------------------------------------------------------
PageStep(t) ==
  \/ AllocPage(t) \/ AddPage(t) \/ GivePages(t) \/ GivePagesReturns(t)
  \/ ProvideReturns(t) \/ TakePages(t) \/ TakePagesReturns(t)
  \/ FreePage(t) \/ ReclaimReturns(t) \/ CommandFails(t)

MainStep ==
  \/ MainIssues \/ MainReturns \/ SkipDriverVersion
  \/ QueryPages \/ QueryPagesReturns
  \/ SpawnHandler \/ CreateThreadReturns \/ ArmEq \/ AllocDbr \/ SetDbr
  \/ Deactivate \/ Join
  \/ PageStep("main")

HandlerStep ==
  \/ HandlerStarts \/ HandlerChecks \/ NoEvent \/ PageEvent
  \/ PageStep("handler")

Next == MainStep \/ HandlerStep \/ Kill

Spec == Init /\ [][Next]_vars

(* Both threads are scheduled, and a command ends: poll_ownership gives up
   after CMD_TIMEOUT_MS. No client has to call kill. *)
Fairness == WF_vars(MainStep) /\ WF_vars(HandlerStep)

FairSpec == Spec /\ Fairness

-----------------------------------------------------------------------------
MainLabels ==
  {s[1] : s \in Script} \cup QueryLabels \cup {"give_boot", "give_init",
   "spawn", "spawned", "arm", "alloc_dbr", "serve", "stop", "join", "reclaim",
   "free", "done"}

HandlerLabels ==
  {"unborn", "start", "check", "wait", "give", "take", "free", "exited"}

Command ==
  {s[2] : s \in Script} \cup {"QUERY_PAGES", "GIVE_PAGES", "TAKE_PAGES"}

TypeOK ==
  /\ pc["main"] \in MainLabels /\ pc["handler"] \in HandlerLabels
  /\ command \in [Thread -> Command \cup {"none"}]
  /\ todo \in [Thread -> 0..MaxAsk]
  /\ fresh \in [Thread -> SUBSET Page] /\ batch \in [Thread -> SUBSET Page]
  /\ held \subseteq Page /\ Cardinality(held) <= Max
  /\ index \subseteq Page /\ dbr \subseteq Page
  /\ hca \in {"off", "enabled", "ready", "closed"} /\ hca_pages \subseteq Page
  /\ objects \subseteq {"uar", "eq", "pd"}
  /\ active \in BOOLEAN
  /\ events \in 0..MaxEvents
  /\ fault \in {"none", "overlap", "exception", "null_page", "overflow",
               "frame", "index_race"}

(* Every page the pool has handed out has exactly one owner: the HCA, a batch
   of one of the threads, a doorbell record, or a thread that is about to put it
   into the map; and the map has exactly the others, so that free_page finds
   what the HCA gives back. So no page is lost, and none that the HCA uses goes
   back to the pool. *)
PagesAccounted ==
  LET owners == <<hca_pages, batch["main"], batch["handler"], dbr,
                  fresh["main"], fresh["handler"]>>
  IN  /\ held = UNION {owners[i] : i \in 1..6}
      /\ index = held \ (fresh["main"] \cup fresh["handler"])
      /\ \A i, j \in 1..6 : i # j => owners[i] \cap owners[j] = {}

(* The state the HCA has to be in for a command: nothing before ENABLE_HCA,
   no object left at TEARDOWN_HCA, no page left at DISABLE_HCA. *)
Accepts(o) ==
  CASE o = "ENABLE_HCA" -> hca = "off"
    [] o \in {"QUERY_ISSI", "SET_ISSI", "QUERY_PAGES", "QUERY_HCA_CAP",
              "SET_HCA_CAP", "INIT_HCA"} -> hca = "enabled"
    [] o \in {"SET_DRIVER_VERSION", "ALLOC_UAR", "ALLOC_PD"} -> hca = "ready"
    [] o = "CREATE_EQ"    -> hca = "ready" /\ "uar" \in objects
    [] o \in {"QUERY_EQ", "DESTROY_EQ"} -> hca = "ready" /\ "eq" \in objects
    [] o = "DEALLOC_PD"   -> hca = "ready" /\ "pd" \in objects
    [] o = "DEALLOC_UAR"  -> hca = "ready" /\ objects = {"uar"}
    [] o = "GIVE_PAGES"   -> hca \in {"enabled", "ready"}
    [] o = "TAKE_PAGES"   -> hca \in {"ready", "closed"}
    [] o = "TEARDOWN_HCA" -> hca = "ready" /\ objects = {}
    [] o = "DISABLE_HCA"  -> hca = "closed" /\ hca_pages = {}

(* Whichever thread a command comes from, it reaches the HCA in a state the
   command is meant for. *)
CommandsInOrder ==
  \A t \in Thread : command[t] # "none" => Accepts(command[t])

(* The event queue the handler polls exists as long as the handler does. *)
EqOutlivesHandler ==
  pc["handler"] \notin {"unborn", "exited"} => "eq" \in objects

(* Where the known faults can bite. The two threads get in each other's way, with
   commands or in the map, only while main finishes the setup of the queues,
   never once it serves clients. Only a page event can ask for more than the
   output array holds, never reclaim_all_pages. Once the handler has exited,
   teardown_hca is left with the HCA's own errors. *)
FaultsConfined ==
  /\ fault = "overlap" =>
       command["main"] \in {"QUERY_EQ", "ALLOC_PD", "DEALLOC_PD"}
  /\ fault = "index_race" => pc["main"] \in {"alloc_dbr", "alloc_pd"}
  /\ fault = "overflow" => pc["handler"] = "take"
  /\ pc["handler"] = "exited" => fault \in {"none", "exception"}

(* Once a client has killed the server, the handler is joined and the HCA is
   disabled, unless a fault stops the program. *)
ShutdownCompletes == pc["main"] = "stop" ~> pc["main"] = "done" \/ fault # "none"

(* The handler gets every page event behind it, however many commands that
   takes. *)
EventsHandled ==
  pc["handler"] \in {"give", "take"} ~> pc["handler"] = "check" \/ fault # "none"

(* MLX5_Context is the "main context for all operations on the HCA"
   (driver.h:29): the operations of both threads go through it, one at a
   time. *)
OneCommandAtATime == fault # "overlap"

=============================================================================
