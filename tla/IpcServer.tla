------------------------------ MODULE IpcServer ------------------------------
(***************************************************************************)
(* The server's IPC side: the service loop of the main thread (main.cc,    *)
(* server_interface.cc), and one detached thread per work queue or         *)
(* completion queue with a loop of its own (wq_interface.cc,               *)
(* cq_interface.cc, the same code twice). Creating a queue is a handshake: *)
(* the server starts the thread and waits, without a limit, for a message  *)
(* from it; the thread takes its memory, registers its object, writes the  *)
(* capability into the server's frame and sends the message.               *)
(*                                                                         *)
(* Clients and the kernel are external. A call waits until its receiver    *)
(* takes it, a Send_only call is over when it is taken, and a call to an   *)
(* object that is gone is an error. The thread's message may fail. Whether *)
(* a receive from a thread that has returned, and that nobody has joined,  *)
(* fails or waits is left open; from a thread that has not, it waits.      *)
(***************************************************************************)
EXTENDS Naturals, FiniteSets

CONSTANTS
  Client,
  NoClient,
  MaxQueues     \* bound: queue threads started in one behaviour

ASSUME IpcAssumption == MaxQueues \in Nat /\ NoClient \notin Client

Queue == 1..MaxQueues
NoQueue == 0
Memory == {"slot", "dataspace", "mapping"}   \* what mem_alloc takes, in order

VARIABLES
  server,    \* "loop", "receive", "reply", "stopped" (out of the loop), "ended"
  serving,   \* the client whose create call the server is in
  result,    \* the local variable wq_if or cq_if of that call, or NoQueue
  made,      \* queue threads started; the last is the one being waited for
  state,     \* where each queue thread is
  owner,     \* the client it was made for
  memory,    \* what it has of Memory
  object,    \* queues whose object is registered
  call,      \* every client's pending call: operation and receiver
  failed,    \* clients whose last call ended with an error
  caps       \* the queue capabilities it has

server_vars == <<server, serving, result, made>>
queue_vars == <<state, owner, memory, object>>
client_vars == <<call, failed, caps>>
vars == <<server_vars, queue_vars, client_vars>>

NoCall == [op |-> "none", to |-> NoQueue]

Init ==
  /\ server = "loop" /\ serving = NoClient
  /\ result = NoQueue /\ made = 0
  /\ state = [q \in Queue |-> "none"]
  /\ owner = [q \in Queue |-> NoClient]
  /\ memory = [q \in Queue |-> {}]
  /\ object = {}
  /\ call = [c \in Client |-> NoCall]
  /\ failed = {}
  /\ caps = [c \in Client |-> {}]

Returns(c, r) ==
  /\ call' = [call EXCEPT ![c] = NoCall]
  /\ failed' = IF r = "error" THEN failed \cup {c} ELSE failed \ {c}

Creating(c) == call[c].op = "create"
Inside(c) == server \in {"receive", "reply"} /\ serving = c

-----------------------------------------------------------------------------
(* A client calls the server: create_wq or create_cq, which work the same, or
   kill. *)
CallServer(c) ==
  /\ call[c] = NoCall
  /\ \E op \in {"create", "kill"} :
       /\ op = "create" =>                                     \* bound
            made + Cardinality({d \in Client : Creating(d) /\ ~Inside(d)})
              < MaxQueues
       /\ call' = [call EXCEPT ![c] = [op |-> op, to |-> NoQueue]]
  /\ UNCHANGED <<server_vars, queue_vars, failed, caps>>

(* A client calls one of its queues: to ask for something, or terminate. *)
CallQueue(c) ==
  /\ call[c] = NoCall
  /\ \E q \in caps[c], op \in {"ask", "terminate"} :
       call' = [call EXCEPT ![c] = [op |-> op, to |-> q]]
  /\ UNCHANGED <<server_vars, queue_vars, failed, caps>>

(* A queue nobody answers for: its object is unregistered, or its thread is gone. *)
Dead(q) == q \notin object \/ state[q] = "deleted"

(* The object of a call is gone: the kernel ends it with an error. *)
CallAborts(c) ==
  /\ call[c] # NoCall
  /\ \/ server = "ended"
     \/ call[c].to # NoQueue /\ Dead(call[c].to)
  /\ Returns(c, "error")
  /\ UNCHANGED <<server_vars, queue_vars, caps>>

-----------------------------------------------------------------------------
AfterCreateNoWait == "reply"   \* mutant of AfterCreate: no l4_ipc_receive
AfterCreate == "receive"

(* op_create_wq or op_create_cq starts the queue's thread and waits for it. *)
Create(c) ==
  /\ server = "loop" /\ Creating(c)
  /\ server' = AfterCreate /\ serving' = c
  /\ made' = made + 1
  /\ state' = [state EXCEPT ![made + 1] = "start"]
  /\ owner' = [owner EXCEPT ![made + 1] = c]
  /\ UNCHANGED <<result, memory, object, client_vars>>

(* std::thread throws: like op_kill's, the exception ends the service loop. *)
CreateThrows(c) ==
  /\ server = "loop" /\ Creating(c)
  /\ server' = "stopped"
  /\ UNCHANGED <<serving, result, made, queue_vars, client_vars>>

(* The thread's message. *)
Receive(q) ==
  /\ server = "receive" /\ q = made /\ state[q] = "notify"
  /\ server' = "reply"
  /\ state' = [state EXCEPT ![q] = "loop"]
  /\ UNCHANGED <<serving, result, made, owner, memory, object, client_vars>>

(* The receive fails, which is printed and not returned. *)
ReceiveFails ==
  /\ server = "receive" /\ state[made] = "deleted"
  /\ server' = "reply"
  /\ UNCHANGED <<serving, result, made, queue_vars, client_vars>>

GrantedUnset == {result}       \* mutant of Granted: an unset variable as well
Granted == {result} \ {NoQueue}

(* The call returns L4_EOK and the capability, if there is one. *)
Reply ==
  /\ server = "reply"
  /\ Returns(serving, "ok")
  /\ caps' = [caps EXCEPT ![serving] = @ \cup Granted]
  /\ server' = "loop" /\ serving' = NoClient /\ result' = NoQueue
  /\ UNCHANGED <<made, queue_vars>>

(* op_kill throws out of the service loop; nobody replies. *)
Kill(c) ==
  /\ server = "loop" /\ call[c].op = "kill"
  /\ server' = "stopped"
  /\ UNCHANGED <<serving, result, made, queue_vars, client_vars>>

(* main has joined its handler and taken the HCA down (Driver), and returns:
   the queue threads end with it. *)
Exit ==
  /\ server = "stopped"
  /\ server' = "ended"
  /\ UNCHANGED <<serving, result, made, queue_vars, client_vars>>

-----------------------------------------------------------------------------
Alive(q, label) == state[q] = label /\ server # "ended"
Goto(q, label) == state' = [state EXCEPT ![q] = label]

(* setup_and_start returns before its loop. *)
Fails(q) == \E label \in {"failed", "deleted"} : Goto(q, label)

(* run_thread. *)
Start(q) ==
  /\ Alive(q, "start")
  /\ Goto(q, "alloc") \/ Fails(q)
  /\ UNCHANGED <<server_vars, owner, memory, object, client_vars>>

(* mem_alloc: a capability slot, a dataspace, a mapping. What it has got when
   it fails is not given back. *)
MemAlloc(q) ==
  /\ Alive(q, "alloc")
  /\ \E got \in {{}, {"slot"}, {"slot", "dataspace"}, Memory} :
       /\ memory' = [memory EXCEPT ![q] = got]
       /\ IF got = Memory THEN Goto(q, "register") ELSE Fails(q)
  /\ UNCHANGED <<server_vars, owner, object, client_vars>>

Register(q) ==
  /\ Alive(q, "register")
  /\ \/ Goto(q, "publish") /\ object' = object \cup {q}
     \/ Fails(q) /\ UNCHANGED object
  /\ UNCHANGED <<server_vars, owner, memory, client_vars>>

AfterPublishSilent == "loop"   \* mutant of AfterPublish: no message
AfterPublish == "notify"

(* *res = obj_cap(): a write into the frame of the server's call. *)
Publish(q) ==
  /\ Alive(q, "publish")
  /\ result' = q
  /\ Goto(q, AfterPublish)
  /\ UNCHANGED <<server, serving, made, owner, memory, object, client_vars>>

(* l4_ipc_send fails: the thread returns. Its object stays registered, its memory
   allocated, and the server's frame keeps the capability. *)
NotifyFails(q) ==
  /\ Alive(q, "notify")
  /\ Fails(q)
  /\ UNCHANGED <<server_vars, owner, memory, object, client_vars>>

(* The queue's own loop: a get or a subtraction, answered at once, ... *)
Answer(q) ==
  /\ Alive(q, "loop")
  /\ \E c \in Client : /\ call[c] = [op |-> "ask", to |-> q]
                       /\ Returns(c, "ok")
  /\ UNCHANGED <<server_vars, queue_vars, caps>>

(* ... or op_terminate, whose exception ends the loop. *)
Terminate(q) ==
  /\ Alive(q, "loop")
  /\ \E c \in Client : /\ call[c] = [op |-> "terminate", to |-> q]
                       /\ Returns(c, "ok")
  /\ Goto(q, "unregister")
  /\ UNCHANGED <<server_vars, owner, memory, object, caps>>

UnregisteredNot(q) == object   \* mutant of Unregistered: the object stays
Unregistered(q) == object \ {q}

Unregister(q) ==
  /\ Alive(q, "unregister")
  /\ object' = Unregistered(q)
  /\ Goto(q, "cleanup")
  /\ UNCHANGED <<server_vars, owner, memory, client_vars>>

(* A detach that fails is only printed: the mapping stays. The capability is freed
   all the same. Mutant of Kept: it is not. *)
KeptSlot(q) == memory[q] \ {"mapping"}
Kept(q) == {}

Cleanup(q) ==
  /\ Alive(q, "cleanup")
  /\ \E mapped \in {{}, {"mapping"}} :
       memory' = [memory EXCEPT ![q] = Kept(q) \cup mapped]
  /\ Goto(q, "gone")
  /\ UNCHANGED <<server_vars, owner, object, client_vars>>

-----------------------------------------------------------------------------
ServerStep ==
  \/ \E c \in Client : Create(c) \/ CreateThrows(c) \/ Kill(c)
  \/ \E q \in Queue : Receive(q)
  \/ ReceiveFails \/ Reply \/ Exit

QueueStep(q) ==
  \/ Start(q) \/ MemAlloc(q) \/ Register(q) \/ Publish(q)
  \/ Answer(q) \/ Terminate(q) \/ Unregister(q) \/ Cleanup(q)

ClientStep(c) == CallServer(c) \/ CallQueue(c)

Next ==
  \/ ServerStep
  \/ \E q \in Queue : QueueStep(q) \/ NotifyFails(q)
  \/ \E c \in Client : ClientStep(c) \/ CallAborts(c)

Spec == Init /\ [][Next]_vars

(* The server's threads are scheduled, and the kernel ends dead calls.
   Clients owe nothing. *)
Fairness ==
  /\ WF_vars(ServerStep)
  /\ \A q \in Queue : WF_vars(QueueStep(q))
  /\ \A c \in Client : WF_vars(CallAborts(c))

FairSpec == Spec /\ Fairness

-----------------------------------------------------------------------------
State == {"none", "start", "alloc", "register", "publish", "notify", "loop",
          "unregister", "cleanup", "gone", "failed", "deleted"}

Op == {"none", "create", "kill", "ask", "terminate"}

TypeOK ==
  /\ server \in {"loop", "receive", "reply", "stopped", "ended"}
  /\ serving \in Client \cup {NoClient} /\ result \in Queue \cup {NoQueue}
  /\ made \in 0..MaxQueues
  /\ state \in [Queue -> State] /\ owner \in [Queue -> Client \cup {NoClient}]
  /\ memory \in [Queue -> SUBSET Memory]
  /\ object \subseteq Queue
  /\ call \in [Client -> [op : Op, to : Queue \cup {NoQueue}]]
  /\ failed \subseteq Client
  /\ caps \in [Client -> SUBSET Queue]

(* A reply belongs to its call, however calls and failed setups mix: a client never
   gets somebody else's queue, nor one whose setup stopped before its object was
   registered. What it may get is a queue that served it once, or one whose setup
   failed in its last step, the message: complete, but with no thread to answer. *)
RepliesMatch ==
  \A c \in Client : \A q \in caps[c] :
    /\ owner[q] = c
    /\ \/ state[q] \in {"loop", "unregister", "cleanup", "gone"}
       \/ state[q] = "deleted" /\ q \in object

(* A queue thread writes through the pointer into the server's frame only
   while the server is in that very call. *)
FrameOutlivesSetup ==
  \A q \in Queue : state[q] \in {"publish", "notify"} =>
                     server = "receive" /\ made = q

(* A queue that clients can reach has all of its memory, also one whose message
   failed, and one that has shut down has at most its mapping left. *)
MemoryFollowsObject ==
  \A q \in Queue : /\ q \in object => memory[q] = Memory
                   /\ state[q] = "gone" => memory[q] \subseteq {"mapping"}

(* Without a failed setup every create call ends. *)
CreatesServed ==
  \A c \in Client :
    Creating(c) ~> ~Creating(c) \/ \E q \in Queue : state[q] = "failed"

(* terminate frees the queue's dataspace and slot, whether or not it can be
   unmapped, unless the server ends before. *)
TerminateFrees ==
  \A q \in Queue :
    state[q] = "unregister" ~> memory[q] \subseteq {"mapping"} \/ server = "ended"

(* The test client expects a create call that did not work to say so ("Failed
   to create WQ", client.cc:36). *)
FailureReported ==
  \A q \in Queue : state[q] \in {"failed", "deleted"} ~> owner[q] \in failed

(* The test client takes a kill that is not answered with L4_EOK for a failure
   (client.cc:79). *)
KillSucceeds ==
  \A c \in Client :
    call[c].op = "kill" ~> call[c].op # "kill" /\ c \notin failed

=============================================================================
