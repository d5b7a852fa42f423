---------------------------- MODULE IpcServerProofs ----------------------------
(***************************************************************************)
(* Proofs about IpcServer, for any set of clients and any bound on the     *)
(* queues.                                                                 *)
(*                                                                         *)
(* The inductive invariant says how far each queue thread can be: those    *)
(* before the last one have ended their setup, the last one is still in it *)
(* only while the server waits in the call it was started for, and those   *)
(* after it are not started. Everything else follows from where the server *)
(* is and where a thread is.                                               *)
(***************************************************************************)
EXTENDS IpcServer, FiniteSetTheorems, TLAPS

Busy == server \in {"receive", "reply"}

InSetup == {"start", "alloc", "register", "publish", "notify", "failed", "deleted"}
Served == {"loop", "unregister", "cleanup", "gone"}

(* Setups come one after the other, each inside its own call. *)
OneSetup ==
  /\ serving \in Client <=> Busy
  /\ Busy => made # 0 /\ owner[made] = serving
  /\ server = "receive" => state[made] \in InSetup
  /\ \A q \in Queue :
       /\ q > made => state[q] = "none"
       /\ q < made \/ (q = made /\ server # "receive") =>
            state[q] \in Served \cup {"deleted"}

(* The thread's message has failed. *)
Silent(q) == state[q] \in {"failed", "deleted"} /\ q \in object

(* The local variable of the call has the capability of the call's own queue, or
   none. *)
OwnResult ==
  result # NoQueue =>
    /\ Busy /\ result = made
    /\ state[made] \in Served \cup {"notify"} \/ Silent(made)

(* A thread registers its object with its memory, and frees it without; from its
   message on, and until it shuts down, the object is registered. *)
MemoryFirst ==
  \A q \in Queue :
    /\ q \in object => \/ state[q] \in {"publish", "notify", "loop", "unregister"}
                       \/ Silent(q)
    /\ state[q] \in {"publish", "notify"} => q \in object
    /\ state[q] = "register" => memory[q] = Memory

(* There is a queue left for every create call the server has not taken yet. *)
Waiting == {c \in Client : Creating(c) /\ ~Inside(c)}

Bounded == IsFiniteSet(Waiting) /\ made + Cardinality(Waiting) <= MaxQueues

Inv ==
  /\ TypeOK /\ OneSetup /\ OwnResult /\ MemoryFirst /\ Bounded
  /\ RepliesMatch /\ MemoryFollowsObject

-----------------------------------------------------------------------------
(* A step of a queue's thread changes what is its own; a thread in its setup stays
   in it until its message is taken, and one that serves clients never goes back. *)
LEMMA QueueMoves ==
  ASSUME TypeOK, NEW q \in Queue, QueueStep(q) \/ NotifyFails(q)
  PROVE  /\ server # "ended" /\ UNCHANGED <<server, serving, made, owner>>
         /\ state' \in [Queue -> State] /\ memory' \in [Queue -> SUBSET Memory]
         /\ \A r \in Queue \ {q} : state'[r] = state[r] /\ memory'[r] = memory[r]
         /\ \/ /\ state[q] \in {"start", "alloc", "register", "publish", "notify"}
               /\ state'[q] \in InSetup
            \/ state[q] \in Served /\ state'[q] \in Served
<1> USE DEF Alive, Goto, Fails, TypeOK, State, InSetup, Served, server_vars,
            client_vars, queue_vars
<1>1. CASE Start(q)
  BY <1>1 DEF Start
<1>2. CASE MemAlloc(q)
  <2>1. PICK got \in {{}, {"slot"}, {"slot", "dataspace"}, Memory} :
          /\ memory' = [memory EXCEPT ![q] = got]
          /\ IF got = Memory THEN Goto(q, "register") ELSE Fails(q)
    BY <1>2 DEF MemAlloc
  <2>2. got \in SUBSET Memory
    BY DEF Memory
  <2>3. \E l \in {"register", "failed", "deleted"} : state' = [state EXCEPT ![q] = l]
    BY <2>1
  <2> QED
    BY <1>2, <2>1, <2>2, <2>3 DEF MemAlloc
<1>3. CASE Register(q)
  BY <1>3 DEF Register
<1>4. CASE Publish(q)
  BY <1>4 DEF Publish, AfterPublish
<1>5. CASE Answer(q)
  BY <1>5 DEF Answer
<1>6. CASE Terminate(q)
  BY <1>6 DEF Terminate
<1>7. CASE Unregister(q)
  BY <1>7 DEF Unregister
<1>8. CASE Cleanup(q)
  BY <1>8 DEF Cleanup, Kept, Memory
<1>9. CASE NotifyFails(q)
  BY <1>9 DEF NotifyFails
<1> QED
  BY <1>1, <1>2, <1>3, <1>4, <1>5, <1>6, <1>7, <1>8, <1>9 DEF QueueStep

(* The server takes a create call only if a queue is left for it. *)
LEMMA QueueLeft ==
  ASSUME TypeOK, OneSetup, Bounded, NEW c \in Client, Create(c)
  PROVE  /\ made' = made + 1 /\ made' \in Queue /\ state[made'] = "none"
         /\ Waiting' = Waiting \ {c} /\ c \in Waiting
         /\ IsFiniteSet(Waiting') /\ Cardinality(Waiting') = Cardinality(Waiting) - 1
<1>1. c \in Waiting
  BY DEF Create, Waiting, Creating, Inside
<1>2. \A d : d \in Waiting' <=> d \in Waiting /\ d # c
  BY DEF Create, AfterCreate, Waiting, Creating, Inside, client_vars
<1>3. /\ IsFiniteSet(Waiting \ {c})
      /\ Cardinality(Waiting \ {c}) = Cardinality(Waiting) - 1
  BY <1>1, FS_RemoveElement DEF Bounded
<1>4. Cardinality(Waiting) \in Nat /\ Cardinality(Waiting \ {c}) \in Nat
  BY <1>3, FS_CardinalityType DEF Bounded
<1>5. made' = made + 1 /\ made' \in Queue
  BY <1>3, <1>4, IpcAssumption DEF Create, Bounded, TypeOK, Queue
<1>6. Waiting' = Waiting \ {c}
  BY <1>2
<1> QED
  BY <1>1, <1>3, <1>5, <1>6 DEF OneSetup, TypeOK

LEMMA BoundedStep ==
  ASSUME Inv, [Next]_vars
  PROVE  Bounded'
<1> USE DEF Inv
<1>1. ASSUME NEW c \in Client, Create(c)
      PROVE  Bounded'
  <2>1. Cardinality(Waiting) \in Nat
    BY FS_CardinalityType DEF Bounded
  <2> QED
    BY <1>1, <2>1, QueueLeft DEF Bounded, TypeOK
<1>2. ASSUME UNCHANGED made, \A d : d \in Waiting' => d \in Waiting
      PROVE  Bounded'
  <2>1. Waiting' \subseteq Waiting
    BY <1>2
  <2>2. /\ IsFiniteSet(Waiting') /\ Cardinality(Waiting') <= Cardinality(Waiting)
        /\ Cardinality(Waiting) \in Nat /\ Cardinality(Waiting') \in Nat
    BY <2>1, FS_Subset, FS_CardinalityType DEF Bounded
  <2> QED
    BY <1>2, <2>2, IpcAssumption DEF Bounded, TypeOK
<1>3. ASSUME NEW c \in Client, CallServer(c)
      PROVE  Bounded'
  <2>1. PICK op \in {"create", "kill"} :
          /\ op = "create" => made + Cardinality(Waiting) < MaxQueues
          /\ call' = [call EXCEPT ![c] = [op |-> op, to |-> NoQueue]]
    BY <1>3 DEF CallServer, Waiting
  <2>2. \A d : d \in Waiting' => d \in Waiting \/ (d = c /\ op = "create")
    BY <1>3, <2>1 DEF CallServer, Waiting, Creating, Inside, TypeOK, server_vars
  <2>3. CASE op = "kill"
    BY <1>2, <1>3, <2>2, <2>3 DEF CallServer, server_vars
  <2>4. CASE op = "create"
    <3>1. /\ IsFiniteSet(Waiting \cup {c})
          /\ Cardinality(Waiting \cup {c}) =
               IF c \in Waiting THEN Cardinality(Waiting) ELSE Cardinality(Waiting) + 1
      BY FS_AddElement DEF Bounded
    <3>2. /\ IsFiniteSet(Waiting')
          /\ Cardinality(Waiting') <= Cardinality(Waiting \cup {c})
      BY <2>2, <3>1, FS_Subset
    <3>3. Cardinality(Waiting) \in Nat /\ Cardinality(Waiting') \in Nat
      BY <3>2, FS_CardinalityType DEF Bounded
    <3>4. made' = made
      BY <1>3 DEF CallServer, server_vars
    <3> QED
      BY <2>1, <2>4, <3>1, <3>2, <3>3, <3>4, IpcAssumption DEF Bounded, TypeOK
  <2> QED
    BY <2>1, <2>3, <2>4
<1>4. ASSUME NEW c \in Client, CallQueue(c)
      PROVE  Bounded'
  <2>1. \A d : d \in Waiting' => d \in Waiting
    BY <1>4 DEF CallQueue, Waiting, Creating, Inside, TypeOK, server_vars
  <2> QED
    BY <1>2, <1>4, <2>1 DEF CallQueue, server_vars
<1>5. ASSUME NEW c \in Client, CreateThrows(c) \/ Kill(c) \/ CallAborts(c)
      PROVE  Bounded'
  <2>1. \A d : d \in Waiting' => d \in Waiting
    BY <1>5 DEF CreateThrows, Kill, CallAborts, Returns, NoCall, Waiting, Creating,
                Inside, TypeOK, server_vars, client_vars
  <2> QED
    BY <1>2, <1>5, <2>1 DEF CreateThrows, Kill, CallAborts, server_vars
<1>6. CASE ReceiveFails \/ Reply \/ Exit \/ \E q \in Queue : Receive(q)
  <2>1. \A d : d \in Waiting' => d \in Waiting
    BY <1>6 DEF ReceiveFails, Reply, Exit, Receive, Returns, NoCall, Waiting,
                Creating, Inside, TypeOK, client_vars
  <2> QED
    BY <1>2, <1>6, <2>1 DEF ReceiveFails, Reply, Exit, Receive
<1>7. ASSUME NEW q \in Queue, QueueStep(q) \/ NotifyFails(q)
      PROVE  Bounded'
  <2>1. call' = call \/ \E c \in Client : call' = [call EXCEPT ![c] = NoCall]
    BY <1>7 DEF QueueStep, Start, MemAlloc, Register, Publish, Answer, Terminate,
                Unregister, Cleanup, NotifyFails, Returns, client_vars
  <2>2. UNCHANGED <<server, serving, made>>
    BY <1>7, QueueMoves
  <2>3. \A d : d \in Waiting' => d \in Waiting
    BY <2>1, <2>2 DEF NoCall, Waiting, Creating, Inside, TypeOK
  <2> QED
    BY <1>2, <2>2, <2>3
<1>8. CASE UNCHANGED vars
  <2>1. Waiting' = Waiting
    BY <1>8 DEF vars, server_vars, client_vars, Waiting, Creating, Inside
  <2> QED
    BY <1>2, <1>8, <2>1 DEF vars, server_vars
<1> QED
  BY <1>1, <1>3, <1>4, <1>5, <1>6, <1>7, <1>8 DEF Next, ServerStep, ClientStep

-----------------------------------------------------------------------------
(* A call ends. *)
LEMMA ReturnsType ==
  ASSUME TypeOK, NEW c \in Client, NEW r, Returns(c, r)
  PROVE  /\ call' \in [Client -> [op : Op, to : Queue \cup {NoQueue}]]
         /\ failed' \subseteq Client
BY DEF TypeOK, Returns, NoCall, Op

LEMMA TypeStep ==
  ASSUME Inv, [Next]_vars
  PROVE  TypeOK'
<1> USE DEF Inv
<1>1. CASE UNCHANGED vars
  BY <1>1 DEF vars, server_vars, queue_vars, client_vars, TypeOK
<1>2. ASSUME NEW c \in Client, Create(c)
      PROVE  TypeOK'
  <2>1. made' = made + 1 /\ made' \in Queue
    BY <1>2, QueueLeft
  <2>2. made' \in 0..MaxQueues
    BY <2>1, IpcAssumption DEF Queue
  <2> QED
    BY <1>2, <2>1, <2>2 DEF Create, AfterCreate, client_vars, TypeOK, State
<1>3. ASSUME NEW c \in Client, CreateThrows(c) \/ Kill(c)
      PROVE  TypeOK'
  BY <1>3 DEF CreateThrows, Kill, queue_vars, client_vars, TypeOK
<1>4. ASSUME NEW c \in Client, CallServer(c)
      PROVE  TypeOK'
  <2>1. PICK op \in {"create", "kill"} :
          call' = [call EXCEPT ![c] = [op |-> op, to |-> NoQueue]]
    BY <1>4 DEF CallServer
  <2>2. [op |-> op, to |-> NoQueue] \in [op : Op, to : Queue \cup {NoQueue}]
    BY DEF Op
  <2> QED
    BY <1>4, <2>1, <2>2 DEF CallServer, server_vars, queue_vars, TypeOK
<1>5. ASSUME NEW c \in Client, CallQueue(c)
      PROVE  TypeOK'
  <2>1. PICK q \in Queue, op \in {"ask", "terminate"} :
          call' = [call EXCEPT ![c] = [op |-> op, to |-> q]]
    BY <1>5 DEF CallQueue, TypeOK
  <2>2. [op |-> op, to |-> q] \in [op : Op, to : Queue \cup {NoQueue}]
    BY DEF Op
  <2> QED
    BY <1>5, <2>1, <2>2 DEF CallQueue, server_vars, queue_vars, TypeOK
<1>6. ASSUME NEW c \in Client, CallAborts(c)
      PROVE  TypeOK'
  BY <1>6, ReturnsType DEF CallAborts, server_vars, queue_vars, TypeOK
<1>7. ASSUME NEW q \in Queue, Receive(q)
      PROVE  TypeOK'
  BY <1>7 DEF Receive, client_vars, TypeOK, State
<1>8. CASE ReceiveFails \/ Exit
  BY <1>8 DEF ReceiveFails, Exit, queue_vars, client_vars, TypeOK
<1>9. CASE Reply
  <2>1. serving \in Client
    BY <1>9 DEF Reply, OneSetup, Busy
  <2>2. Granted \subseteq Queue
    BY DEF Granted, TypeOK
  <2> QED
    BY <1>9, <2>1, <2>2, ReturnsType DEF Reply, queue_vars, TypeOK
<1>10. ASSUME NEW q \in Queue, QueueStep(q) \/ NotifyFails(q)
       PROVE  TypeOK'
  <2>1. /\ UNCHANGED <<server, serving, made, owner>>
        /\ state' \in [Queue -> State] /\ memory' \in [Queue -> SUBSET Memory]
    BY <1>10, QueueMoves
  <2>2. /\ caps' = caps /\ result' \in {result, q}
        /\ object' \in {object, object \cup {q}, object \ {q}}
        /\ \/ UNCHANGED <<call, failed>>
           \/ \E c \in Client : Returns(c, "ok")
    BY <1>10 DEF QueueStep, Start, MemAlloc, Register, Publish, Answer, Terminate,
                 Unregister, Unregistered, Cleanup, NotifyFails, server_vars,
                 queue_vars, client_vars
  <2>3. /\ call' \in [Client -> [op : Op, to : Queue \cup {NoQueue}]]
        /\ failed' \subseteq Client
    BY <2>2, ReturnsType DEF TypeOK
  <2> QED
    BY <2>1, <2>2, <2>3 DEF TypeOK
<1> QED
  BY <1>1, <1>2, <1>3, <1>4, <1>5, <1>6, <1>7, <1>8, <1>9, <1>10
  DEF Next, ServerStep, ClientStep

(* The steps of clients and of the kernel leave the server and the queues alone. *)
LEMMA ClientMoves ==
  ASSUME NEW c \in Client, ClientStep(c) \/ CallAborts(c)
  PROVE  UNCHANGED <<server_vars, queue_vars, caps>>
BY DEF ClientStep, CallServer, CallQueue, CallAborts

LEMMA SetupStep ==
  ASSUME Inv, [Next]_vars
  PROVE  OneSetup'
<1>1. TypeOK /\ OneSetup /\ TypeOK'
  BY TypeStep DEF Inv
<1>2. ASSUME UNCHANGED <<serving, made, state, owner>>, Busy' <=> Busy,
             server' = "receive" => server = "receive",
             server = "receive" => server' = "receive" \/ state[made] = "deleted"
      PROVE  OneSetup'
  BY <1>1, <1>2 DEF OneSetup, Busy, TypeOK, Queue
<1>3. CASE UNCHANGED vars \/ \E c \in Client : ClientStep(c) \/ CallAborts(c)
  BY <1>2, <1>3, ClientMoves DEF vars, server_vars, queue_vars, Busy
<1>4. ASSUME NEW c \in Client, Create(c)
      PROVE  OneSetup'
  <2>1. made' = made + 1 /\ made' \in Queue /\ state[made'] = "none"
    BY <1>4, QueueLeft DEF Inv
  <2>2. /\ server = "loop" /\ server' = "receive" /\ serving' = c
        /\ state' = [state EXCEPT ![made'] = "start"]
        /\ owner' = [owner EXCEPT ![made'] = c]
    BY <1>4, <2>1 DEF Create, AfterCreate
  <2>3. made \in Nat
    BY <1>1, IpcAssumption DEF TypeOK
  <2>4. /\ made' # 0 /\ owner'[made'] = c /\ state'[made'] = "start"
        /\ \A q \in Queue : q # made' => state'[q] = state[q]
    BY <1>1, <2>1, <2>2, <2>3 DEF TypeOK
  <2>5. ASSUME NEW q \in Queue
        PROVE  /\ q > made' => state'[q] = "none"
               /\ q < made' \/ (q = made' /\ server' # "receive") =>
                    state'[q] \in Served \cup {"deleted"}
    BY <1>1, <2>1, <2>2, <2>3, <2>4 DEF OneSetup, Queue
  <2> QED
    BY <2>2, <2>4, <2>5 DEF OneSetup, Busy, InSetup
<1>5. ASSUME NEW c \in Client, CreateThrows(c) \/ Kill(c)
      PROVE  OneSetup'
  BY <1>2, <1>5 DEF CreateThrows, Kill, queue_vars, Busy
<1>6. ASSUME NEW q \in Queue, Receive(q)
      PROVE  OneSetup'
  <2>1. /\ server = "receive" /\ server' = "reply" /\ q = made
        /\ state'[q] = "loop" /\ \A r \in Queue : r # q => state'[r] = state[r]
        /\ UNCHANGED <<serving, made, owner>>
    BY <1>1, <1>6 DEF Receive, TypeOK
  <2> QED
    BY <1>1, <2>1 DEF OneSetup, Busy, Served, TypeOK, Queue
<1>7. CASE ReceiveFails
  BY <1>2, <1>7 DEF ReceiveFails, queue_vars, Busy
<1>8. CASE Reply
  <2>1. /\ server = "reply" /\ server' = "loop" /\ serving' = NoClient
        /\ UNCHANGED <<made, state, owner>>
    BY <1>8 DEF Reply, queue_vars
  <2> QED
    BY <1>1, <2>1, IpcAssumption DEF OneSetup, Busy, TypeOK
<1>9. CASE Exit
  BY <1>2, <1>9 DEF Exit, queue_vars, Busy
<1>10. ASSUME NEW q \in Queue, QueueStep(q) \/ NotifyFails(q)
       PROVE  OneSetup'
  <2>1. /\ UNCHANGED <<server, serving, made, owner>>
        /\ \A r \in Queue \ {q} : state'[r] = state[r]
        /\ \/ /\ state[q] \in {"start", "alloc", "register", "publish", "notify"}
              /\ state'[q] \in InSetup
           \/ state[q] \in Served /\ state'[q] \in Served
    BY <1>1, <1>10, QueueMoves
  <2>2. CASE state[q] \in {"start", "alloc", "register", "publish", "notify"}
    <3>1. q = made /\ server = "receive"
      <4>1. state[q] # "none" /\ state[q] \notin Served \cup {"deleted"}
        BY <2>2 DEF Served
      <4>2. ~(q > made) /\ ~(q < made) /\ ~(q = made /\ server # "receive")
        BY <1>1, <4>1 DEF OneSetup
      <4>3. q \in Nat /\ made \in Nat
        BY <1>1, IpcAssumption DEF TypeOK, Queue
      <4> QED
        BY <4>2, <4>3
    <3>2. state'[made] \in InSetup
      BY <2>1, <2>2, <3>1 DEF Served
    <3>3. ASSUME NEW r \in Queue
          PROVE  /\ r > made => state'[r] = "none"
                 /\ r < made => state'[r] \in Served \cup {"deleted"}
      <4>1. r # made => state'[r] = state[r]
        BY <2>1, <3>1
      <4> QED
        BY <1>1, <4>1, IpcAssumption DEF OneSetup, TypeOK, Queue
    <3> QED
      BY <1>1, <2>1, <3>1, <3>2, <3>3 DEF OneSetup, Busy
  <2>3. CASE state[q] \in Served
    <3>1. q <= made /\ (q = made => server # "receive")
      BY <1>1, <2>3, IpcAssumption DEF OneSetup, Served, InSetup, TypeOK, Queue
    <3>2. state'[q] \in Served
      BY <2>1, <2>3 DEF Served
    <3>3. ASSUME NEW r \in Queue
          PROVE  /\ r > made => state'[r] = "none"
                 /\ r < made \/ (r = made /\ server # "receive") =>
                      state'[r] \in Served \cup {"deleted"}
      <4>1. CASE r = q
        BY <1>1, <3>1, <3>2, <4>1, IpcAssumption DEF TypeOK, Queue
      <4>2. CASE r # q
        BY <1>1, <2>1, <4>2 DEF OneSetup
      <4> QED
        BY <4>1, <4>2
    <3>4. server = "receive" => state'[made] \in InSetup
      BY <1>1, <2>1, <3>1 DEF OneSetup, TypeOK, Queue
    <3> QED
      BY <1>1, <2>1, <3>3, <3>4 DEF OneSetup, Busy
  <2> QED
    BY <2>1, <2>2, <2>3
<1> QED
  BY <1>3, <1>4, <1>5, <1>6, <1>7, <1>8, <1>9, <1>10 DEF Next, ServerStep

-----------------------------------------------------------------------------
(* What a queue's thread does to its memory and its object, in one place. *)
LEMMA OwnMemory ==
  ASSUME TypeOK, MemoryFirst, MemoryFollowsObject, NEW q \in Queue,
         QueueStep(q) \/ NotifyFails(q)
  PROVE  /\ q \in object' => /\ memory'[q] = Memory
                             /\ \/ state'[q] \in {"publish", "notify", "loop", "unregister"}
                                \/ Silent(q)'
         /\ state'[q] \in {"publish", "notify"} => q \in object'
         /\ state'[q] = "register" => memory'[q] = Memory
         /\ state'[q] = "gone" => memory'[q] \subseteq {"mapping"}
         /\ state[q] \in {"notify", "deleted"} /\ q \in object => q \in object'
         /\ \A r \in Queue \ {q} : r \in object' <=> r \in object
<1> USE DEF Alive, Goto, Fails, TypeOK, MemoryFirst, MemoryFollowsObject, Silent,
            server_vars, client_vars, queue_vars
<1>1. CASE Start(q)
  BY <1>1 DEF Start
<1>2. CASE MemAlloc(q)
  <2>1. PICK got :
          /\ memory' = [memory EXCEPT ![q] = got]
          /\ IF got = Memory THEN Goto(q, "register") ELSE Fails(q)
    BY <1>2 DEF MemAlloc
  <2>2. state[q] = "alloc" /\ object' = object
    BY <1>2 DEF MemAlloc
  <2>3. memory'[q] = got /\ q \notin object
    BY <2>1, <2>2
  <2> QED
    BY <2>1, <2>2, <2>3
<1>3. CASE Register(q)
  BY <1>3 DEF Register
<1>4. CASE Publish(q)
  BY <1>4 DEF Publish, AfterPublish
<1>5. CASE Answer(q)
  BY <1>5 DEF Answer
<1>6. CASE Terminate(q)
  BY <1>6 DEF Terminate
<1>7. CASE Unregister(q)
  BY <1>7 DEF Unregister, Unregistered
<1>8. CASE Cleanup(q)
  BY <1>8 DEF Cleanup, Kept
<1>9. CASE NotifyFails(q)
  BY <1>9 DEF NotifyFails
<1> QED
  BY <1>1, <1>2, <1>3, <1>4, <1>5, <1>6, <1>7, <1>8, <1>9 DEF QueueStep

LEMMA ResultStep ==
  ASSUME Inv, [Next]_vars
  PROVE  OwnResult'
<1>1. TypeOK /\ OneSetup /\ OwnResult /\ MemoryFirst /\ MemoryFollowsObject
  BY DEF Inv
<1>2. CASE UNCHANGED vars \/ \E c \in Client : ClientStep(c) \/ CallAborts(c)
  BY <1>1, <1>2, ClientMoves DEF vars, server_vars, queue_vars, OwnResult, Busy, Silent
<1>3. ASSUME NEW c \in Client, Create(c) \/ CreateThrows(c) \/ Kill(c)
      PROVE  OwnResult'
  BY <1>1, <1>3 DEF Create, CreateThrows, Kill, OwnResult, Busy
<1>4. ASSUME NEW q \in Queue, Receive(q)
      PROVE  OwnResult'
  BY <1>1, <1>4 DEF Receive, OwnResult, Busy, Served, Silent, TypeOK
<1>5. CASE ReceiveFails
  BY <1>1, <1>5 DEF ReceiveFails, queue_vars, OwnResult, Busy, Silent
<1>6. CASE Reply \/ Exit
  BY <1>1, <1>6 DEF Reply, Exit, OwnResult, Busy
<1>7. ASSUME NEW q \in Queue, QueueStep(q) \/ NotifyFails(q)
      PROVE  OwnResult'
  <2>1. /\ UNCHANGED <<server, made>> /\ \A r \in Queue \ {q} : state'[r] = state[r]
        /\ state[q] \in Served => state'[q] \in Served
    BY <1>1, <1>7, QueueMoves DEF Served
  <2>2. CASE Publish(q)
    <3>1. state[q] = "publish" /\ state'[q] = "notify" /\ result' = q
      BY <1>1, <2>2 DEF Publish, AfterPublish, Alive, Goto, TypeOK
    <3>2. q = made /\ server = "receive"
      BY <1>1, <3>1, IpcAssumption DEF OneSetup, Served, TypeOK, Queue
    <3> QED
      BY <2>1, <3>1, <3>2 DEF OwnResult, Busy
  <2>3. CASE ~Publish(q)
    <3>1. result' = result /\ (\A r \in Queue : r # q => (r \in object' <=> r \in object))
      BY <1>1, <1>7, <2>3, OwnMemory
      DEF QueueStep, Start, MemAlloc, Register, Answer, Terminate, Unregister,
          Cleanup, NotifyFails, server_vars, queue_vars
    <3>2. state[q] = "notify" => Silent(q)'
      BY <1>1, <1>7, <2>3
      DEF QueueStep, Start, MemAlloc, Register, Answer, Terminate, Unregister, Cleanup,
          NotifyFails, Alive, Fails, Goto, Silent, MemoryFirst, TypeOK, queue_vars
    <3>3. state[q] \notin {"failed", "deleted"}
      BY <1>1, <1>7, QueueMoves DEF Served
    <3>4. CASE q = result
      BY <1>1, <2>1, <3>1, <3>2, <3>3, <3>4 DEF OwnResult, Busy, Silent
    <3>5. CASE q # result
      BY <1>1, <2>1, <3>1, <3>5, <3>3 DEF OwnResult, Busy, Silent, TypeOK
    <3> QED
      BY <3>4, <3>5
  <2> QED
    BY <2>2, <2>3
<1> QED
  BY <1>2, <1>3, <1>4, <1>5, <1>6, <1>7 DEF Next, ServerStep

LEMMA MemoryStep ==
  ASSUME Inv, [Next]_vars
  PROVE  MemoryFirst' /\ MemoryFollowsObject'
<1>1. TypeOK /\ OneSetup /\ MemoryFirst /\ MemoryFollowsObject
  BY DEF Inv
<1>2. ASSUME UNCHANGED <<state, memory, object>>
      PROVE  MemoryFirst' /\ MemoryFollowsObject'
  BY <1>1, <1>2 DEF MemoryFirst, MemoryFollowsObject, Silent
<1>3. CASE UNCHANGED vars \/ \E c \in Client : ClientStep(c) \/ CallAborts(c)
  BY <1>2, <1>3, ClientMoves DEF vars, queue_vars
<1>4. ASSUME NEW c \in Client, Create(c)
      PROVE  MemoryFirst' /\ MemoryFollowsObject'
  <2>1. made' = made + 1 /\ made' \in Queue /\ state[made'] = "none"
    BY <1>4, QueueLeft DEF Inv
  <2>2. /\ state' = [state EXCEPT ![made'] = "start"] /\ UNCHANGED <<memory, object>>
    BY <1>4, <2>1 DEF Create
  <2> QED
    BY <1>1, <2>1, <2>2 DEF MemoryFirst, MemoryFollowsObject, Silent, TypeOK
<1>5. ASSUME NEW c \in Client, CreateThrows(c) \/ Kill(c)
      PROVE  MemoryFirst' /\ MemoryFollowsObject'
  BY <1>2, <1>5 DEF CreateThrows, Kill, queue_vars
<1>6. ASSUME NEW q \in Queue, Receive(q)
      PROVE  MemoryFirst' /\ MemoryFollowsObject'
  BY <1>1, <1>6 DEF Receive, MemoryFirst, MemoryFollowsObject, Silent, TypeOK
<1>7. CASE ReceiveFails \/ Reply \/ Exit
  BY <1>2, <1>7 DEF ReceiveFails, Reply, Exit, queue_vars
<1>8. ASSUME NEW q \in Queue, QueueStep(q) \/ NotifyFails(q)
      PROVE  MemoryFirst' /\ MemoryFollowsObject'
  <2>1. \A r \in Queue \ {q} : state'[r] = state[r] /\ memory'[r] = memory[r]
    BY <1>1, <1>8, QueueMoves
  <2> QED
    BY <1>1, <1>8, <2>1, OwnMemory DEF MemoryFirst, MemoryFollowsObject, Silent
<1> QED
  BY <1>3, <1>4, <1>5, <1>6, <1>7, <1>8 DEF Next, ServerStep

(* A capability reaches a client only in the reply to its own call, when the queue
   serves or its thread has failed to say so. *)
LEMMA RepliesStep ==
  ASSUME Inv, [Next]_vars
  PROVE  RepliesMatch'
<1>1. /\ TypeOK /\ OneSetup /\ OwnResult /\ RepliesMatch
      /\ MemoryFirst /\ MemoryFollowsObject
  BY DEF Inv
<1>2. ASSUME UNCHANGED <<state, owner, caps, object>>
      PROVE  RepliesMatch'
  BY <1>1, <1>2 DEF RepliesMatch
<1>3. CASE UNCHANGED vars \/ \E c \in Client : ClientStep(c) \/ CallAborts(c)
  BY <1>2, <1>3, ClientMoves DEF vars, queue_vars, client_vars
<1>4. ASSUME NEW c \in Client, Create(c)
      PROVE  RepliesMatch'
  <2>1. made' = made + 1 /\ made' \in Queue /\ state[made'] = "none"
    BY <1>4, QueueLeft DEF Inv
  <2>2. /\ state' = [state EXCEPT ![made'] = "start"]
        /\ owner' = [owner EXCEPT ![made'] = c] /\ caps' = caps /\ object' = object
    BY <1>4, <2>1 DEF Create, client_vars
  <2> QED
    BY <1>1, <2>1, <2>2 DEF RepliesMatch, TypeOK
<1>5. ASSUME NEW c \in Client, CreateThrows(c) \/ Kill(c)
      PROVE  RepliesMatch'
  BY <1>2, <1>5 DEF CreateThrows, Kill, queue_vars, client_vars
<1>6. ASSUME NEW q \in Queue, Receive(q)
      PROVE  RepliesMatch'
  BY <1>1, <1>6 DEF Receive, RepliesMatch, TypeOK, client_vars
<1>7. CASE ReceiveFails \/ Exit
  BY <1>2, <1>7 DEF ReceiveFails, Exit, queue_vars, client_vars
<1>8. CASE Reply
  <2>1. /\ serving \in Client /\ owner[made] = serving
        /\ UNCHANGED <<state, owner, object>>
    BY <1>1, <1>8 DEF Reply, OneSetup, Busy, queue_vars
  <2>2. caps' = [caps EXCEPT ![serving] = @ \cup Granted]
    BY <1>8 DEF Reply
  <2>3. ASSUME NEW q \in Granted
        PROVE  /\ q = made /\ q \in Queue
               /\ state[q] \in Served \/ (state[q] = "deleted" /\ q \in object)
    <3>1. q \in Queue /\ result # NoQueue /\ q = result
      BY <1>1 DEF Granted, TypeOK
    <3>2. q = made /\ (state[q] \in Served \cup {"notify"} \/ q \in object)
      BY <1>1, <3>1 DEF OwnResult, Silent
    <3>3. state[q] \in Served \cup {"deleted"}
      BY <1>1, <1>8, <3>1, <3>2 DEF Reply, OneSetup
    <3> QED
      BY <3>1, <3>2, <3>3 DEF Served
  <2>4. ASSUME NEW c \in Client, NEW q \in caps'[c]
        PROVE  /\ owner[q] = c
               /\ state[q] \in Served \/ (state[q] = "deleted" /\ q \in object)
    <3>1. q \in caps[c] \/ (c = serving /\ q \in Granted)
      BY <1>1, <2>1, <2>2 DEF TypeOK
    <3>2. CASE q \in caps[c]
      BY <1>1, <3>2 DEF RepliesMatch, Served
    <3>3. CASE c = serving /\ q \in Granted
      BY <2>1, <2>3, <3>3
    <3> QED
      BY <3>1, <3>2, <3>3
  <2> QED
    BY <2>1, <2>4 DEF RepliesMatch, Served
<1>9. ASSUME NEW q \in Queue, QueueStep(q) \/ NotifyFails(q)
      PROVE  RepliesMatch'
  <2>1. /\ UNCHANGED owner /\ \A r \in Queue \ {q} : state'[r] = state[r]
        /\ state[q] \in Served => state'[q] \in Served
        /\ state[q] # "deleted"
    BY <1>1, <1>9, QueueMoves DEF Served
  <2>2. caps' = caps
    BY <1>9 DEF QueueStep, Start, MemAlloc, Register, Publish, Answer, Terminate,
                Unregister, Cleanup, NotifyFails, client_vars
  <2>3. \A r \in Queue \ {q} : r \in object' <=> r \in object
    BY <1>1, <1>9, OwnMemory
  <2> QED
    BY <1>1, <2>1, <2>2, <2>3 DEF RepliesMatch, Served, TypeOK
<1> QED
  BY <1>3, <1>4, <1>5, <1>6, <1>7, <1>8, <1>9 DEF Next, ServerStep

-----------------------------------------------------------------------------
LEMMA InitInv ==
  ASSUME Init
  PROVE  Inv
<1> USE DEF Init
<1>1. TypeOK
  <2>1. /\ \A c \in Client : call[c] = NoCall
        /\ NoCall \in [op : Op, to : Queue \cup {NoQueue}]
    BY DEF NoCall, Op
  <2> QED
    BY <2>1, IpcAssumption DEF TypeOK, State, NoQueue
<1>2. OneSetup /\ OwnResult /\ MemoryFirst
  BY IpcAssumption DEF OneSetup, OwnResult, MemoryFirst, Busy, Queue
<1>3. RepliesMatch /\ MemoryFollowsObject
  BY DEF RepliesMatch, MemoryFollowsObject
<1>4. Bounded
  <2>1. Waiting = {}
    BY DEF Waiting, Creating, NoCall
  <2> QED
    BY <2>1, FS_EmptySet, IpcAssumption DEF Bounded
<1> QED
  BY <1>1, <1>2, <1>3, <1>4 DEF Inv

(* The inductive invariant holds in every state of the server. *)
THEOREM Invariance == Spec => []Inv
<1>1. Init => Inv
  BY InitInv
<1>2. Inv /\ [Next]_vars => Inv'
  BY TypeStep, SetupStep, ResultStep, MemoryStep, RepliesStep, BoundedStep DEF Inv
<1> QED
  BY <1>1, <1>2, PTL DEF Spec

(* The variables keep to their types; op_create_wq and op_create_cq start no more
   threads than there are calls for. *)
THEOREM TypeCorrect == Spec => []TypeOK
BY Invariance, PTL DEF Inv

(* A client gets the queue its own create call made, never one whose setup stopped
   before its object was registered, however the calls of clients and failed setups
   mix; one whose l4_ipc_send failed it may get, with nobody to answer. *)
THEOREM RepliesBelong == Spec => []RepliesMatch
BY Invariance, PTL DEF Inv

(* setup_and_start writes through its pointer into the server's frame only while
   the server is in the l4_ipc_receive of that very call. *)
THEOREM FramesOutlive == Spec => []FrameOutlivesSetup
<1>1. Inv => FrameOutlivesSetup
  BY IpcAssumption
  DEF Inv, OneSetup, FrameOutlivesSetup, Served, TypeOK, Queue
<1> QED
  BY <1>1, Invariance, PTL

(* An object that clients can call has all of its memory, and a queue that has
   shut down has given back all of it but a mapping that cleanup could not detach. *)
THEOREM MemoryKept == Spec => []MemoryFollowsObject
BY Invariance, PTL DEF Inv

=============================================================================
