----------------------- MODULE CommandInterfaceProofs -----------------------
(***************************************************************************)
(* Proofs about CommandInterface, for any threads, any queue size and any  *)
(* bound on the commands.                                                  *)
(*                                                                         *)
(* Everything but the types is proved for callers that take turns          *)
(* (Exclusive); MCCommandShared shows that it fails for callers that do    *)
(* not. The inductive invariant follows the one command in progress: which *)
(* entry is its own, that no other entry is with the hardware, and what    *)
(* the entry, the mailboxes, the doorbell and the HCA's copy hold for it   *)
(* at every point of the four calls.                                       *)
(***************************************************************************)
EXTENDS CommandInterface, TLAPS

(* The entry of a thread's command: enqueue moves head on, so create_cqe's
   pointer is no longer the one the callers use. *)
Mine(t) == IF pc[t] \in {"fill", "give", "enqueue"} THEN cqe[t] ELSE slot[t]

(* The command is written to its entry, and not answered yet ... *)
Written(t) ==
  \/ pc[t] \in {"give", "enqueue", "ring"}
  \/ pc[t] = "poll" /\ entry[slot[t]].owner = "hw"

(* ... or it is answered, and the answer not read yet. *)
Answered(t) ==
  \/ pc[t] \in {"check", "read"}
  \/ pc[t] = "poll" /\ entry[slot[t]].owner = "sw"

(* Callers take turns, and the one whose turn it is issued the last command. *)
Turns ==
  /\ \A t, u \in Thread : pc[t] # "idle" /\ pc[u] # "idle" => t = u
  /\ \A t \in Thread : pc[t] # "idle" => call[t].cmd = issued /\ issued # NoCmd
  /\ \A t \in Thread :
       pc[t] \in {"fill", "give", "enqueue"} => cqe[t] = head

(* The ownership bit is set for the entry of the command in progress only,
   from create_cqe's last write to the HCA's. *)
Ownership ==
  /\ \A s \in Slot : entry[s].owner = "hw" =>
       \E t \in Thread : pc[t] \in {"enqueue", "ring", "poll"} /\ Mine(t) = s
  /\ \A t \in Thread :
       pc[t] \in {"enqueue", "ring"} => entry[Mine(t)].owner = "hw"

(* The entry and the input mailbox hold the command until it is answered, and
   the HCA has not carried it out. *)
InputKept ==
  \A t \in Thread : Written(t) =>
    /\ entry[Mine(t)].cmd = call[t].cmd
    /\ entry[Mine(t)].in_mail = call[t].in_mail
    /\ entry[Mine(t)].out_mail = call[t].out_mail
    /\ call[t].in_mail => imb = call[t].cmd

(* A doorbell, and the HCA's copy of an entry, are about the command that is
   being polled for. *)
Doorbells ==
  \A s \in Slot : s \in rung \/ fetched[s].on =>
    \E t \in Thread : pc[t] = "poll" /\ slot[t] = s /\ entry[s].owner = "hw"

Copies ==
  \A s \in Slot : fetched[s].on =>
    /\ s \notin rung
    /\ \A t \in Thread : pc[t] = "poll" =>
         /\ fetched[s].cmd = call[t].cmd
         /\ fetched[s].input = call[t].cmd
         /\ fetched[s].out_mail = call[t].out_mail

(* An answer that reports success is the command's own. *)
OutputKept ==
  \A t \in Thread : Answered(t) =>
    /\ entry[slot[t]].output = call[t].cmd
    /\ pc[t] = "read" => Succeeded(entry[slot[t]])
    /\ Succeeded(entry[slot[t]]) =>
         /\ [cmd |-> call[t].cmd, input |-> call[t].cmd] \in executed
         /\ call[t].out_mail => omb = call[t].cmd

(* The HCA has carried out commands that were issued, each with its input, and
   the one in progress only when it is answered. *)
Executions ==
  /\ \A e \in executed : e.input = e.cmd /\ e.cmd \in 1..issued
  /\ \A t \in Thread : pc[t] = "fill" \/ Written(t) =>
       \A e \in executed : e.cmd # call[t].cmd

Protocol ==
  /\ Turns /\ Ownership /\ InputKept /\ Doorbells /\ Copies /\ OutputKept
  /\ Executions /\ NoLostDoorbell /\ ReplyIsOwn

Inv == TypeOK /\ (Exclusive => Protocol)

-----------------------------------------------------------------------------
(* What TypeOK says of one thread and one entry, in the form the proofs use. *)
LEMMA Types ==
  ASSUME TypeOK
  PROVE  /\ head \in Slot /\ NextHead \in Slot
         /\ \A t \in Thread : /\ cqe[t] \in Slot /\ slot[t] \in Slot
                              /\ Mine(t) \in Slot /\ pc[t] \in Control
                              /\ call[t] \in Call
         /\ \A s \in Slot : entry[s] \in Entry /\ fetched[s] \in Fetch
<1>1. NextHead \in Slot
  BY InterfaceAssumption DEF TypeOK, NextHead, Slot
<1> QED
  BY <1>1 DEF TypeOK, Mine

(* What a step that writes fields of one entry leaves in the queue. *)
LEMMA FilledEntry ==
  ASSUME TypeOK, NEW t \in Thread, FillEntry(t)
  PROVE  /\ entry' \in [Slot -> Entry]
         /\ \A s \in Slot : s # cqe[t] => entry'[s] = entry[s]
         /\ \A s \in Slot : entry'[s].owner = entry[s].owner
         /\ entry'[cqe[t]].cmd = call[t].cmd
         /\ entry'[cqe[t]].in_mail = call[t].in_mail
         /\ entry'[cqe[t]].out_mail = call[t].out_mail
<1> DEFINE e == [entry[cqe[t]] EXCEPT !.cmd = call[t].cmd,
                                      !.in_mail = call[t].in_mail,
                                      !.out_mail = call[t].out_mail]
<1>1. cqe[t] \in Slot /\ entry[cqe[t]] \in Entry /\ call[t] \in Call
  BY Types
<1>2. /\ e \in Entry /\ e.owner = entry[cqe[t]].owner /\ e.cmd = call[t].cmd
      /\ e.in_mail = call[t].in_mail /\ e.out_mail = call[t].out_mail
  BY <1>1 DEF Entry, Call
<1>3. entry' = [entry EXCEPT ![cqe[t]] = e]
  BY <1>1 DEF FillEntry, TypeOK
<1> HIDE DEF e
<1> QED
  BY <1>1, <1>2, <1>3 DEF TypeOK

LEMMA GivenEntry ==
  ASSUME TypeOK, NEW t \in Thread, GiveOwnership(t)
  PROVE  /\ entry' \in [Slot -> Entry]
         /\ \A s \in Slot : s # cqe[t] => entry'[s] = entry[s]
         /\ entry'[cqe[t]].owner = "hw"
         /\ entry'[cqe[t]].cmd = entry[cqe[t]].cmd
         /\ entry'[cqe[t]].in_mail = entry[cqe[t]].in_mail
         /\ entry'[cqe[t]].out_mail = entry[cqe[t]].out_mail
<1> DEFINE e == [entry[cqe[t]] EXCEPT !.owner = "hw"]
<1>1. cqe[t] \in Slot /\ entry[cqe[t]] \in Entry
  BY Types
<1>2. /\ e \in Entry /\ e.owner = "hw" /\ e.cmd = entry[cqe[t]].cmd
      /\ e.in_mail = entry[cqe[t]].in_mail /\ e.out_mail = entry[cqe[t]].out_mail
  BY <1>1 DEF Entry
<1>3. entry' = [entry EXCEPT ![cqe[t]] = e]
  BY <1>1 DEF GiveOwnership, TypeOK
<1> HIDE DEF e
<1> QED
  BY <1>1, <1>2, <1>3 DEF TypeOK

LEMMA CompletedEntry ==
  ASSUME TypeOK, NEW s \in Slot, HcaComplete(s)
  PROVE  /\ entry' \in [Slot -> Entry]
         /\ \A x \in Slot : x # s => entry'[x] = entry[x]
         /\ entry'[s].owner = "sw" /\ entry'[s].output = fetched[s].cmd
         /\ IF Succeeded(entry'[s])
            THEN /\ executed' = executed \cup
                      {[cmd |-> fetched[s].cmd, input |-> fetched[s].input]}
                 /\ omb' = IF fetched[s].out_mail THEN fetched[s].cmd ELSE omb
            ELSE UNCHANGED <<executed, omb>>
<1>1. PICK status \in {"ok", "error"}, cod \in {"ok", "error"} :
        /\ entry' = [entry EXCEPT ![s].owner = "sw", ![s].status = status,
                                  ![s].cod = cod, ![s].output = fetched[s].cmd]
        /\ IF status = "ok" /\ cod = "ok"
           THEN /\ executed' = executed \cup
                     {[cmd |-> fetched[s].cmd, input |-> fetched[s].input]}
                /\ omb' = IF fetched[s].out_mail THEN fetched[s].cmd ELSE omb
           ELSE UNCHANGED <<executed, omb>>
  BY DEF HcaComplete
<1> DEFINE e == [entry[s] EXCEPT !.owner = "sw", !.status = status,
                                 !.cod = cod, !.output = fetched[s].cmd]
<1>2. entry[s] \in Entry /\ fetched[s] \in Fetch
  BY Types
<1>3. /\ e \in Entry /\ e.owner = "sw" /\ e.output = fetched[s].cmd
      /\ e.status = status /\ e.cod = cod
  BY <1>2 DEF Entry, Fetch
<1>4. entry' = [entry EXCEPT ![s] = e]
  BY <1>1, <1>2 DEF TypeOK
<1> HIDE DEF e
<1>5. /\ entry' \in [Slot -> Entry] /\ entry'[s] = e
      /\ \A x \in Slot : x # s => entry'[x] = entry[x]
  BY <1>3, <1>4 DEF TypeOK
<1>6. Succeeded(entry'[s]) <=> status = "ok" /\ cod = "ok"
  BY <1>3, <1>5 DEF Succeeded
<1> QED
  BY <1>1, <1>3, <1>5, <1>6

(* The queue, the mailboxes, the HCA's copies and the threads keep their
   types, whether callers take turns or not. *)
LEMMA TypeStep ==
  ASSUME TypeOK, [Next]_vars
  PROVE  TypeOK'
<1> USE DEF TypeOK
<1>1. ASSUME NEW t \in Thread, ClearEntry(t)
      PROVE  TypeOK'
  <2>1. BlankEntry \in Entry /\ issued' \in CmdOrNone
    BY <1>1, InterfaceAssumption DEF ClearEntry, BlankEntry, Entry, CmdOrNone, NoCmd
  <2>2. call' \in [Thread -> Call]
    BY <1>1, <2>1 DEF ClearEntry, Call
  <2> QED
    BY <1>1, <2>1, <2>2 DEF ClearEntry, Goto, Control, hca_vars
<1>2. ASSUME NEW t \in Thread, FillEntry(t)
      PROVE  TypeOK'
  BY <1>2, Types, FilledEntry
  DEF FillEntry, Call, Goto, Control, hca_vars, locals
<1>3. ASSUME NEW t \in Thread, GiveOwnership(t)
      PROVE  TypeOK'
  BY <1>3, GivenEntry DEF GiveOwnership, Goto, Control, hca_vars, locals
<1>4. ASSUME NEW t \in Thread, Enqueue(t)
      PROVE  TypeOK'
  BY <1>4, Types DEF Enqueue, Goto, Control, hca_vars
<1>5. ASSUME NEW t \in Thread, RingDoorbell(t)
      PROVE  TypeOK'
  BY <1>5 DEF RingDoorbell, Doorbell, Goto, Control, locals
<1>6. ASSUME NEW t \in Thread,
             PollReturns(t) \/ PollTimesOut(t) \/ CheckStatus(t)
      PROVE  TypeOK'
  BY <1>6 DEF PollReturns, PollTimesOut, CheckStatus, OnlyLooks, Goto, Control,
              hca_vars, locals
<1>7. ASSUME NEW t \in Thread, ReadOutput(t)
      PROVE  TypeOK'
  <2>1. call[t] \in Call /\ entry[slot[t]] \in Entry
    BY Types
  <2>2. reply' \in [Thread -> Reply]
    BY <1>7, <2>1 DEF ReadOutput, Reply, Call, Entry
  <2> QED
    BY <1>7, <2>2 DEF ReadOutput, OnlyLooks, Goto, Control, hca_vars, locals
<1>8. ASSUME NEW s \in Slot, HcaFetch(s)
      PROVE  TypeOK'
  <2>1. /\ entry[s].cmd \in CmdOrNone /\ entry[s].out_mail \in BOOLEAN
    BY DEF Entry
  <2>2. fetched' \in [Slot -> Fetch]
    BY <1>8, <2>1 DEF HcaFetch, Fetch
  <2> QED
    BY <1>8, <2>2 DEF HcaFetch, thread_vars, locals
<1>9. ASSUME NEW s \in Slot, HcaComplete(s)
      PROVE  TypeOK'
  <2>1. NoFetch \in Fetch
    BY InterfaceAssumption DEF NoFetch, Fetch, CmdOrNone, NoCmd
  <2>2. fetched[s].cmd \in CmdOrNone /\ fetched[s].input \in CmdOrNone
    BY DEF Fetch
  <2>3. /\ executed' \subseteq [cmd : CmdOrNone, input : CmdOrNone]
        /\ omb' \in CmdOrNone
    <3>1. CASE Succeeded(entry'[s])
      BY <1>9, <2>2, <3>1, CompletedEntry
    <3>2. CASE ~Succeeded(entry'[s])
      BY <1>9, <3>2, CompletedEntry
    <3> QED
      BY <3>1, <3>2
  <2> QED
    BY <1>9, <2>1, <2>3, CompletedEntry DEF HcaComplete, thread_vars, locals
<1>10. CASE UNCHANGED vars
  BY <1>10 DEF vars, hca_vars, thread_vars, locals
<1> QED
  BY <1>1, <1>2, <1>3, <1>4, <1>5, <1>6, <1>7, <1>8, <1>9, <1>10
  DEF Next, ThreadStep

-----------------------------------------------------------------------------
(* A command in progress is the only one, and a step of its caller leaves the
   other threads idle. *)
LEMMA Alone ==
  ASSUME TypeOK, Turns, NEW t \in Thread, pc[t] # "idle"
  PROVE  \A u \in Thread \ {t} : pc[u] = "idle"
BY DEF Turns

LEMMA Step ==
  ASSUME TypeOK, Turns, NEW t \in Thread, NEW label, pc[t] # "idle",
         Goto(t, label)
  PROVE  /\ pc'[t] = label
         /\ \A u \in Thread \ {t} : pc[u] = "idle" /\ pc'[u] = "idle"
BY Alone DEF Goto, TypeOK

(* create_cqe begins: all entries are with the software, no doorbell is left,
   and the command is a new one. *)
LEMMA ClearStep ==
  ASSUME Exclusive, TypeOK, TypeOK', Protocol, NEW t \in Thread, ClearEntry(t)
  PROVE  Protocol'
<1>1. /\ \A u \in Thread : pc[u] = "idle"
      /\ pc'[t] = "fill" /\ \A u \in Thread \ {t} : pc'[u] = "idle"
      /\ issued' = issued + 1 /\ call'[t].cmd = issued' /\ issued \in Nat
      /\ cqe'[t] = head /\ head \in Slot
      /\ \A s \in Slot : entry'[s] = IF s = head THEN BlankEntry ELSE entry[s]
      /\ UNCHANGED <<head, imb, omb, rung, fetched, executed, slot, reply>>
  BY DEF ClearEntry, Goto, TypeOK, hca_vars, CmdOrNone
<1>2. \A s \in Slot : /\ entry[s].owner # "hw" /\ entry'[s].owner # "hw"
                      /\ s \notin rung /\ ~fetched[s].on
  BY <1>1 DEF Protocol, Ownership, Doorbells, BlankEntry
<1>3. Turns'
  BY <1>1 DEF Turns, NoCmd
<1>4. Ownership' /\ NoLostDoorbell'
  BY <1>1, <1>2 DEF Ownership, NoLostDoorbell
<1>5. InputKept' /\ OutputKept'
  BY <1>1 DEF InputKept, OutputKept, Written, Answered
<1>6. Doorbells' /\ Copies'
  BY <1>1, <1>2 DEF Doorbells, Copies
<1>7. Executions'
  BY <1>1 DEF Protocol, Executions, Written
<1>8. ReplyIsOwn'
  BY <1>1 DEF Protocol, ReplyIsOwn
<1> QED
  BY <1>3, <1>4, <1>5, <1>6, <1>7, <1>8 DEF Protocol

(* create_cqe fills the input mailbox and an entry that is with the software. *)
LEMMA FillStep ==
  ASSUME Exclusive, TypeOK, TypeOK', Protocol, NEW t \in Thread, FillEntry(t)
  PROVE  Protocol'
<1>1. /\ pc[t] = "fill" /\ pc'[t] = "give"
      /\ \A u \in Thread \ {t} : pc[u] = "idle" /\ pc'[u] = "idle"
      /\ imb' = IF call[t].in_mail THEN call[t].cmd ELSE imb
      /\ UNCHANGED <<head, omb, rung, fetched, executed, issued, call, cqe, slot,
                     reply>>
  BY Step DEF FillEntry, At, UsesImb, hca_vars, locals, Protocol
<1>2. \A s \in Slot : /\ entry'[s].owner = entry[s].owner /\ entry[s].owner # "hw"
                      /\ s \notin rung /\ ~fetched[s].on
  BY <1>1, FilledEntry DEF Protocol, Ownership, Doorbells
<1>3. Turns'
  BY <1>1 DEF Protocol, Turns
<1>4. Ownership' /\ NoLostDoorbell'
  BY <1>1, <1>2 DEF Ownership, NoLostDoorbell
<1>5. InputKept' /\ OutputKept'
  BY <1>1, FilledEntry DEF InputKept, OutputKept, Written, Answered, Mine
<1>6. Doorbells' /\ Copies'
  BY <1>1, <1>2 DEF Doorbells, Copies
<1>7. Executions'
  BY <1>1 DEF Protocol, Executions, Written
<1>8. ReplyIsOwn'
  BY <1>1 DEF Protocol, ReplyIsOwn
<1> QED
  BY <1>3, <1>4, <1>5, <1>6, <1>7, <1>8 DEF Protocol

(* create_cqe hands its entry over: the only one that is with the hardware. *)
LEMMA GiveStep ==
  ASSUME Exclusive, TypeOK, TypeOK', Protocol, NEW t \in Thread, GiveOwnership(t)
  PROVE  Protocol'
<1>1. /\ pc[t] = "give" /\ pc'[t] = "enqueue"
      /\ \A u \in Thread \ {t} : pc[u] = "idle" /\ pc'[u] = "idle"
      /\ UNCHANGED <<head, imb, omb, rung, fetched, executed, issued, call, cqe,
                     slot, reply>>
  BY Step DEF GiveOwnership, At, hca_vars, locals, Protocol
<1>2. \A s \in Slot : /\ entry[s].owner # "hw"
                      /\ entry'[s].owner = "hw" => s = cqe[t]
                      /\ s \notin rung /\ ~fetched[s].on
  BY <1>1, GivenEntry DEF Protocol, Ownership, Doorbells
<1>3. Turns'
  BY <1>1 DEF Protocol, Turns
<1>4. Ownership' /\ NoLostDoorbell'
  BY <1>1, <1>2, GivenEntry DEF Ownership, NoLostDoorbell, Mine
<1>5. InputKept' /\ OutputKept'
  BY <1>1, GivenEntry
  DEF Protocol, InputKept, OutputKept, Written, Answered, Mine
<1>6. Doorbells' /\ Copies'
  BY <1>1, <1>2 DEF Doorbells, Copies
<1>7. Executions'
  BY <1>1 DEF Protocol, Executions, Written
<1>8. ReplyIsOwn'
  BY <1>1 DEF Protocol, ReplyIsOwn
<1> QED
  BY <1>3, <1>4, <1>5, <1>6, <1>7, <1>8 DEF Protocol

(* enqueue: head moves on, and the slot returned is the entry create_cqe
   wrote. *)
LEMMA EnqueueStep ==
  ASSUME Exclusive, TypeOK, TypeOK', Protocol, NEW t \in Thread, Enqueue(t)
  PROVE  Protocol'
<1>1. /\ pc[t] = "enqueue" /\ pc'[t] = "ring"
      /\ \A u \in Thread \ {t} : pc[u] = "idle" /\ pc'[u] = "idle"
      /\ UNCHANGED <<entry, imb, omb, rung, fetched, executed, issued, call, cqe,
                     reply>>
  BY Step DEF Enqueue, At, hca_vars, Protocol
<1>2. Mine(t) = cqe[t] /\ Mine(t)' = cqe[t]
  <2>1. cqe[t] = head
    BY <1>1 DEF Protocol, Turns
  <2>2. slot'[t] = head
    BY DEF Enqueue, TypeOK
  <2> QED
    BY <1>1, <2>1, <2>2 DEF Mine
<1>3. Turns'
  BY <1>1 DEF Protocol, Turns
<1>4. Ownership' /\ NoLostDoorbell'
  BY <1>1, <1>2 DEF Protocol, Ownership, NoLostDoorbell
<1>5. InputKept' /\ OutputKept'
  BY <1>1, <1>2 DEF Protocol, InputKept, OutputKept, Written, Answered
<1>6. Doorbells' /\ Copies'
  BY <1>1 DEF Protocol, Doorbells, Copies
<1>7. Executions'
  BY <1>1 DEF Protocol, Executions, Written
<1>8. ReplyIsOwn'
  BY <1>1 DEF Protocol, ReplyIsOwn
<1> QED
  BY <1>3, <1>4, <1>5, <1>6, <1>7, <1>8 DEF Protocol

(* ring_doorbell: the doorbell is for the entry that was handed over. *)
LEMMA RingStep ==
  ASSUME Exclusive, TypeOK, TypeOK', Protocol, NEW t \in Thread, RingDoorbell(t)
  PROVE  Protocol'
<1>1. /\ pc[t] = "ring" /\ pc'[t] = "poll"
      /\ \A u \in Thread \ {t} : pc[u] = "idle" /\ pc'[u] = "idle"
      /\ rung' = rung \cup {slot[t]} /\ slot[t] \in Slot
      /\ UNCHANGED <<head, entry, imb, omb, fetched, executed, issued, call, cqe,
                     slot, reply>>
  BY Step, Types DEF RingDoorbell, Doorbell, At, locals, Protocol
<1>2. /\ entry[slot[t]].owner = "hw"
      /\ \A s \in Slot : s \notin rung /\ ~fetched[s].on
  BY <1>1 DEF Protocol, Ownership, Doorbells, Mine
<1>3. Turns'
  BY <1>1 DEF Protocol, Turns
<1>4. Ownership' /\ NoLostDoorbell'
  BY <1>1 DEF Protocol, Ownership, NoLostDoorbell, Mine
<1>5. InputKept' /\ OutputKept'
  BY <1>1, <1>2 DEF Protocol, InputKept, OutputKept, Written, Answered, Mine
<1>6. Doorbells' /\ Copies'
  BY <1>1, <1>2 DEF Doorbells, Copies
<1>7. Executions'
  BY <1>1 DEF Protocol, Executions, Written
<1>8. ReplyIsOwn'
  BY <1>1 DEF Protocol, ReplyIsOwn
<1> QED
  BY <1>3, <1>4, <1>5, <1>6, <1>7, <1>8 DEF Protocol

(* poll_ownership returns, and check_cqe_status and check_cod_status pass: the
   entry stays with the software, as the HCA left it. *)
LEMMA PollStep ==
  ASSUME Exclusive, TypeOK, TypeOK', Protocol, NEW t \in Thread,
         \/ PollReturns(t)
         \/ CheckStatus(t) /\ Succeeded(entry[slot[t]])
  PROVE  Protocol'
<1>1. /\ \/ pc[t] = "poll" /\ entry[slot[t]].owner = "sw" /\ pc'[t] = "check"
         \/ pc[t] = "check" /\ Succeeded(entry[slot[t]]) /\ pc'[t] = "read"
      /\ \A u \in Thread \ {t} : pc[u] = "idle" /\ pc'[u] = "idle"
      /\ UNCHANGED <<head, entry, imb, omb, rung, fetched, executed, issued, call,
                     cqe, slot, reply>>
  BY Step DEF PollReturns, CheckStatus, SoftwareOwns, At, OnlyLooks, hca_vars,
              locals, Protocol
<1>2. \A s \in Slot : /\ entry[s].owner # "hw" /\ s \notin rung /\ ~fetched[s].on
  BY <1>1 DEF Protocol, Ownership, Doorbells, Mine
<1>3. Turns'
  BY <1>1 DEF Protocol, Turns
<1>4. Ownership' /\ NoLostDoorbell'
  BY <1>1, <1>2 DEF Ownership, NoLostDoorbell
<1>5. InputKept' /\ OutputKept'
  BY <1>1 DEF Protocol, InputKept, OutputKept, Written, Answered
<1>6. Doorbells' /\ Copies'
  BY <1>1, <1>2 DEF Doorbells, Copies
<1>7. Executions'
  BY <1>1 DEF Protocol, Executions, Written
<1>8. ReplyIsOwn'
  BY <1>1 DEF Protocol, ReplyIsOwn
<1> QED
  BY <1>3, <1>4, <1>5, <1>6, <1>7, <1>8 DEF Protocol

(* The program stops in poll_ownership or on a failed command: nothing else
   changes. *)
LEMMA StopStep ==
  ASSUME Protocol, UNCHANGED <<head, entry, imb, omb, hca_vars, issued, locals,
                               pc, reply>>
  PROVE  Protocol'
BY DEF Protocol, Turns, Ownership, InputKept, Doorbells, Copies, OutputKept,
       Executions, NoLostDoorbell, ReplyIsOwn, Mine, Written, Answered, hca_vars,
       locals

(* get_cmd_output: what the caller reads is what its own command left. *)
LEMMA ReadStep ==
  ASSUME Exclusive, TypeOK, TypeOK', Protocol, NEW t \in Thread, ReadOutput(t)
  PROVE  /\ Protocol'
         /\ [cmd |-> call[t].cmd, input |-> call[t].cmd] \in executed
<1>1. /\ pc[t] = "read"
      /\ \A u \in Thread : pc'[u] = "idle" /\ (u # t => pc[u] = "idle")
      /\ UNCHANGED <<head, entry, imb, omb, rung, fetched, executed, issued, call,
                     cqe, slot>>
  BY Step DEF ReadOutput, At, OnlyLooks, hca_vars, locals, Protocol
<1>2. \A s \in Slot : /\ entry[s].owner # "hw" /\ s \notin rung /\ ~fetched[s].on
  BY <1>1 DEF Protocol, Ownership, Doorbells, Mine
<1>3. /\ entry[slot[t]].output = call[t].cmd
      /\ [cmd |-> call[t].cmd, input |-> call[t].cmd] \in executed
      /\ call[t].out_mail => omb = call[t].cmd
  BY <1>1 DEF Protocol, OutputKept, Answered
<1>4. Turns' /\ Ownership' /\ NoLostDoorbell'
  BY <1>1, <1>2 DEF Turns, Ownership, NoLostDoorbell
<1>5. InputKept' /\ OutputKept'
  BY <1>1 DEF InputKept, OutputKept, Written, Answered
<1>6. Doorbells' /\ Copies'
  BY <1>1, <1>2 DEF Doorbells, Copies
<1>7. Executions'
  BY <1>1 DEF Protocol, Executions, Written
<1>8. ReplyIsOwn'
  <2>1. /\ \A u \in Thread \ {t} : reply'[u] = reply[u]
        /\ reply'[t].cmd = call[t].cmd
        /\ reply'[t].output = entry[slot[t]].output
        /\ reply'[t].mail = IF call[t].out_mail THEN omb ELSE call[t].cmd
    BY DEF ReadOutput, TypeOK
  <2> QED
    BY <1>3, <2>1 DEF Protocol, ReplyIsOwn
<1> QED
  BY <1>3, <1>4, <1>5, <1>6, <1>7, <1>8 DEF Protocol

(* The HCA takes a doorbell: what it reads is the command in progress, with the
   input its caller wrote. *)
LEMMA FetchStep ==
  ASSUME Exclusive, TypeOK, TypeOK', Protocol, NEW s \in Slot, HcaFetch(s)
  PROVE  Protocol'
<1>1. PICK t \in Thread : pc[t] = "poll" /\ slot[t] = s /\ entry[s].owner = "hw"
  BY DEF HcaFetch, Protocol, Doorbells
<1>2. /\ \A u \in Thread : pc[u] # "idle" => u = t
      /\ rung' = rung \ {s} /\ s \in rung
      /\ \A x \in Slot : fetched'[x] = IF x = s
           THEN [on |-> TRUE, cmd |-> entry[s].cmd,
                 input |-> IF entry[s].in_mail THEN imb ELSE entry[s].cmd,
                 out_mail |-> entry[s].out_mail]
           ELSE fetched[x]
      /\ UNCHANGED <<head, entry, imb, omb, executed, issued, pc, call, cqe, slot,
                     reply>>
  BY <1>1 DEF HcaFetch, thread_vars, locals, TypeOK, Protocol, Turns
<1>3. \A x \in Slot \ {s} : x \notin rung /\ ~fetched[x].on
  BY <1>1, <1>2 DEF Protocol, Doorbells
<1>4. /\ fetched'[s].on /\ fetched'[s].cmd = call[t].cmd
      /\ fetched'[s].input = call[t].cmd
      /\ fetched'[s].out_mail = call[t].out_mail
  BY <1>1, <1>2 DEF Protocol, InputKept, Written, Mine
<1>5. Turns' /\ Ownership' /\ InputKept' /\ OutputKept' /\ Executions' /\ ReplyIsOwn'
  BY <1>2 DEF Protocol, Turns, Ownership, InputKept, OutputKept, Executions,
              ReplyIsOwn, Written, Answered, Mine
<1>6. Doorbells' /\ Copies'
  BY <1>1, <1>2, <1>3, <1>4 DEF Doorbells, Copies
<1>7. NoLostDoorbell'
  BY <1>1, <1>2, <1>4 DEF NoLostDoorbell
<1> QED
  BY <1>5, <1>6, <1>7 DEF Protocol

(* The HCA gives the entry back: with the command's own output, and, if it
   succeeded, with the command carried out for the first time. *)
LEMMA CompleteStep ==
  ASSUME Exclusive, TypeOK, TypeOK', Protocol, NEW s \in Slot, HcaComplete(s)
  PROVE  /\ Protocol'
         /\ entry[s].owner = "hw" /\ fetched[s].on /\ ~fetched'[s].on
         /\ \A x \in Slot \ {s} : entry'[x] = entry[x]
         /\ UNCHANGED <<issued, pc, call, stopped>>
         /\ executed' # executed =>
              \E t \in Thread :
                /\ pc[t] # "idle" /\ call[t].cmd \in Command
                /\ executed' = executed \cup
                     {[cmd |-> call[t].cmd, input |-> call[t].cmd]}
                /\ \A e \in executed : e.cmd # call[t].cmd
<1>1. PICK t \in Thread : pc[t] = "poll" /\ slot[t] = s /\ entry[s].owner = "hw"
  BY DEF HcaComplete, Protocol, Doorbells
<1>2. /\ fetched[s].on /\ \A u \in Thread : pc[u] # "idle" => u = t
      /\ \A x \in Slot : fetched'[x] = IF x = s THEN NoFetch ELSE fetched[x]
      /\ UNCHANGED <<head, imb, rung, issued, pc, call, cqe, slot, reply, stopped>>
  BY <1>1 DEF HcaComplete, thread_vars, locals, TypeOK, Protocol, Turns
<1>3. /\ s \notin rung /\ fetched[s].cmd = call[t].cmd
      /\ fetched[s].input = call[t].cmd /\ fetched[s].out_mail = call[t].out_mail
  BY <1>1, <1>2 DEF Protocol, Copies
<1>4. \A x \in Slot \ {s} : x \notin rung /\ ~fetched[x].on
  BY <1>1, <1>2 DEF Protocol, Doorbells
<1>5. /\ \A x \in Slot : x # s => entry'[x] = entry[x]
      /\ entry'[s].owner = "sw" /\ entry'[s].output = call[t].cmd
      /\ Succeeded(entry'[s]) =>
           /\ executed' = executed \cup
                {[cmd |-> call[t].cmd, input |-> call[t].cmd]}
           /\ omb' = IF call[t].out_mail THEN call[t].cmd ELSE omb
      /\ ~Succeeded(entry'[s]) => executed' = executed /\ omb' = omb
  BY <1>3, CompletedEntry
<1>6. /\ call[t].cmd = issued /\ issued \in Command
      /\ \A e \in executed : e.cmd # call[t].cmd
  BY <1>1, InterfaceAssumption
  DEF Protocol, Turns, Executions, Written, TypeOK, CmdOrNone, Command, NoCmd
<1>7. Turns' /\ ReplyIsOwn'
  BY <1>2 DEF Protocol, Turns, ReplyIsOwn
<1>8. Ownership' /\ NoLostDoorbell'
  BY <1>1, <1>2, <1>5 DEF Protocol, Ownership, NoLostDoorbell, Mine
<1>9. InputKept'
  BY <1>1, <1>2, <1>5 DEF InputKept, Written
<1>10. OutputKept'
  BY <1>1, <1>2, <1>5 DEF OutputKept, Answered
<1>11. Doorbells' /\ Copies'
  BY <1>2, <1>3, <1>4 DEF Doorbells, Copies, NoFetch
<1>12. Executions'
  BY <1>1, <1>2, <1>5, <1>6 DEF Protocol, Executions, Written, Command
<1>13. ~fetched'[s].on
  BY <1>2 DEF NoFetch
<1> QED
  BY <1>1, <1>2, <1>5, <1>6, <1>7, <1>8, <1>9, <1>10, <1>11, <1>12, <1>13
  DEF Protocol

-----------------------------------------------------------------------------
LEMMA InitInv ==
  ASSUME Init
  PROVE  Inv
<1>1. TypeOK
  <2>1. /\ 0 \in Slot /\ 0 \in CmdOrNone /\ NoCmd \in CmdOrNone
    BY InterfaceAssumption DEF Slot, CmdOrNone, NoCmd
  <2>2. /\ BlankEntry \in Entry /\ NoFetch \in Fetch /\ NoReply \in Reply
        /\ NoCall \in Call
    BY <2>1 DEF BlankEntry, Entry, NoFetch, Fetch, NoReply, Reply, NoCall, Call
  <2> QED
    BY <2>1, <2>2 DEF Init, TypeOK, Control
<1>2. Protocol
  <2>1. /\ \A t \in Thread : pc[t] = "idle" /\ reply[t] = NoReply
        /\ \A s \in Slot : entry[s].owner = "sw" /\ ~fetched[s].on
        /\ rung = {} /\ executed = {}
    BY DEF Init, BlankEntry, NoFetch
  <2> QED
    BY <2>1 DEF Protocol, Turns, Ownership, InputKept, Doorbells, Copies,
                OutputKept, Executions, NoLostDoorbell, ReplyIsOwn, Written,
                Answered, NoReply
<1> QED
  BY <1>1, <1>2 DEF Inv

LEMMA ProtocolStep ==
  ASSUME Exclusive, TypeOK, TypeOK', Protocol, [Next]_vars
  PROVE  Protocol'
<1>1. CASE UNCHANGED vars
  BY <1>1, StopStep DEF vars, thread_vars
<1>2. ASSUME NEW t \in Thread, PollTimesOut(t) \/ CheckStatus(t)
      PROVE  Protocol'
  <2>1. CASE PollTimesOut(t) \/ ~Succeeded(entry[slot[t]])
    BY <1>2, <2>1, StopStep DEF PollTimesOut, CheckStatus, OnlyLooks
  <2>2. CASE CheckStatus(t) /\ Succeeded(entry[slot[t]])
    BY <2>2, PollStep
  <2> QED
    BY <1>2, <2>1, <2>2
<1> QED
  BY <1>1, <1>2, ClearStep, FillStep, GiveStep, EnqueueStep, RingStep, PollStep,
     ReadStep, FetchStep, CompleteStep
  DEF Next, ThreadStep

LEMMA StepInv ==
  ASSUME Inv, [Next]_vars
  PROVE  Inv'
BY TypeStep, ProtocolStep DEF Inv

(* Every state that callers and the HCA can reach satisfies the inductive
   invariant. *)
THEOREM Invariance == Spec => []Inv
<1>1. Init => Inv
  BY InitInv
<1>2. Inv /\ [Next]_vars => Inv'
  BY StepInv
<1> QED
  BY <1>1, <1>2, PTL DEF Spec

(* The queue, the mailboxes, the HCA's copies of entries and the threads' calls
   keep their types, even when callers overlap. *)
THEOREM TypeCorrect == Spec => []TypeOK
<1>1. Inv => TypeOK
  BY DEF Inv
<1> QED
  BY <1>1, Invariance, PTL

(* get_cmd_output gives each caller its own command's output, from the entry
   and from the output mailbox, as long as callers take turns. *)
THEOREM RepliesCorrect ==
  ASSUME Exclusive
  PROVE  Spec => []ReplyIsOwn
<1>1. Inv => ReplyIsOwn
  BY DEF Inv, Protocol
<1> QED
  BY <1>1, Invariance, PTL

(* The HCA carries every command out with the input create_cqe wrote for it. *)
THEOREM InputsCorrect ==
  ASSUME Exclusive
  PROVE  Spec => []InputIsOwn
<1>1. Inv => InputIsOwn
  BY DEF Inv, Protocol, Executions, InputIsOwn
<1> QED
  BY <1>1, Invariance, PTL

(* poll_ownership never waits for an entry nobody is going to look at. *)
THEOREM DoorbellsKept ==
  ASSUME Exclusive
  PROVE  Spec => []NoLostDoorbell
<1>1. Inv => NoLostDoorbell
  BY DEF Inv, Protocol
<1> QED
  BY <1>1, Invariance, PTL

(* Nobody but the HCA changes an entry whose ownership bit says hardware. *)
LEMMA OwnerStep ==
  ASSUME Exclusive, TypeOK, TypeOK', Protocol, [Next]_vars, NEW s \in Slot,
         entry[s].owner = "hw", entry'[s] # entry[s]
  PROVE  fetched[s].on /\ ~fetched'[s].on
<1>1. ASSUME NEW t \in Thread, ClearEntry(t)
      PROVE  FALSE
  BY <1>1 DEF ClearEntry, Protocol, Ownership
<1>2. ASSUME NEW t \in Thread, FillEntry(t) \/ GiveOwnership(t)
      PROVE  FALSE
  <2>1. pc[t] \in {"fill", "give"} /\ \A u \in Thread \ {t} : pc[u] = "idle"
    BY <1>2, Alone DEF FillEntry, GiveOwnership, At, Protocol
  <2> QED
    BY <2>1 DEF Protocol, Ownership
<1>3. ASSUME NEW x \in Slot, HcaComplete(x)
      PROVE  fetched[s].on /\ ~fetched'[s].on
  BY <1>3, CompleteStep
<1>4. entry' # entry
  OBVIOUS
<1>5. \/ \E t \in Thread : ClearEntry(t) \/ FillEntry(t) \/ GiveOwnership(t)
      \/ \E x \in Slot : HcaComplete(x)
  BY <1>4 DEF Next, ThreadStep, Enqueue, RingDoorbell, PollReturns, PollTimesOut,
              CheckStatus, ReadOutput, OnlyLooks, HcaFetch, vars
<1> QED
  BY <1>1, <1>2, <1>3, <1>5

(* The ownership bit protects an entry: as long as callers take turns,
   create_cqe never clears, fills or hands over an entry the HCA still owns. *)
THEOREM OwnershipHonoured ==
  ASSUME Exclusive
  PROVE  Spec => HardwareOwnsEntry
<1>1. Inv /\ Inv' /\ [Next]_vars =>
        [\A s \in Slot : entry[s].owner = "hw" /\ entry'[s] # entry[s] =>
           fetched[s].on /\ ~fetched'[s].on]_vars
  BY OwnerStep DEF Inv
<1> QED
  BY <1>1, Invariance, PTL DEF Spec, HardwareOwnsEntry

-----------------------------------------------------------------------------
(* What the callers of the service see of a step. *)
Carried == {e.cmd : e \in {x \in executed : x.input = x.cmd}}
Returned == {c \in 1..issued : \A t \in Thread : Calling[t] # c}

LEMMA SameCalling ==
  ASSUME UNCHANGED <<pc, call>>
  PROVE  Calling' = Calling
BY DEF Calling

LEMMA CallingChange ==
  ASSUME NEW t \in Thread, NEW c,
         \A u \in Thread : Calling'[u] = IF u = t THEN c ELSE Calling[u]
  PROVE  Calling' = [Calling EXCEPT ![t] = c]
BY DEF Calling

(* create_cqe begins: a thread calls the service with a new command. *)
LEMMA CallRefines ==
  ASSUME Exclusive, TypeOK, TypeOK', Protocol, NEW t \in Thread, ClearEntry(t)
  PROVE  Service!Next
<1> DEFINE c == issued + 1
<1>1. /\ \A u \in Thread : /\ Calling[u] = NoCmd
                           /\ Calling'[u] = IF u = t THEN c ELSE NoCmd
      /\ c \in Command /\ c # NoCmd /\ issued' = c /\ issued \in Nat /\ ~stopped
      /\ UNCHANGED <<executed, stopped>>
  <2>1. /\ \A u \in Thread : pc[u] = "idle" /\ pc'[u] = IF u = t THEN "fill" ELSE "idle"
        /\ call'[t].cmd = c /\ issued' = c /\ issued \in Nat /\ issued < MaxCmds
        /\ ~stopped
        /\ UNCHANGED <<executed, stopped>>
    BY DEF ClearEntry, Goto, At, TypeOK, hca_vars, CmdOrNone
  <2>2. c \in Command /\ c # NoCmd
    BY <2>1, InterfaceAssumption DEF Command, NoCmd
  <2> QED
    BY <2>1, <2>2 DEF Calling
<1>2. c \notin Carried
  BY <1>1 DEF Carried, Protocol, Executions
<1>3. Returned' = Returned
  <2>1. \A x : x \in Returned' <=> x \in 1..c /\ x # c
    BY <1>1 DEF Returned, NoCmd
  <2>2. \A x : x \in Returned <=> x \in 1..issued
    BY <1>1 DEF Returned, NoCmd
  <2> QED
    BY <1>1, <2>1, <2>2 DEF Returned
<1>4. Service!Call(t, c)
  BY <1>1, <1>2, <1>3, CallingChange DEF Service!Call, Carried, Returned
<1> QED
  BY <1>1, <1>4 DEF Service!Next

(* get_cmd_output: the caller has its answer, after the HCA carried the command
   out. *)
LEMMA AnswerRefines ==
  ASSUME Exclusive, TypeOK, TypeOK', Protocol, NEW t \in Thread, ReadOutput(t)
  PROVE  Service!Next
<1> DEFINE c == call[t].cmd
<1>1. /\ \A u \in Thread : /\ Calling[u] = IF u = t THEN c ELSE NoCmd
                           /\ Calling'[u] = NoCmd
      /\ c = issued /\ issued \in 1..issued /\ ~stopped
      /\ UNCHANGED <<executed, issued, stopped>>
  <2>1. /\ pc[t] = "read" /\ \A u \in Thread \ {t} : pc[u] = "idle"
        /\ \A u \in Thread : pc'[u] = "idle"
        /\ ~stopped
        /\ UNCHANGED <<executed, issued, stopped>>
    BY Step DEF ReadOutput, At, OnlyLooks, hca_vars, Protocol
  <2>2. c = issued /\ issued # NoCmd /\ issued \in Nat
    BY <2>1 DEF Protocol, Turns, TypeOK, CmdOrNone
  <2> QED
    BY <2>1, <2>2 DEF Calling, NoCmd
<1>2. c \in Carried
  <2>1. [cmd |-> c, input |-> c] \in executed
    BY ReadStep
  <2> QED
    BY <2>1 DEF Carried
<1>3. Returned' = Returned \cup {c}
  <2>1. \A x : x \in Returned' <=> x \in 1..issued
    BY <1>1 DEF Returned, NoCmd
  <2>2. \A x : x \in Returned <=> x \in 1..issued /\ x # c
    BY <1>1 DEF Returned, NoCmd
  <2> QED
    BY <1>1, <2>1, <2>2
<1>4. Service!Answer(t)
  BY <1>1, <1>2, <1>3, CallingChange DEF Service!Answer, Carried, Returned
<1> QED
  BY <1>4 DEF Service!Next

(* The HCA gives an entry back: the command is carried out, or has failed. *)
LEMMA CompleteRefines ==
  ASSUME Exclusive, TypeOK, TypeOK', Protocol, NEW s \in Slot, HcaComplete(s)
  PROVE  [Service!Next]_(Service!vars)
<1>1. Calling' = Calling /\ UNCHANGED <<issued, stopped>> /\ Returned' = Returned
  BY CompleteStep, SameCalling DEF Returned
<1>2. CASE executed' = executed
  BY <1>1, <1>2 DEF Service!vars, Returned
<1>3. CASE executed' # executed
  <2>1. PICK t \in Thread :
          /\ pc[t] # "idle" /\ call[t].cmd \in Command
          /\ executed' = executed \cup
               {[cmd |-> call[t].cmd, input |-> call[t].cmd]}
          /\ \A e \in executed : e.cmd # call[t].cmd
    BY <1>3, CompleteStep
  <2>2. Calling[t] = call[t].cmd
    BY <2>1 DEF Calling
  <2>3. Carried' = Carried \cup {call[t].cmd} /\ call[t].cmd \notin Carried
    <3> DEFINE r == [cmd |-> call[t].cmd, input |-> call[t].cmd]
    <3>1. r.cmd = call[t].cmd /\ r.input = call[t].cmd /\ executed' = executed \cup {r}
      BY <2>1
    <3> HIDE DEF r
    <3>2. /\ \A x : x \in Carried <=> \E e \in executed : e.input = e.cmd /\ x = e.cmd
          /\ \A x : x \in Carried' <=> \E e \in executed' : e.input = e.cmd /\ x = e.cmd
      BY DEF Carried
    <3> QED
      BY <2>1, <3>1, <3>2
  <2>4. Service!Execute(call[t].cmd)
    BY <1>1, <2>2, <2>3 DEF Service!Execute, Carried, Returned
  <2>5. call[t].cmd \in Command
    BY <2>1
  <2> QED
    BY <2>4, <2>5 DEF Service!Next, Service!Execute
<1> QED
  BY <1>2, <1>3

(* A step inside a call, of the caller or of the HCA, or the end of the
   program. *)
LEMMA InsideRefines ==
  ASSUME TypeOK, UNCHANGED <<call, executed, issued>>,
         stopped' = stopped \/ stopped' = TRUE,
         \A t \in Thread : pc'[t] = "idle" <=> pc[t] = "idle"
  PROVE  [Service!Next]_(Service!vars)
<1>1. Calling' = Calling /\ Returned' = Returned
  BY DEF Calling, Returned
<1>2. CASE stopped' = stopped
  BY <1>1, <1>2 DEF Service!vars, Returned
<1>3. CASE stopped' = TRUE
  BY <1>1, <1>3 DEF Service!Next, Service!Stop, Returned
<1> QED
  BY <1>2, <1>3

LEMMA RefinementStep ==
  ASSUME Exclusive, TypeOK, TypeOK', Protocol, [Next]_vars
  PROVE  [Service!Next]_(Service!vars)
<1>1. CASE UNCHANGED vars
  BY <1>1, InsideRefines DEF vars, hca_vars, thread_vars, locals
<1>2. ASSUME NEW t \in Thread,
             \/ FillEntry(t) \/ GiveOwnership(t) \/ Enqueue(t) \/ RingDoorbell(t)
             \/ PollReturns(t) \/ PollTimesOut(t) \/ CheckStatus(t)
      PROVE  [Service!Next]_(Service!vars)
  <2>1. /\ UNCHANGED <<call, executed, issued>>
        /\ stopped' = stopped \/ stopped' = TRUE
        /\ \/ pc' = pc
           \/ pc[t] # "idle" /\ \E l \in Control : l # "idle" /\ Goto(t, l)
    BY <1>2 DEF FillEntry, GiveOwnership, Enqueue, RingDoorbell, PollReturns,
                PollTimesOut, CheckStatus, At, OnlyLooks, hca_vars, locals, Control
  <2>2. \A u \in Thread : pc'[u] = "idle" <=> pc[u] = "idle"
    BY <2>1 DEF Goto, TypeOK
  <2> QED
    BY <2>1, <2>2, InsideRefines
<1>3. ASSUME NEW s \in Slot, HcaFetch(s)
      PROVE  [Service!Next]_(Service!vars)
  BY <1>3, InsideRefines DEF HcaFetch, thread_vars, locals
<1> QED
  BY <1>1, <1>2, <1>3, CallRefines, AnswerRefines, CompleteRefines
  DEF Next, ThreadStep

(* The ring, the mailboxes, the doorbells and the polling implement a
   synchronous service: each command carried out at most once, with its own
   input, before its caller goes on. *)
THEOREM CommandsRefineService ==
  ASSUME Exclusive
  PROVE  Spec => ImplementsCommandService
<1>1. Init => Service!Init
  <2>1. ASSUME Init
        PROVE  /\ Calling = [t \in Thread |-> NoCmd] /\ Carried = {}
               /\ Returned = {} /\ stopped = FALSE
    BY <2>1 DEF Init, Calling, Carried, Returned
  <2> QED
    BY <2>1 DEF Service!Init, Carried, Returned
<1>2. Inv /\ Inv' /\ [Next]_vars => [Service!Next]_(Service!vars)
  BY RefinementStep DEF Inv
<1> QED
  BY <1>1, <1>2, Invariance, PTL DEF Spec, ImplementsCommandService, Service!Spec

=============================================================================
