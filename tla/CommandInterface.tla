-------------------------- MODULE CommandInterface --------------------------
(***************************************************************************)
(* The command interface of the HCA as server/src/cmd.cc drives it. Every  *)
(* operation of the driver is the same four calls:                         *)
(*                                                                         *)
(*   slot = create_cqe(...)  write an entry of the command queue and give  *)
(*                           it to the hardware;                           *)
(*   ring_doorbell(...)      tell the HCA which entry to look at;          *)
(*   validate_cqe(...)       poll until the hardware gives it back, then   *)
(*                           check both statuses;                          *)
(*   get_cmd_output(...)     read the output, entry first, then mailbox.   *)
(*                                                                         *)
(* All callers share one queue, one input and one output mailbox, and the  *)
(* code takes no lock. Input and output of a command are named by the      *)
(* command they belong to; a command is a number, in the order of issue.   *)
(* The HCA is external: it takes rung entries in any order, reads an entry *)
(* and the input mailbox at one moment and writes all its results at a     *)
(* later one, ownership bit last.                                          *)
(***************************************************************************)
EXTENDS Naturals

CONSTANTS
  Thread,      \* the threads that issue commands
  Size,        \* CMD_Args::cq.size
  MaxCmds,     \* bound: commands issued in one behaviour
  Exclusive    \* TRUE: no thread starts a command during another's

ASSUME InterfaceAssumption ==
  /\ Size \in Nat \ {0}
  /\ MaxCmds \in Nat
  /\ Exclusive \in BOOLEAN

Slot == 0..(Size - 1)
Command == 1..MaxCmds
NoCmd == 0
CmdOrNone == 0..MaxCmds

(* A queue entry: who owns it, the command in it, whether its input and its
   output go through the mailboxes, and what the HCA left: the entry's own
   status, the command's status and the command's output. *)
Entry == [owner : {"sw", "hw"}, cmd : CmdOrNone, in_mail : BOOLEAN,
          out_mail : BOOLEAN, status : {"ok", "error"}, cod : {"ok", "error"},
          output : CmdOrNone]

BlankEntry == [owner |-> "sw", cmd |-> NoCmd, in_mail |-> FALSE,
               out_mail |-> FALSE, status |-> "ok", cod |-> "ok",
               output |-> NoCmd]

Control == {"idle", "fill", "give", "enqueue", "ring", "poll", "check", "read"}

(* What a thread's current call is about. *)
Call == [cmd : CmdOrNone, in_mail : BOOLEAN, out_mail : BOOLEAN]

VARIABLES
  head,       \* cq.head
  entry,      \* the entries of the command queue
  imb, omb,   \* the command whose input, whose output, a mailbox holds
  rung,       \* slots of doorbells the HCA has not answered yet
  fetched,    \* what the HCA read at a slot it works on:
              \* the command, the input it came with, where the output goes
  executed,   \* commands the HCA carried out, each with its input
  issued,     \* number of commands started
  pc, call,   \* where each thread is, in which command
  cqe, slot,  \* create_cqe's entry and its return value
  reply,      \* the last output a thread got: whose the part in the entry is,
              \* whose the part in the mailbox (its own, when it has none)
  stopped     \* an exception nobody catches ended the program

locals == <<call, cqe, slot>>
thread_vars == <<pc, locals, reply, stopped>>
hca_vars == <<rung, fetched, executed>>
vars == <<head, entry, imb, omb, hca_vars, issued, thread_vars>>

NoFetch == [on |-> FALSE, cmd |-> NoCmd, input |-> NoCmd, out_mail |-> FALSE]
NoReply == [cmd |-> NoCmd, output |-> NoCmd, mail |-> NoCmd]
NoCall == [cmd |-> NoCmd, in_mail |-> FALSE, out_mail |-> FALSE]

Init ==
  /\ head = 0
  /\ entry = [s \in Slot |-> BlankEntry]
  /\ imb = NoCmd /\ omb = NoCmd
  /\ rung = {}
  /\ fetched = [s \in Slot |-> NoFetch]
  /\ executed = {}
  /\ issued = 0
  /\ pc = [t \in Thread |-> "idle"]
  /\ call = [t \in Thread |-> NoCall]
  /\ cqe = [t \in Thread |-> 0] /\ slot = [t \in Thread |-> 0]
  /\ reply = [t \in Thread |-> NoReply]
  /\ stopped = FALSE

At(t, label) == pc[t] = label /\ ~stopped
Goto(t, label) == pc' = [pc EXCEPT ![t] = label]

-----------------------------------------------------------------------------
(* create_cqe begins: the entry at head is picked and cleared, ownership
   included. *)
ClearEntry(t) ==
  /\ At(t, "idle")
  /\ issued < MaxCmds                                    \* bound
  /\ Exclusive => \A u \in Thread : pc[u] = "idle"
  /\ issued' = issued + 1
  /\ \E in_mail, out_mail \in BOOLEAN :
       call' = [call EXCEPT ![t] = [cmd |-> issued + 1, in_mail |-> in_mail,
                                    out_mail |-> out_mail]]
  /\ cqe' = [cqe EXCEPT ![t] = head]
  /\ entry' = [entry EXCEPT ![head] = BlankEntry]
  /\ Goto(t, "fill")
  /\ UNCHANGED <<head, imb, omb, hca_vars, slot, reply, stopped>>

UsesImbElse(c) == c.in_mail /\ ~c.out_mail \* mutant: an `else` between the mailboxes
UsesImb(c) == c.in_mail

(* create_cqe fills the input mailbox and the entry. *)
FillEntry(t) ==
  LET c == call[t]
  IN  /\ At(t, "fill")
      /\ imb' = IF UsesImb(c) THEN c.cmd ELSE imb
      /\ entry' = [entry EXCEPT ![cqe[t]].cmd = c.cmd,
                                ![cqe[t]].in_mail = c.in_mail,
                                ![cqe[t]].out_mail = c.out_mail]
      /\ Goto(t, "give")
      /\ UNCHANGED <<head, omb, hca_vars, issued, locals, reply, stopped>>

(* create_cqe sets the ownership bit to hardware. *)
GiveOwnership(t) ==
  /\ At(t, "give")
  /\ entry' = [entry EXCEPT ![cqe[t]].owner = "hw"]
  /\ Goto(t, "enqueue")
  /\ UNCHANGED <<head, imb, omb, hca_vars, issued, locals, reply, stopped>>

NextHeadLate == IF head + 1 > Size THEN 0 ELSE head + 1 \* mutant of NextHead
NextHead == IF head + 1 >= Size THEN 0 ELSE head + 1

(* Q::enqueue: the slot returned is the head at this moment. *)
Enqueue(t) ==
  /\ At(t, "enqueue")
  /\ slot' = [slot EXCEPT ![t] = head]
  /\ head' = NextHead
  /\ Goto(t, "ring")
  /\ UNCHANGED <<entry, imb, omb, hca_vars, issued, call, cqe, reply, stopped>>

DoorbellAtHead(t) == head      \* mutant of Doorbell: one entry too far
Doorbell(t) == slot[t]

(* ring_doorbell. *)
RingDoorbell(t) ==
  /\ At(t, "ring")
  /\ rung' = rung \cup {Doorbell(t)}
  /\ Goto(t, "poll")
  /\ UNCHANGED <<head, entry, imb, omb, fetched, executed, issued, locals,
                 reply, stopped>>

(* What follows leaves the queue and the mailboxes as they are. *)
OnlyLooks == UNCHANGED <<head, entry, imb, omb, hca_vars, issued, locals>>

SoftwareOwnsAll(s) == TRUE     \* mutant of SoftwareOwns: it does not look
SoftwareOwns(s) == entry[s].owner = "sw"

(* poll_ownership sees the software as owner ... *)
PollReturns(t) ==
  /\ At(t, "poll")
  /\ SoftwareOwns(slot[t])
  /\ Goto(t, "check")
  /\ OnlyLooks /\ UNCHANGED <<reply, stopped>>

(* ... or CMD_TIMEOUT_MS pass without, and it throws. *)
TimesOutNever(s) == FALSE      \* mutant of TimesOut: no time limit
TimesOut(s) == entry[s].owner = "hw"

PollTimesOut(t) ==
  /\ At(t, "poll")
  /\ TimesOut(slot[t])
  /\ stopped' = TRUE
  /\ OnlyLooks /\ UNCHANGED <<pc, reply>>

SucceededEntry(e) == e.status = "ok"    \* mutant of Succeeded: one status only
Succeeded(e) == e.status = "ok" /\ e.cod = "ok"

(* check_cqe_status and check_cod_status: go on, or throw. *)
CheckStatus(t) ==
  /\ At(t, "check")
  /\ IF Succeeded(entry[slot[t]])
     THEN Goto(t, "read") /\ UNCHANGED stopped
     ELSE stopped' = TRUE /\ UNCHANGED pc
  /\ OnlyLooks /\ UNCHANGED reply

(* get_cmd_output, and the operation that issued the command returns. *)
ReadOutput(t) ==
  /\ At(t, "read")
  /\ reply' = [reply EXCEPT ![t] =
                 [cmd |-> call[t].cmd,
                  output |-> entry[slot[t]].output,
                  mail |-> IF call[t].out_mail THEN omb ELSE call[t].cmd]]
  /\ Goto(t, "idle")
  /\ OnlyLooks /\ UNCHANGED stopped

-----------------------------------------------------------------------------
(* The HCA answers a doorbell: it reads an entry it owns; others it skips. *)
HcaFetch(s) ==
  /\ s \in rung /\ ~fetched[s].on
  /\ rung' = rung \ {s}
  /\ fetched' =
       IF entry[s].owner = "hw"
       THEN [fetched EXCEPT ![s] =
               [on |-> TRUE, cmd |-> entry[s].cmd,
                input |-> IF entry[s].in_mail THEN imb ELSE entry[s].cmd,
                out_mail |-> entry[s].out_mail]]
       ELSE fetched
  /\ UNCHANGED <<head, entry, imb, omb, executed, issued, thread_vars>>

(* The HCA carries a command out, or refuses it, and gives the entry back. *)
HcaComplete(s) ==
  LET f == fetched[s]
  IN  /\ f.on
      /\ \E status, cod \in {"ok", "error"} :
           /\ f.cmd = NoCmd => cod = "error"
           /\ entry' = [entry EXCEPT ![s].owner = "sw", ![s].status = status,
                                     ![s].cod = cod, ![s].output = f.cmd]
           /\ IF status = "ok" /\ cod = "ok"
              THEN /\ executed' = executed \cup {[cmd |-> f.cmd, input |-> f.input]}
                   /\ omb' = IF f.out_mail THEN f.cmd ELSE omb
              ELSE UNCHANGED <<executed, omb>>
      /\ fetched' = [fetched EXCEPT ![s] = NoFetch]
      /\ UNCHANGED <<head, imb, rung, issued, thread_vars>>

-----------------------------------------------------------------------------
ThreadStep(t) ==
  \/ ClearEntry(t) \/ FillEntry(t) \/ GiveOwnership(t)
  \/ Enqueue(t) \/ RingDoorbell(t)
  \/ PollReturns(t) \/ PollTimesOut(t)
  \/ CheckStatus(t) \/ ReadOutput(t)

Next ==
  \/ \E t \in Thread : ThreadStep(t)
  \/ \E s \in Slot : HcaFetch(s) \/ HcaComplete(s)

Spec == Init /\ [][Next]_vars

(* A thread inside a command keeps running: the clock ends the poll loop
   even when the HCA never answers. The HCA owes nothing. *)
Fairness ==
  \A t \in Thread : WF_vars(pc[t] # "idle" /\ ThreadStep(t))

FairSpec == Spec /\ Fairness

-----------------------------------------------------------------------------
Fetch == [on : BOOLEAN, cmd : CmdOrNone, input : CmdOrNone, out_mail : BOOLEAN]
Reply == [cmd : CmdOrNone, output : CmdOrNone, mail : CmdOrNone]

TypeOK ==
  /\ head \in Slot
  /\ entry \in [Slot -> Entry]
  /\ imb \in CmdOrNone /\ omb \in CmdOrNone
  /\ rung \subseteq Slot
  /\ fetched \in [Slot -> Fetch]
  /\ executed \subseteq [cmd : CmdOrNone, input : CmdOrNone]
  /\ issued \in CmdOrNone
  /\ pc \in [Thread -> Control] /\ call \in [Thread -> Call]
  /\ cqe \in [Thread -> Slot] /\ slot \in [Thread -> Slot]
  /\ reply \in [Thread -> Reply]
  /\ stopped \in BOOLEAN

(* What get_cmd_output gave a caller, from the entry and from the mailbox, is
   the output of the caller's own command. *)
ReplyIsOwn ==
  \A t \in Thread : /\ reply[t].output = reply[t].cmd
                    /\ reply[t].mail = reply[t].cmd

(* The HCA never carries a command out with another command's input: the
   shared input mailbox is not refilled between the doorbell and the read. *)
InputIsOwn == \A e \in executed : e.input = e.cmd

(* A caller in poll_ownership is not waiting for nothing: its entry has been
   given back, or the HCA still has a doorbell for it or works on it. *)
NoLostDoorbell ==
  \A t \in Thread :
    pc[t] = "poll" /\ entry[slot[t]].owner = "hw" =>
      slot[t] \in rung \/ fetched[slot[t]].on

(* An entry whose ownership bit says hardware (cmd.cc:165) is changed by
   nobody but the HCA, which has fetched it before. *)
HardwareOwnsEntry ==
  [][\A s \in Slot :
       entry[s].owner = "hw" /\ entry'[s] # entry[s] =>
         fetched[s].on /\ ~fetched'[s].on]_vars

(* Every command ends: its caller gets its answer or the program stops. *)
CommandEnds ==
  \A t \in Thread : pc[t] # "idle" ~> pc[t] = "idle" \/ stopped

Calling == [t \in Thread |-> IF pc[t] = "idle" THEN NoCmd ELSE call[t].cmd]

Service == INSTANCE CommandService WITH
  None <- NoCmd,
  calling <- Calling,
  executed <- {e.cmd : e \in {x \in executed : x.input = x.cmd}},
  answered <- {c \in 1..issued : \A t \in Thread : Calling[t] # c}

(* The ring, the mailboxes, the doorbells and the polling add up to a
   synchronous call per command. *)
ImplementsCommandService == Service!Spec

=============================================================================
