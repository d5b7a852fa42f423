-------------------------------- MODULE Mailbox --------------------------------
(***************************************************************************)
(* How the words of a command get to the HCA and back (server/src/cmd.cc): *)
(* two words of input and two of output travel in the queue entry, the     *)
(* rest in the blocks of a mailbox, which the HCA finds by following their *)
(* next pointers. pack_mail fills the blocks word by word,                 *)
(* tie_mail_together links them, create_cqe computes how many blocks the   *)
(* output takes, unpack_mail collects it.                                  *)
(*                                                                         *)
(* The mailboxes are used again by every command, so what earlier ones     *)
(* left is still there: words, pointers and numbers. Commands come one     *)
(* after the other here (see CommandInterface for two at a time). A word   *)
(* is a pair: the command it belongs to and its place. The HCA is          *)
(* external: it looks for the errors that CQE_STATUS names (bad block      *)
(* number, bad pointer) and uses as many words as the lengths in the entry *)
(* say.                                                                    *)
(***************************************************************************)
EXTENDS Naturals

CONSTANTS
  Words,      \* words of data in a block: 128
  Blocks,     \* blocks of a mailbox: MBB_MAX_COUNT
  Lengths,    \* the lengths, in words, of input and output
  MaxMails    \* bound: commands

ASSUME MailboxAssumption ==
  /\ Words \in Nat \ {0} /\ Blocks \in Nat \ {0} /\ MaxMails \in Nat
  /\ Lengths \subseteq 0..(2 + Words * Blocks)

NULL == 0
Address(b) == 1 + b          \* of block b: mailbox->phys + MAILBOX_ALIGN_SIZE * b
BlockNo == 0..(Blocks - 1)
Place == 0..(Words - 1)
Word == (0..MaxMails) \X (0..(2 + Words * Blocks))
NoWord == <<0, 0>>

VARIABLES
  step,                \* where main is in the command
  mail,                \* the command's number
  input_length, output_length,    \* its lengths, in words
  inline,              \* the words in the entry: cid.data and cod.output
  data,                \* the words in the blocks of the two mailboxes
  next, number,        \* the next pointer and the block number of each
  i, data_counter, mailbox_counter,    \* the loops of pack_mail, unpack_mail
  received,            \* the input as the HCA got it
  output               \* the caller's output array

counters == <<i, data_counter, mailbox_counter>>
blocks == <<data, next, number>>
lengths == <<mail, input_length, output_length>>
mail_vars == <<step, lengths, inline, blocks, counters, received, output>>

Box == {"in", "out"}

MailInit ==
  /\ step = "idle"
  /\ mail = 0 /\ input_length = 0 /\ output_length = 0
  /\ inline = [m \in Box |-> <<NoWord, NoWord>>]
  /\ data = [m \in Box |-> [b \in BlockNo |-> [p \in Place |-> NoWord]]]
  /\ next = [m \in Box |-> [b \in BlockNo |-> NULL]]
  /\ number = [m \in Box |-> [b \in BlockNo |-> 0]]
  /\ i = 0 /\ data_counter = 0 /\ mailbox_counter = 0
  /\ received = <<>> /\ output = <<>>

-----------------------------------------------------------------------------
(* create_cqe clears the entry and puts the first words of the input into it.
   Only what does not fit goes into the mailbox. *)
Begin(in_len, out_len) ==
  /\ step = "idle" /\ mail < MaxMails                        \* bound
  /\ mail' = mail + 1
  /\ input_length' = in_len /\ output_length' = out_len
  /\ inline' = [inline EXCEPT !["in"] = [j \in 1..2 |->
                  IF j <= in_len THEN <<mail + 1, j>> ELSE NoWord],
                              !["out"] = <<NoWord, NoWord>>]
  /\ i' = 0 /\ data_counter' = 0 /\ mailbox_counter' = 0
  /\ step' = IF in_len > 2 THEN "pack" ELSE "tie_out"
  /\ received' = <<>> /\ output' = <<>>
  /\ UNCHANGED blocks

(* The loops go on to the next block when data_counter reaches the end of one.
   Mutant of BlockFull: one word too late. *)
BlockFullLate == data_counter > Words
BlockFull == data_counter = Words

CurrentBlock == IF BlockFull THEN mailbox_counter + 1 ELSE mailbox_counter
CurrentPlace == IF BlockFull THEN 0 ELSE data_counter

Advance ==
  /\ i' = i + 1
  /\ mailbox_counter' = CurrentBlock
  /\ data_counter' = CurrentPlace + 1

PackedFromEntry == 1     \* mutant of Packed: &payload[1]
Packed == 2              \* &payload[2]

(* One turn of pack_mail's loop. *)
PackWord ==
  /\ step = "pack" /\ i < input_length - 2
  /\ data' = [data EXCEPT !["in"][CurrentBlock][CurrentPlace] =
                             <<mail, Packed + i + 1>>]
  /\ Advance
  /\ UNCHANGED <<step, lengths, inline, next, number, received, output>>

(* tie_mail_together with the last block's number: each block points to the one
   after it, the last to nothing. *)
Tie(m, last) ==
  /\ next' = [next EXCEPT ![m] = [b \in BlockNo |->
                CASE b < last -> Address(b + 1)
                  [] b = last -> NULL
                  [] b > last -> @[b]]]
  /\ number' = [number EXCEPT ![m] = [b \in BlockNo |->
                  IF b <= last THEN b ELSE @[b]]]

TieInput ==
  /\ step = "pack" /\ i = input_length - 2
  /\ Tie("in", mailbox_counter)
  /\ step' = "tie_out"
  /\ UNCHANGED <<lengths, inline, data, counters, received, output>>

(* create_cqe's number of the last output block, from the length in words that
   does not fit into the entry. Mutant: a full last block takes one more. *)
LastOutputFull(len) == len \div Words

LastOutput(len) ==
  IF len <= Words THEN 0
  ELSE IF len % Words = 0 THEN (len \div Words) - 1 ELSE len \div Words

(* The output mailbox is linked if the output needs it; the entry is the
   HCA's. *)
TieOutput ==
  /\ step = "tie_out"
  /\ IF output_length > 2
     THEN Tie("out", LastOutput(output_length - 2))
     ELSE UNCHANGED <<next, number>>
  /\ step' = "hca"
  /\ UNCHANGED <<lengths, inline, data, counters, received, output>>

-----------------------------------------------------------------------------
(* The HCA follows the pointers from a mailbox's first block. *)
Chain(m) ==
  LET c[k \in BlockNo] ==
        IF k = 0 THEN Address(0)
        ELSE IF c[k - 1] = NULL THEN NULL ELSE next[m][c[k - 1] - 1]
  IN  c

(* The blocks for len words are there, with the right numbers, and no more. *)
WellFormed(m, len) ==
  len > 0 =>
    LET c == Chain(m)
        last == (len - 1) \div Words
    IN  /\ last \in BlockNo
        /\ \A k \in 0..last : c[k] # NULL /\ number[m][c[k] - 1] = k
        /\ next[m][c[last] - 1] = NULL

Mailed(len) == IF len > 2 THEN len - 2 ELSE 0

Acceptable ==
  WellFormed("in", Mailed(input_length)) /\ WellFormed("out", Mailed(output_length))

(* The HCA reads its input and writes its output. *)
Execute ==
  LET chain(m, j) == Chain(m)[(j - 3) \div Words] - 1     \* the block of word j
      place(j) == (j - 3) % Words
  IN  /\ step = "hca" /\ Acceptable
      /\ received' = [j \in 1..input_length |->
                        IF j <= 2 THEN inline["in"][j]
                        ELSE data["in"][chain("in", j)][place(j)]]
      /\ inline' = [inline EXCEPT !["out"] = [j \in 1..2 |->
                      IF j <= output_length THEN <<mail, j>> ELSE NoWord]]
      /\ data' = [data EXCEPT !["out"] = [b \in BlockNo |-> [p \in Place |->
                    IF \E j \in 3..output_length : chain("out", j) = b /\ place(j) = p
                    THEN <<mail, CHOOSE j \in 3..output_length :
                                   chain("out", j) = b /\ place(j) = p>>
                    ELSE @[b][p]]]]
      /\ step' = "read"
      /\ UNCHANGED <<lengths, next, number, counters, output>>

(* The HCA reports an error, or nothing in time: validate_cqe throws. *)
NotExecuted ==
  /\ step = "hca"
  /\ step' = "stopped"
  /\ UNCHANGED <<lengths, inline, blocks, counters, received, output>>

-----------------------------------------------------------------------------
(* get_cmd_output: the words in the entry, ... *)
ReadEntry ==
  /\ step = "read"
  /\ output' = [j \in 1..output_length |-> IF j <= 2 THEN inline["out"][j] ELSE NoWord]
  /\ i' = 0 /\ data_counter' = 0 /\ mailbox_counter' = 0
  /\ step' = IF output_length > 2 THEN "unpack" ELSE "idle"
  /\ UNCHANGED <<lengths, inline, blocks, received>>

UnpackedFromEntry == 1   \* mutant of Unpacked: &output[1]
Unpacked == 2            \* &output[2]

(* ... and one turn of unpack_mail's loop. *)
UnpackWord ==
  /\ step = "unpack" /\ i < output_length - 2
  /\ output' = [output EXCEPT ![Unpacked + i + 1] =
                  data["out"][CurrentBlock][CurrentPlace]]
  /\ Advance
  /\ UNCHANGED <<step, lengths, inline, blocks, received>>

Return ==
  /\ step = "unpack" /\ i = output_length - 2
  /\ step' = "idle"
  /\ UNCHANGED <<lengths, inline, blocks, counters, received, output>>

-----------------------------------------------------------------------------
MailStep ==
  \/ \E in_len, out_len \in Lengths : Begin(in_len, out_len)
  \/ PackWord \/ TieInput \/ TieOutput
  \/ NotExecuted
  \/ ReadEntry \/ UnpackWord \/ Return

MailNext == MailStep \/ Execute

MailSpec == MailInit /\ [][MailNext]_mail_vars

-----------------------------------------------------------------------------
Pointer == {NULL} \cup {Address(b) : b \in BlockNo}

MailTypeOK ==
  /\ step \in {"idle", "pack", "tie_out", "hca", "read", "unpack", "stopped"}
  /\ mail \in 0..MaxMails
  /\ input_length \in Lengths \cup {0} /\ output_length \in Lengths \cup {0}
  /\ inline \in [Box -> [1..2 -> Word]]
  /\ data \in [Box -> [BlockNo -> [Place -> Word]]]
  /\ next \in [Box -> [BlockNo -> Pointer]] /\ number \in [Box -> [BlockNo -> BlockNo]]
  /\ i \in 0..(Words * Blocks)
  /\ data_counter \in 0..Words /\ mailbox_counter \in BlockNo
  /\ received \in {<<>>} \cup [1..input_length -> Word]
  /\ output \in {<<>>} \cup [1..output_length -> Word]

(* What the HCA gets is the payload of this command, word for word, whatever
   earlier commands left in the mailbox. *)
InputDelivered ==
  step \in {"read", "unpack"} =>
    received = [j \in 1..input_length |-> <<mail, j>>]

(* What create_cqe's caller finds in its array is what the HCA wrote. *)
OutputDelivered ==
  step = "idle" => output = [j \in 1..output_length |-> <<mail, j>>]

(* When the HCA gets the entry, both chains have exactly the blocks their
   lengths need, inside the mailbox, numbered from 0 and ended by NULL: it has no
   reason to report CQE_STATUS_BAD_BNUM, BAD_IN_PTR or BAD_OUT_PTR. *)
ChainsWellFormed == step = "hca" => Acceptable

=============================================================================
