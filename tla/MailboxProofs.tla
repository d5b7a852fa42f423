----------------------------- MODULE MailboxProofs -----------------------------
(***************************************************************************)
(* Proofs about Mailbox, for blocks of any size, mailboxes of any number   *)
(* of blocks and every length that fits.                                   *)
(*                                                                         *)
(* Block b and place p hold word b * Words + p of a mailbox. The inductive *)
(* invariant says how far the loops have got in these terms, that the      *)
(* chain for a length has been tied before the HCA sees the entry, and     *)
(* that everything else of the two mailboxes may hold what it likes.       *)
(***************************************************************************)
EXTENDS Mailbox, WellFoundedInduction, TLAPS

WordNo(b, p) == b * Words + p

LEMMA WordAt ==
  ASSUME NEW b \in Nat, NEW p \in Place
  PROVE  /\ WordNo(b, p) \in Nat
         /\ WordNo(b, p) \div Words = b /\ WordNo(b, p) % Words = p
<1>1. Words \in Nat \ {0} /\ p \in Nat /\ p < Words
  BY MailboxAssumption DEF Place
<1>2. WordNo(b, p) = Words * b + p /\ WordNo(b, p) \in Nat
  BY <1>1 DEF WordNo
<1>3. (Words * b + p) \div Words = b /\ (Words * b + p) % Words = p
  BY <1>1
<1> QED
  BY <1>2, <1>3

LEMMA PlaceOf ==
  ASSUME NEW n \in Nat
  PROVE  /\ n \div Words \in Nat /\ n % Words \in Place
         /\ WordNo(n \div Words, n % Words) = n
<1>1. Words \in Nat \ {0}
  BY MailboxAssumption
<1>2. /\ n \div Words \in Nat /\ n % Words \in 0..(Words - 1)
      /\ n = Words * (n \div Words) + (n % Words)
  BY <1>1
<1> DEFINE q == n \div Words
           r == n % Words
<1>3. q \in Nat /\ r \in 0..(Words - 1) /\ n = Words * q + r
  BY <1>2
<1> HIDE DEF q, r
<1>4. r \in Place /\ WordNo(q, r) = n
  BY <1>1, <1>3 DEF Place, WordNo
<1> QED
  BY <1>3, <1>4 DEF q, r

(* A word that fits into a mailbox is in one of its blocks. *)
LEMMA BlockFits ==
  ASSUME NEW b \in Nat, NEW p \in Nat, WordNo(b, p) < Words * Blocks
  PROVE  b \in BlockNo
<1>1. Words \in Nat \ {0} /\ Blocks \in Nat \ {0}
  BY MailboxAssumption
<1>2. b * Words < Blocks * Words
  BY <1>1 DEF WordNo
<1>3. b < Blocks
  BY <1>1, <1>2
<1> QED
  BY <1>1, <1>3 DEF BlockNo

(* Later words are not in earlier blocks. *)
LEMMA BlocksInOrder ==
  ASSUME NEW n \in Nat, NEW k \in Nat, n <= k
  PROVE  n \div Words <= k \div Words
<1>1. Words \in Nat \ {0}
  BY MailboxAssumption
<1> DEFINE b == n \div Words
           c == k \div Words
<1>2. b \in Nat /\ c \in Nat /\ b * Words <= n /\ k < (c + 1) * Words
  <2> DEFINE p == n % Words
             q == k % Words
  <2>1. b \in Nat /\ p \in Place /\ WordNo(b, p) = n
    BY PlaceOf
  <2>2. c \in Nat /\ q \in Place /\ WordNo(c, q) = k
    BY PlaceOf
  <2> HIDE DEF b, c, p, q
  <2>3. p \in 0..(Words - 1) /\ q \in 0..(Words - 1)
    BY <2>1, <2>2 DEF Place
  <2>4. n = b * Words + p /\ k = c * Words + q
    BY <2>1, <2>2 DEF WordNo
  <2>5. (c + 1) * Words = c * Words + Words
    BY <1>1, <2>2
  <2> QED
    BY <1>1, <2>1, <2>2, <2>3, <2>4, <2>5
<1> HIDE DEF b, c
<1>3. b * Words < (c + 1) * Words
  BY <1>1, <1>2
<1>4. b < c + 1
  BY <1>1, <1>2, <1>3
<1>5. b <= c
  BY <1>2, <1>4
<1> QED
  BY <1>5 DEF b, c

(* The words beyond the entry fit into a mailbox. *)
LEMMA MailedFits ==
  ASSUME NEW len \in Lengths \cup {0}
  PROVE  /\ len \in Nat /\ Mailed(len) \in Nat /\ Mailed(len) <= Words * Blocks
         /\ Words * Blocks \in Nat /\ Words \in Nat \ {0} /\ Blocks \in Nat \ {0}
<1>1. Words \in Nat \ {0} /\ Blocks \in Nat \ {0}
  BY MailboxAssumption
<1> DEFINE x == Words * Blocks
<1>2. x \in Nat
  BY <1>1
<1>3. len \in 0..(2 + x)
  BY <1>2, MailboxAssumption
<1> HIDE DEF x
<1>4. len \in Nat /\ Mailed(len) \in Nat /\ Mailed(len) <= x
  BY <1>2, <1>3 DEF Mailed
<1> QED
  BY <1>1, <1>2, <1>4 DEF x

(* How far pack_mail and unpack_mail have got: in this block, at this place. *)
Looping ==
  step \in {"pack", "unpack"} =>
    /\ i = WordNo(mailbox_counter, data_counter)
    /\ data_counter = 0 => i = 0
    /\ LET len == IF step = "pack" THEN input_length ELSE output_length
       IN  len > 2 /\ i <= len - 2

(* The entry and the mailbox hold this command's input, as far as it is packed. *)
InputPacked ==
  step \in {"pack", "tie_out", "hca"} =>
    /\ inline["in"] = [j \in 1..2 |-> IF j <= input_length THEN <<mail, j>> ELSE NoWord]
    /\ \A b \in BlockNo, p \in Place :
         WordNo(b, p) < (IF step = "pack" THEN i ELSE Mailed(input_length)) =>
           data["in"][b][p] = <<mail, WordNo(b, p) + 3>>

(* The blocks for len words are linked and numbered. *)
Tied(m, len) ==
  len > 0 =>
    \A b \in BlockNo :
      /\ b < (len - 1) \div Words => next[m][b] = Address(b + 1)
      /\ b = (len - 1) \div Words => next[m][b] = NULL
      /\ b <= (len - 1) \div Words => number[m][b] = b

Linked ==
  /\ step \in {"tie_out", "hca"} => Tied("in", Mailed(input_length))
  /\ step = "hca" => Tied("out", Mailed(output_length))

(* The HCA has put its output into the entry and the mailbox. *)
OutputWritten ==
  /\ step = "read" =>
       \A j \in 1..2 : j <= output_length => inline["out"][j] = <<mail, j>>
  /\ step \in {"read", "unpack"} =>
       \A b \in BlockNo, p \in Place :
         WordNo(b, p) < Mailed(output_length) =>
           data["out"][b][p] = <<mail, WordNo(b, p) + 3>>

(* The caller's array holds it as far as unpack_mail has got. *)
OutputUnpacked ==
  step = "unpack" =>
    /\ output \in [1..output_length -> Word]
    /\ \A j \in 1..output_length : j <= i + 2 => output[j] = <<mail, j>>

MailInv ==
  /\ MailTypeOK /\ Looping /\ InputPacked /\ Linked
  /\ OutputWritten /\ OutputUnpacked
  /\ InputDelivered /\ OutputDelivered

-----------------------------------------------------------------------------
(* The HCA's walk along the pointers. *)
LEMMA LeastOf ==
  ASSUME NEW T, T \subseteq Nat, T # {}
  PROVE  \E n \in T : \A k \in T : n <= k
<1>1. PICK n \in T : \A k \in T : ~ (<<k, n>> \in OpToRel(<, Nat))
  BY WFMin, NatLessThanWellFounded
<1>2. \A k \in T : ~ (k < n)
  BY <1>1 DEF OpToRel
<1> QED
  BY <1>2

(* Chain is what its definition says of it: there is such a function, if the
   pointers are those of a mailbox that was tied. *)
Follows(c, m) ==
  c = [k \in BlockNo |->
         IF k = 0 THEN Address(0)
         ELSE IF c[k - 1] = NULL THEN NULL ELSE next[m][c[k - 1] - 1]]

LEMMA ChainExists ==
  ASSUME NEW m, NEW last \in BlockNo,
         \A b \in BlockNo : /\ b < last => next[m][b] = Address(b + 1)
                            /\ b = last => next[m][b] = NULL
  PROVE  Follows(Chain(m), m)
<1> DEFINE f == [k \in BlockNo |-> IF k <= last THEN Address(k) ELSE NULL]
<1>1. Blocks \in Nat \ {0}
  BY MailboxAssumption
<1>2. ASSUME NEW k \in BlockNo
      PROVE  f[k] = IF k = 0 THEN Address(0)
                    ELSE IF f[k - 1] = NULL THEN NULL ELSE next[m][f[k - 1] - 1]
  <2>1. CASE k = 0
    BY <1>1, <2>1 DEF BlockNo
  <2>2. CASE k # 0
    <3>1. k - 1 \in BlockNo /\ k \in Nat /\ last \in Nat
      BY <1>1, <2>2 DEF BlockNo
    <3>2. CASE k - 1 <= last
      <4>1. Address(k - 1) # NULL /\ Address(k - 1) - 1 = k - 1
        BY <3>1 DEF Address, NULL, BlockNo
      <4>2. f[k - 1] = Address(k - 1)
        BY <3>1, <3>2
      <4>3. next[m][k - 1] = IF k <= last THEN Address(k) ELSE NULL
        BY <3>1, <3>2
      <4>4. f[k] = IF k <= last THEN Address(k) ELSE NULL
        OBVIOUS
      <4> HIDE DEF f
      <4> QED
        BY <2>2, <4>1, <4>2, <4>3, <4>4
    <3>3. CASE ~(k - 1 <= last)
      BY <2>2, <3>1, <3>3
    <3> QED
      BY <3>2, <3>3
  <2> QED
    BY <2>1, <2>2
<1>3. Follows(f, m)
  BY <1>2 DEF Follows
<1> HIDE DEF f
<1>4. \E c : Follows(c, m)
  BY <1>3
<1> QED
  BY <1>4 DEF Follows, Chain

LEMMA ChainTied ==
  ASSUME NEW m, NEW len \in Nat \ {0}, Tied(m, len), len <= Words * Blocks
  PROVE  /\ (len - 1) \div Words \in BlockNo
         /\ \A k \in 0..((len - 1) \div Words) : Chain(m)[k] = Address(k)
<1> DEFINE last == (len - 1) \div Words
           T == {k \in 0..last : Chain(m)[k] # Address(k)}
<1>1. last \in BlockNo
  <2>1. len - 1 \in Nat
    OBVIOUS
  <2>2. /\ last \in Nat /\ (len - 1) % Words \in Place
        /\ WordNo(last, (len - 1) % Words) = len - 1
    BY <2>1, PlaceOf
  <2>3. len - 1 < Words * Blocks /\ (len - 1) % Words \in Nat
    <3>1. Words * Blocks \in Nat
      BY MailboxAssumption
    <3> DEFINE x == Words * Blocks
    <3> HIDE DEF x
    <3>2. len - 1 < x
      BY <3>1 DEF x
    <3> QED
      BY <2>2, <3>2 DEF Place, x
  <2> HIDE DEF last
  <2> QED
    BY <2>2, <2>3, BlockFits
<1>2. Blocks \in Nat /\ last \in Nat /\ last < Blocks
  BY <1>1, MailboxAssumption DEF BlockNo
<1>3. \A b \in BlockNo : /\ b < last => next[m][b] = Address(b + 1)
                         /\ b = last => next[m][b] = NULL
  BY DEF Tied
<1>4. Follows(Chain(m), m)
  BY <1>1, <1>3, ChainExists
<1> HIDE DEF last
<1>5. T = {}
  <2> SUFFICES ASSUME T # {}
               PROVE  FALSE
    OBVIOUS
  <2>1. T \subseteq Nat
    BY <1>2
  <2>2. PICK k \in T : \A j \in T : k <= j
    BY <2>1, LeastOf
  <2>3. k \in 0..last /\ Chain(m)[k] # Address(k) /\ k \in BlockNo
    BY <1>2, <2>2 DEF BlockNo
  <2>4. Chain(m)[k] = IF k = 0 THEN Address(0)
                      ELSE IF Chain(m)[k - 1] = NULL THEN NULL
                      ELSE next[m][Chain(m)[k - 1] - 1]
    BY <1>4, <2>3 DEF Follows
  <2>5. k # 0
    BY <2>3, <2>4
  <2>6. k - 1 \in 0..last /\ k - 1 \in BlockNo /\ k - 1 < last /\ (k - 1) + 1 = k
    BY <1>2, <2>3, <2>5 DEF BlockNo
  <2>7. Chain(m)[k - 1] = Address(k - 1)
    <3>1. k - 1 \notin T
      BY <1>2, <2>2, <2>3, <2>6
    <3> QED
      BY <2>6, <3>1
  <2>8. Address(k - 1) # NULL /\ Address(k - 1) - 1 = k - 1
    BY <1>2, <2>3, <2>6 DEF Address, NULL
  <2>9. next[m][k - 1] = Address(k)
    BY <1>3, <2>6
  <2> QED
    BY <2>3, <2>4, <2>5, <2>7, <2>8, <2>9
<1> QED
  BY <1>1, <1>5 DEF last

(* A mailbox that is tied for a length is one the HCA accepts for it. *)
LEMMA TiedWellFormed ==
  ASSUME NEW m, NEW len \in Nat, Tied(m, len), len <= Words * Blocks
  PROVE  WellFormed(m, len)
<1> SUFFICES ASSUME len > 0
             PROVE  WellFormed(m, len)
  BY DEF WellFormed
<1> DEFINE last == (len - 1) \div Words
<1>1. last \in BlockNo /\ \A k \in 0..last : Chain(m)[k] = Address(k)
  BY ChainTied
<1>2. \A b \in BlockNo : /\ b = last => next[m][b] = NULL
                         /\ b <= last => number[m][b] = b
  BY DEF Tied
<1>3. WellFormed(m, len) <=>
        /\ last \in BlockNo
        /\ \A k \in 0..last : Chain(m)[k] # NULL /\ number[m][Chain(m)[k] - 1] = k
        /\ next[m][Chain(m)[last] - 1] = NULL
  BY DEF WellFormed
<1> HIDE DEF last
<1>4. Blocks \in Nat /\ last \in Nat /\ last < Blocks
  BY <1>1, MailboxAssumption DEF BlockNo
<1>5. \A k \in 0..last : k \in BlockNo /\ k <= last
  BY <1>4 DEF BlockNo
<1>6. \A k \in 0..last : Address(k) # NULL /\ Address(k) - 1 = k
  BY <1>4 DEF Address, NULL
<1>7. last \in 0..last
  BY <1>4
<1> QED
  BY <1>1, <1>2, <1>3, <1>5, <1>6, <1>7

(* Where the HCA finds word j of a command. *)
LEMMA ChainWord ==
  ASSUME NEW m, NEW len \in Lengths \cup {0}, Tied(m, Mailed(len)), NEW j \in 3..len
  PROVE  /\ Chain(m)[(j - 3) \div Words] - 1 = (j - 3) \div Words
         /\ (j - 3) \div Words \in BlockNo /\ (j - 3) % Words \in Place
         /\ WordNo((j - 3) \div Words, (j - 3) % Words) = j - 3
<1>1. len \in Nat /\ Mailed(len) <= Words * Blocks
  BY MailedFits
<1>2. Mailed(len) = len - 2 /\ len - 2 \in Nat \ {0} /\ j - 3 \in Nat
      /\ (len - 2) - 1 \in Nat /\ j - 3 <= (len - 2) - 1
  BY <1>1 DEF Mailed
<1> DEFINE b == (j - 3) \div Words
           last == ((len - 2) - 1) \div Words
<1>3. last \in BlockNo /\ \A k \in 0..last : Chain(m)[k] = Address(k)
  BY <1>1, <1>2, ChainTied
<1>4. b \in Nat /\ (j - 3) % Words \in Place /\ WordNo(b, (j - 3) % Words) = j - 3
  BY <1>2, PlaceOf
<1>5. b <= last
  BY <1>2, BlocksInOrder
<1> HIDE DEF b, last
<1>6. Blocks \in Nat
  BY MailboxAssumption
<1>7. b \in BlockNo /\ b \in 0..last
  BY <1>3, <1>4, <1>5, <1>6 DEF BlockNo
<1>8. Chain(m)[b] - 1 = b
  BY <1>3, <1>4, <1>7 DEF Address
<1> QED
  BY <1>4, <1>7, <1>8 DEF b

-----------------------------------------------------------------------------
(* create_cqe's number of the last output block is the one the HCA goes by. *)
LEMMA LastOutputOf ==
  ASSUME NEW len \in Nat \ {0}
  PROVE  LastOutput(len) = (len - 1) \div Words
<1>1. Words \in Nat \ {0}
  BY MailboxAssumption
<1> DEFINE q == len \div Words
           r == len % Words
<1>2. q \in Nat /\ r \in 0..(Words - 1) /\ len = q * Words + r
  <2>1. q \in Nat /\ r \in Place /\ WordNo(q, r) = len
    BY PlaceOf
  <2> HIDE DEF q, r
  <2> QED
    BY <2>1 DEF Place, WordNo
<1>3. LastOutput(len) = IF len <= Words THEN 0 ELSE IF r = 0 THEN q - 1 ELSE q
  BY DEF LastOutput
<1> HIDE DEF q, r
<1>4. CASE len <= Words
  <2>1. len - 1 \in Place /\ WordNo(0, len - 1) = len - 1
    BY <1>1, <1>4 DEF Place, WordNo
  <2> QED
    BY <1>3, <1>4, <2>1, WordAt
<1>5. CASE len > Words /\ r = 0
  <2>1. q # 0
    BY <1>1, <1>2, <1>5
  <2>2. Words - 1 \in Place /\ q - 1 \in Nat
    BY <1>1, <1>2, <2>1 DEF Place
  <2>3. (q - 1) * Words + (Words - 1) = len - 1
    BY <1>1, <1>2, <1>5
  <2>4. WordNo(q - 1, Words - 1) = len - 1
    BY <2>3 DEF WordNo
  <2>5. (len - 1) \div Words = q - 1
    BY <2>2, <2>4, WordAt
  <2> QED
    BY <1>1, <1>3, <1>5, <2>5
<1>6. CASE len > Words /\ r # 0
  <2>1. r - 1 \in Place
    BY <1>1, <1>2, <1>6 DEF Place
  <2>2. WordNo(q, r - 1) = len - 1
    BY <1>1, <1>2 DEF WordNo
  <2>3. (len - 1) \div Words = q
    BY <1>2, <2>1, <2>2, WordAt
  <2> QED
    BY <1>1, <1>3, <1>6, <2>3
<1> QED
  BY <1>1, <1>4, <1>5, <1>6

(* tie_mail_together ties a mailbox, and leaves the other. *)
LEMMA TieTies ==
  ASSUME MailTypeOK, NEW m \in Box, NEW len \in Nat \ {0},
         (len - 1) \div Words \in BlockNo, Tie(m, (len - 1) \div Words)
  PROVE  /\ next' \in [Box -> [BlockNo -> Pointer]]
         /\ number' \in [Box -> [BlockNo -> BlockNo]]
         /\ Tied(m, len)'
         /\ \A k : \A n \in Box \ {m} : Tied(n, k) => Tied(n, k)'
<1> DEFINE last == (len - 1) \div Words
           links == [b \in BlockNo |-> CASE b < last -> Address(b + 1)
                                        [] b = last -> NULL
                                        [] b > last -> next[m][b]]
           numbers == [b \in BlockNo |-> IF b <= last THEN b ELSE number[m][b]]
<1>1. /\ next \in [Box -> [BlockNo -> Pointer]]
      /\ number \in [Box -> [BlockNo -> BlockNo]]
  BY DEF MailTypeOK
<1>2. next' = [next EXCEPT ![m] = links] /\ number' = [number EXCEPT ![m] = numbers]
  BY DEF Tie
<1>3. Blocks \in Nat /\ last \in BlockNo /\ Words' = Words
  BY MailboxAssumption
<1> HIDE DEF last
<1>4. ASSUME NEW b \in BlockNo
      PROVE  /\ b < last => links[b] = Address(b + 1)
             /\ b = last => links[b] = NULL
             /\ b > last => links[b] = next[m][b]
             /\ b < last => b + 1 \in BlockNo
             /\ b < last \/ b = last \/ b > last
             /\ b <= last => numbers[b] = b
             /\ numbers[b] \in BlockNo
  <2>1. b \in Nat /\ last \in Nat /\ last < Blocks
    BY <1>3 DEF BlockNo
  <2>2. CASE b < last
    BY <1>1, <1>3, <2>1, <2>2 DEF BlockNo
  <2>3. CASE b = last
    BY <1>1, <1>3, <2>1, <2>3 DEF BlockNo
  <2>4. CASE b > last
    BY <1>1, <1>3, <2>1, <2>4 DEF BlockNo
  <2> QED
    BY <2>1, <2>2, <2>3, <2>4
<1>5. links \in [BlockNo -> Pointer]
  <2>1. \A b \in BlockNo : links[b] \in Pointer
    BY <1>1, <1>4 DEF Pointer
  <2> QED
    BY <2>1
<1>6. numbers \in [BlockNo -> BlockNo]
  BY <1>4
<1> HIDE DEF links, numbers
<1>7. next'[m] = links /\ number'[m] = numbers
  BY <1>1, <1>2
<1>8. Tied(m, len)'
  BY <1>4, <1>7 DEF Tied, last
<1>9. \A k : \A n \in Box \ {m} : Tied(n, k) => Tied(n, k)'
  BY <1>1, <1>2 DEF Tied
<1> QED
  BY <1>1, <1>2, <1>5, <1>6, <1>8, <1>9

(* Where the loops of pack_mail and unpack_mail put, or find, the next word. *)
LEMMA CurrentWord ==
  ASSUME MailInv, step \in {"pack", "unpack"},
         i < (IF step = "pack" THEN input_length ELSE output_length) - 2
  PROVE  /\ CurrentBlock \in BlockNo /\ CurrentPlace \in Place
         /\ WordNo(CurrentBlock, CurrentPlace) = i /\ i \in Nat
         /\ i + 1 <= Words * Blocks
<1> DEFINE len == IF step = "pack" THEN input_length ELSE output_length
<1>1. /\ len \in Lengths \cup {0} /\ i \in 0..(Words * Blocks)
      /\ data_counter \in 0..Words /\ mailbox_counter \in BlockNo
      /\ i = WordNo(mailbox_counter, data_counter) /\ len > 2 /\ i < len - 2
  BY DEF MailInv, MailTypeOK, Looping
<1>2. /\ len \in Nat /\ Mailed(len) \in Nat /\ Mailed(len) <= Words * Blocks
      /\ Words * Blocks \in Nat /\ Words \in Nat \ {0} /\ Blocks \in Nat \ {0}
  BY <1>1, MailedFits
<1> HIDE DEF len
<1>3. i \in Nat /\ i + 1 <= Words * Blocks /\ mailbox_counter \in Nat
  <2>1. Mailed(len) = len - 2
    BY <1>1 DEF Mailed
  <2> DEFINE x == Words * Blocks
  <2> HIDE DEF x
  <2>2. len - 2 <= x /\ x \in Nat /\ i \in 0..x
    BY <1>1, <1>2, <2>1 DEF x
  <2>3. i \in Nat /\ i + 1 <= x
    BY <1>1, <1>2, <2>2
  <2> QED
    BY <1>1, <1>2, <2>3 DEF x, BlockNo
<1>4. CASE BlockFull
  <2>1. CurrentBlock = mailbox_counter + 1 /\ CurrentPlace = 0 /\ data_counter = Words
    BY <1>4 DEF CurrentBlock, CurrentPlace, BlockFull
  <2>2. WordNo(CurrentBlock, CurrentPlace) = i
    <3>1. (mailbox_counter + 1) * Words = mailbox_counter * Words + Words
      BY <1>2, <1>3
    <3> QED
      BY <1>1, <1>2, <1>3, <2>1, <3>1 DEF WordNo
  <2>3. CurrentPlace \in Place /\ CurrentPlace \in Nat /\ CurrentBlock \in Nat
    BY <1>2, <1>3, <2>1 DEF Place
  <2>4. i < Words * Blocks
    <3> DEFINE x == Words * Blocks
    <3> HIDE DEF x
    <3>1. i < x
      BY <1>2, <1>3 DEF x
    <3> QED
      BY <3>1 DEF x
  <2> QED
    BY <1>3, <2>2, <2>3, <2>4, BlockFits
<1>5. CASE ~BlockFull
  <2>1. CurrentBlock = mailbox_counter /\ CurrentPlace = data_counter
        /\ data_counter # Words
    BY <1>5 DEF CurrentBlock, CurrentPlace, BlockFull
  <2>2. data_counter \in Place
    BY <1>1, <1>2, <2>1 DEF Place
  <2> QED
    BY <1>1, <1>3, <2>1, <2>2
<1> QED
  BY <1>4, <1>5

-----------------------------------------------------------------------------
LEMMA WordTypes ==
  /\ \A k \in 0..MaxMails, j \in 0..(2 + Words * Blocks) : <<k, j>> \in Word
  /\ NoWord \in Word /\ <<NoWord, NoWord>> \in [1..2 -> Word]
<1>1. \A k \in 0..MaxMails, j \in 0..(2 + Words * Blocks) : <<k, j>> \in Word
  BY DEF Word
<1>2. 0 \in 0..MaxMails /\ 0 \in 0..(2 + Words * Blocks)
  <2>1. Words * Blocks \in Nat /\ MaxMails \in Nat
    BY MailboxAssumption
  <2> DEFINE x == Words * Blocks
  <2> HIDE DEF x
  <2>2. 0 \in 0..MaxMails /\ 0 \in 0..(2 + x)
    BY <2>1 DEF x
  <2> QED
    BY <2>2 DEF x
<1>3. NoWord \in Word
  BY <1>1, <1>2 DEF NoWord
<1> QED
  BY <1>1, <1>3

(* A word number that fits a length names a word. *)
LEMMA WordOf ==
  ASSUME NEW len \in Lengths \cup {0}, mail \in 0..MaxMails, NEW j \in Nat, j <= len
  PROVE  <<mail, j>> \in Word
<1> DEFINE x == Words * Blocks
<1>1. x \in Nat /\ len \in 0..(2 + x)
  <2>1. x \in Nat
    BY MailboxAssumption
  <2> QED
    BY <2>1, MailboxAssumption
<1> HIDE DEF x
<1>2. j \in 0..(2 + x)
  BY <1>1
<1> QED
  BY <1>2, WordTypes DEF x

(* A new command: nothing of it is packed yet. *)
LEMMA BeginStep ==
  ASSUME MailInv, NEW in_len \in Lengths, NEW out_len \in Lengths,
         Begin(in_len, out_len)
  PROVE  MailInv'
<1>1. MailTypeOK /\ Words \in Nat \ {0} /\ Blocks \in Nat \ {0} /\ MaxMails \in Nat
      /\ in_len \in Nat /\ out_len \in Nat
  BY MailedFits, MailboxAssumption DEF MailInv
<1>2. /\ mail < MaxMails /\ mail' = mail + 1
      /\ input_length' = in_len /\ output_length' = out_len
      /\ i' = 0 /\ data_counter' = 0 /\ mailbox_counter' = 0
      /\ step' = IF in_len > 2 THEN "pack" ELSE "tie_out"
      /\ received' = <<>> /\ output' = <<>>
      /\ UNCHANGED <<data, next, number>>
  BY DEF Begin, blocks
<1> DEFINE entry == [j \in 1..2 |-> IF j <= in_len THEN <<mail + 1, j>> ELSE NoWord]
<1>3. inline' = [inline EXCEPT !["in"] = entry, !["out"] = <<NoWord, NoWord>>]
  BY DEF Begin
<1>4. mail' \in 0..MaxMails
  BY <1>1, <1>2 DEF MailTypeOK
<1>5. entry \in [1..2 -> Word]
  <2>1. \A j \in 1..2 : j <= in_len => <<mail + 1, j>> \in Word
    <3> SUFFICES ASSUME NEW j \in 1..2, j <= in_len
                 PROVE  <<mail + 1, j>> \in Word
      OBVIOUS
    <3> DEFINE x == Words * Blocks
    <3>1. x \in Nat
      BY <1>1
    <3> HIDE DEF x
    <3>2. j \in 0..(2 + x)
      BY <3>1
    <3> QED
      BY <1>2, <1>4, <3>2, WordTypes DEF x
  <2> QED
    BY <2>1, WordTypes
<1> HIDE DEF entry
<1>6. inline' \in [Box -> [1..2 -> Word]] /\ inline'["in"] = entry
  BY <1>1, <1>3, <1>5, WordTypes DEF MailTypeOK, Box
<1>7. MailTypeOK'
  <2>1. i' \in 0..(Words * Blocks) /\ data_counter' \in 0..Words /\ mailbox_counter' \in BlockNo
    <3>1. Words * Blocks \in Nat
      BY <1>1
    <3> DEFINE x == Words * Blocks
    <3> HIDE DEF x
    <3>2. 0 \in 0..x
      BY <3>1 DEF x
    <3> QED
      BY <1>1, <1>2, <3>2 DEF BlockNo, x
  <2> QED
    BY <1>1, <1>2, <1>4, <1>6, <2>1 DEF MailTypeOK
<1>8. Looping'
  BY <1>1, <1>2 DEF Looping, WordNo
<1>9. InputPacked'
  <2>1. (IF step' = "pack" THEN i' ELSE Mailed(in_len)) = 0
    BY <1>1, <1>2 DEF Mailed
  <2>2. \A b \in BlockNo, p \in Place : ~ (WordNo(b, p) < 0)
    BY WordAt DEF BlockNo
  <2>3. inline'["in"] = [j \in 1..2 |-> IF j <= input_length' THEN <<mail', j>> ELSE NoWord]
    BY <1>2, <1>6 DEF entry
  <2> QED
    BY <1>2, <2>1, <2>2, <2>3 DEF InputPacked
<1>10. Linked'
  <2>1. step' = "tie_out" => Mailed(input_length') = 0
    BY <1>1, <1>2 DEF Mailed
  <2> QED
    BY <1>2, <2>1 DEF Linked, Tied
<1>11. OutputWritten' /\ OutputUnpacked' /\ InputDelivered' /\ OutputDelivered'
  BY <1>2 DEF OutputWritten, OutputUnpacked, InputDelivered, OutputDelivered
<1> QED
  BY <1>7, <1>8, <1>9, <1>10, <1>11 DEF MailInv

(* The loops go on by a word. *)
LEMMA AdvanceStep ==
  ASSUME MailInv, step \in {"pack", "unpack"},
         i < (IF step = "pack" THEN input_length ELSE output_length) - 2,
         Advance, UNCHANGED <<step, lengths>>
  PROVE  /\ i' = i + 1 /\ i' \in 0..(Words * Blocks)
         /\ data_counter' \in 0..Words /\ mailbox_counter' \in BlockNo
         /\ Looping'
<1>1. /\ CurrentBlock \in BlockNo /\ CurrentPlace \in Place
      /\ WordNo(CurrentBlock, CurrentPlace) = i /\ i \in Nat
      /\ i + 1 <= Words * Blocks
  BY CurrentWord
<1>2. i' = i + 1 /\ mailbox_counter' = CurrentBlock /\ data_counter' = CurrentPlace + 1
  BY DEF Advance
<1>3. Words \in Nat \ {0} /\ Blocks \in Nat \ {0}
  BY MailboxAssumption
<1>4. CurrentPlace \in Nat /\ CurrentPlace < Words /\ CurrentBlock \in Nat
  BY <1>1, <1>3 DEF Place, BlockNo
<1>5. i' \in 0..(Words * Blocks)
  <2>1. Words * Blocks \in Nat
    BY <1>3
  <2> DEFINE x == Words * Blocks
  <2> HIDE DEF x
  <2>2. i + 1 \in 0..x
    BY <1>1, <2>1 DEF x
  <2> QED
    BY <1>2, <2>2 DEF x
<1>6. WordNo(CurrentBlock, CurrentPlace + 1) = i + 1
  <2> DEFINE y == CurrentBlock * Words
  <2>1. y \in Nat
    BY <1>3, <1>4
  <2>2. y + CurrentPlace = i
    BY <1>1 DEF WordNo
  <2> HIDE DEF y
  <2>3. y + (CurrentPlace + 1) = i + 1
    BY <1>4, <2>1, <2>2
  <2> QED
    BY <2>3 DEF WordNo, y
<1>7. Looping'
  <2> DEFINE len == IF step = "pack" THEN input_length ELSE output_length
  <2>1. len > 2 /\ i + 1 <= len - 2
    <3>1. len \in Lengths \cup {0} /\ len > 2 /\ i < len - 2
      BY DEF MailInv, MailTypeOK, Looping
    <3>2. len \in Nat
      BY <3>1, MailedFits
    <3> HIDE DEF len
    <3> QED
      BY <1>1, <3>1, <3>2
  <2>2. len = (IF step = "pack" THEN input_length ELSE output_length)'
    BY DEF lengths
  <2>3. data_counter' # 0 /\ i' = WordNo(mailbox_counter', data_counter')
    BY <1>2, <1>4, <1>6
  <2> QED
    BY <1>2, <2>1, <2>2, <2>3 DEF Looping, WordNo
<1> QED
  BY <1>1, <1>2, <1>3, <1>4, <1>5, <1>7

(* A word goes to its place in the mailbox, and the words before it stay. *)
LEMMA PackStep ==
  ASSUME MailInv, PackWord
  PROVE  MailInv'
<1>1. /\ step = "pack" /\ i < input_length - 2 /\ Advance
      /\ UNCHANGED <<step, lengths, inline, next, number, received, output>>
      /\ data' = [data EXCEPT !["in"][CurrentBlock][CurrentPlace] = <<mail, i + 3>>]
  <2>1. i \in Nat
    BY CurrentWord DEF PackWord
  <2>2. Packed + i + 1 = i + 3
    BY <2>1 DEF Packed
  <2> QED
    BY <2>2 DEF PackWord
<1>2. /\ i' = i + 1 /\ i' \in 0..(Words * Blocks)
      /\ data_counter' \in 0..Words /\ mailbox_counter' \in BlockNo
      /\ Looping'
  BY <1>1, AdvanceStep
<1>3. /\ CurrentBlock \in BlockNo /\ CurrentPlace \in Place
      /\ WordNo(CurrentBlock, CurrentPlace) = i /\ i \in Nat
  BY <1>1, CurrentWord
<1>4. UNCHANGED <<mail, input_length, output_length>>
  BY <1>1 DEF lengths
<1>5. /\ MailTypeOK /\ data \in [Box -> [BlockNo -> [Place -> Word]]]
      /\ data["in"] \in [BlockNo -> [Place -> Word]]
  BY DEF MailInv, MailTypeOK, Box
<1>6. <<mail, i + 3>> \in Word
  <2>1. mail \in 0..MaxMails /\ input_length \in Lengths \cup {0}
    BY <1>5 DEF MailTypeOK
  <2>2. input_length \in Nat
    BY <2>1, MailedFits
  <2>3. i + 3 \in Nat /\ i + 3 <= input_length
    BY <1>1, <1>3, <2>2
  <2> QED
    BY <2>1, <2>3, WordOf
<1> DEFINE bl == CurrentBlock
           pl == CurrentPlace
           w == <<mail, i + 3>>
           row == [data["in"][bl] EXCEPT ![pl] = w]
           rows == [data["in"] EXCEPT ![bl] = row]
<1>7. data' = [data EXCEPT !["in"] = rows]
  BY <1>1
<1>8. bl \in BlockNo /\ pl \in Place /\ WordNo(bl, pl) = i /\ w \in Word
  BY <1>3, <1>6
<1> HIDE DEF bl, pl, w
<1>9. row \in [Place -> Word]
  BY <1>5, <1>8
<1>10. \A p \in Place : row[p] = IF p = pl THEN w ELSE data["in"][bl][p]
  BY <1>5, <1>8
<1> HIDE DEF row
<1>11. /\ rows \in [BlockNo -> [Place -> Word]]
       /\ \A b \in BlockNo : rows[b] = IF b = bl THEN row ELSE data["in"][b]
  BY <1>5, <1>8, <1>9
<1> HIDE DEF rows
<1>12. /\ data' \in [Box -> [BlockNo -> [Place -> Word]]] /\ data'["in"] = rows
       /\ data'["out"] = data["out"]
  BY <1>5, <1>7, <1>11 DEF Box
<1>13. MailTypeOK'
  BY <1>1, <1>2, <1>4, <1>5, <1>12 DEF MailTypeOK
<1>14. InputPacked'
  <2>1. ASSUME NEW b \in BlockNo, NEW p \in Place, WordNo(b, p) < i + 1
        PROVE  data'["in"][b][p] = <<mail, WordNo(b, p) + 3>>
    <3>1. /\ b \in Nat /\ WordNo(b, p) \in Nat
          /\ WordNo(b, p) \div Words = b /\ WordNo(b, p) % Words = p
      BY WordAt DEF BlockNo
    <3>2. WordNo(bl, pl) \div Words = bl /\ WordNo(bl, pl) % Words = pl
      BY <1>8, WordAt DEF BlockNo
    <3>3. CASE WordNo(b, p) = i
      <4>1. b = bl /\ p = pl
        BY <1>8, <3>1, <3>2, <3>3
      <4> QED
        BY <1>10, <1>11, <1>12, <3>3, <4>1 DEF w
    <3>4. CASE WordNo(b, p) # i
      <4>1. WordNo(b, p) < i /\ ~ (b = bl /\ p = pl)
        BY <1>3, <1>8, <2>1, <3>1, <3>4
      <4>2. data["in"][b][p] = <<mail, WordNo(b, p) + 3>>
        BY <1>1, <4>1 DEF MailInv, InputPacked
      <4> QED
        BY <1>10, <1>11, <1>12, <4>1, <4>2
    <3> QED
      BY <3>3, <3>4
  <2>2. inline["in"] = [j \in 1..2 |-> IF j <= input_length THEN <<mail, j>> ELSE NoWord]
    BY <1>1 DEF MailInv, InputPacked
  <2>3. step' = "pack" /\ UNCHANGED inline
    BY <1>1
  <2> QED
    BY <1>2, <1>4, <2>1, <2>2, <2>3 DEF InputPacked
<1>15. /\ Linked' /\ OutputWritten' /\ OutputUnpacked' /\ InputDelivered'
       /\ OutputDelivered'
  BY <1>1 DEF Linked, OutputWritten, OutputUnpacked, InputDelivered, OutputDelivered
<1> QED
  BY <1>2, <1>13, <1>14, <1>15 DEF MailInv

(* The last block that pack_mail wrote to is the last that the HCA will read. *)
LEMMA TieInputStep ==
  ASSUME MailInv, TieInput
  PROVE  MailInv'
<1>1. /\ step = "pack" /\ i = input_length - 2 /\ Tie("in", mailbox_counter)
      /\ step' = "tie_out"
      /\ UNCHANGED <<mail, input_length, output_length, inline, data, i, data_counter,
                     mailbox_counter, received, output>>
  BY DEF TieInput, lengths, counters
<1>2. /\ MailTypeOK /\ input_length \in Lengths \cup {0} /\ input_length > 2
      /\ i = WordNo(mailbox_counter, data_counter)
      /\ data_counter = 0 => i = 0
      /\ mailbox_counter \in BlockNo /\ data_counter \in 0..Words
  BY <1>1 DEF MailInv, MailTypeOK, Looping
<1>3. /\ input_length \in Nat /\ Mailed(input_length) = input_length - 2
      /\ input_length - 2 \in Nat \ {0} /\ Words \in Nat \ {0} /\ Blocks \in Nat
  BY <1>2, MailedFits DEF Mailed
<1>4. mailbox_counter = ((input_length - 2) - 1) \div Words
  <2>1. mailbox_counter \in Nat /\ data_counter - 1 \in Place
    BY <1>1, <1>2, <1>3 DEF BlockNo, Place
  <2>2. WordNo(mailbox_counter, data_counter - 1) = (input_length - 2) - 1
    <3> DEFINE y == mailbox_counter * Words
    <3>1. y \in Nat
      BY <1>3, <2>1
    <3>2. y + data_counter = input_length - 2
      BY <1>1, <1>2 DEF WordNo
    <3> HIDE DEF y
    <3>3. y + (data_counter - 1) = (input_length - 2) - 1
      BY <1>2, <1>3, <3>1, <3>2
    <3> QED
      BY <3>3 DEF WordNo, y
  <2> QED
    BY <2>1, <2>2, WordAt
<1>5. /\ next' \in [Box -> [BlockNo -> Pointer]]
      /\ number' \in [Box -> [BlockNo -> BlockNo]]
      /\ Tied("in", input_length - 2)'
  BY <1>1, <1>2, <1>3, <1>4, TieTies DEF Box
<1>6. MailTypeOK'
  BY <1>1, <1>2, <1>5 DEF MailTypeOK
<1>7. Linked'
  BY <1>1, <1>3, <1>5 DEF Linked, Tied
<1>8. InputPacked'
  BY <1>1, <1>3 DEF MailInv, InputPacked
<1>9. /\ Looping' /\ OutputWritten' /\ OutputUnpacked' /\ InputDelivered'
      /\ OutputDelivered'
  BY <1>1 DEF Looping, OutputWritten, OutputUnpacked, InputDelivered, OutputDelivered
<1> QED
  BY <1>6, <1>7, <1>8, <1>9 DEF MailInv

LEMMA TieOutputStep ==
  ASSUME MailInv, TieOutput
  PROVE  MailInv'
<1>1. /\ step = "tie_out" /\ step' = "hca"
      /\ UNCHANGED <<mail, input_length, output_length, inline, data, i, data_counter,
                     mailbox_counter, received, output>>
      /\ IF output_length > 2 THEN Tie("out", LastOutput(output_length - 2))
         ELSE UNCHANGED <<next, number>>
  BY DEF TieOutput, lengths, counters
<1>2. /\ MailTypeOK /\ output_length \in Lengths \cup {0}
      /\ Tied("in", Mailed(input_length))
  BY <1>1 DEF MailInv, MailTypeOK, Linked
<1>3. /\ output_length \in Nat /\ Mailed(output_length) <= Words * Blocks
      /\ Words \in Nat \ {0}
  BY <1>2, MailedFits
<1>4. /\ next' \in [Box -> [BlockNo -> Pointer]]
      /\ number' \in [Box -> [BlockNo -> BlockNo]]
      /\ Tied("out", Mailed(output_length))' /\ Tied("in", Mailed(input_length))'
  <2>1. CASE output_length > 2
    <3>0. PICK len \in Nat \ {0} : len = output_length - 2
      BY <1>3, <2>1
    <3>1. Mailed(output_length) = len /\ len <= Words * Blocks
      BY <1>3, <2>1, <3>0 DEF Mailed
    <3>2. (len - 1) \div Words \in BlockNo
      <4>1. len - 1 \in Nat
        OBVIOUS
      <4> DEFINE b == (len - 1) \div Words
                 p == (len - 1) % Words
      <4>2. b \in Nat /\ p \in Place /\ WordNo(b, p) = len - 1
        BY <4>1, PlaceOf
      <4> HIDE DEF b, p
      <4>3. len - 1 < Words * Blocks
        <5> DEFINE x == Words * Blocks
        <5>1. x \in Nat /\ len <= x
          BY <1>3, <3>1, MailboxAssumption
        <5> HIDE DEF x
        <5>2. len - 1 < x
          BY <5>1
        <5> QED
          BY <5>2 DEF x
      <4>4. p \in Nat
        BY <1>3, <4>2 DEF Place
      <4>5. b \in BlockNo
        BY <4>2, <4>3, <4>4, BlockFits
      <4> QED
        BY <4>5 DEF b
    <3>3. LastOutput(len) = (len - 1) \div Words
      BY <3>1, LastOutputOf
    <3>4. Tie("out", (len - 1) \div Words)
      BY <1>1, <2>1, <3>0, <3>3
    <3>5. "out" \in Box /\ "in" \in Box \ {"out"}
      BY DEF Box
    <3>6. /\ next' \in [Box -> [BlockNo -> Pointer]]
          /\ number' \in [Box -> [BlockNo -> BlockNo]]
          /\ Tied("out", len)'
          /\ \A k : \A n \in Box \ {"out"} : Tied(n, k) => Tied(n, k)'
      BY <1>2, <3>2, <3>4, <3>5, TieTies
    <3>7. Mailed(output_length)' = len /\ Mailed(input_length)' = Mailed(input_length)
      BY <1>1, <3>1 DEF Mailed
    <3>8. Tied("out", Mailed(output_length))'
      BY <3>6, <3>7 DEF Tied
    <3>9. Tied("in", Mailed(input_length))'
      <4>1. PICK k : k = Mailed(input_length)
        OBVIOUS
      <4>2. Tied("in", k)'
        BY <1>2, <3>5, <3>6, <4>1
      <4> QED
        BY <3>7, <4>1, <4>2 DEF Tied
    <3> QED
      BY <3>6, <3>8, <3>9
  <2>2. CASE ~(output_length > 2)
    <3>1. Mailed(output_length) = 0 /\ UNCHANGED <<next, number>>
      BY <1>1, <2>2 DEF Mailed
    <3> QED
      BY <1>1, <1>2, <3>1 DEF MailTypeOK, Tied, Mailed
  <2> QED
    BY <2>1, <2>2
<1>5. MailTypeOK'
  BY <1>1, <1>2, <1>4 DEF MailTypeOK
<1>6. Linked'
  BY <1>1, <1>4 DEF Linked
<1>7. InputPacked'
  BY <1>1 DEF MailInv, InputPacked
<1>8. /\ Looping' /\ OutputWritten' /\ OutputUnpacked' /\ InputDelivered'
      /\ OutputDelivered'
  BY <1>1 DEF Looping, OutputWritten, OutputUnpacked, InputDelivered, OutputDelivered
<1> QED
  BY <1>5, <1>6, <1>7, <1>8 DEF MailInv

(* The program ends; nothing is promised of the command any more. *)
LEMMA NotExecutedStep ==
  ASSUME MailInv, NotExecuted
  PROVE  MailInv'
BY DEF NotExecuted, lengths, blocks, counters, MailInv, MailTypeOK, Looping, InputPacked,
       Linked, OutputWritten, OutputUnpacked, InputDelivered, OutputDelivered

(* The HCA gets what was packed, and writes where unpack_mail will look. *)
LEMMA ExecuteStep ==
  ASSUME MailInv, Execute
  PROVE  MailInv'
<1>1. /\ step = "hca" /\ step' = "read"
      /\ UNCHANGED <<mail, input_length, output_length, next, number, i, data_counter,
                     mailbox_counter, output>>
  BY DEF Execute, lengths, counters
<1>2. /\ MailTypeOK /\ mail \in 0..MaxMails
      /\ input_length \in Lengths \cup {0} /\ output_length \in Lengths \cup {0}
      /\ data \in [Box -> [BlockNo -> [Place -> Word]]]
      /\ inline \in [Box -> [1..2 -> Word]]
      /\ "in" \in Box /\ "out" \in Box
  BY DEF MailInv, MailTypeOK, Box
<1>3. /\ Tied("in", Mailed(input_length)) /\ Tied("out", Mailed(output_length))
      /\ inline["in"] = [j \in 1..2 |-> IF j <= input_length THEN <<mail, j>> ELSE NoWord]
      /\ \A b \in BlockNo, p \in Place :
           WordNo(b, p) < Mailed(input_length) => data["in"][b][p] = <<mail, WordNo(b, p) + 3>>
  BY <1>1 DEF MailInv, Linked, InputPacked
<1>4. input_length \in Nat /\ output_length \in Nat
  BY <1>2, MailedFits
<1>5. received' = [j \in 1..input_length |-> <<mail, j>>]
  <2>1. ASSUME NEW j \in 1..input_length, j > 2
        PROVE  data["in"][Chain("in")[(j - 3) \div Words] - 1][(j - 3) % Words] = <<mail, j>>
    <3>1. j \in 3..input_length /\ Mailed(input_length) = input_length - 2
      BY <1>4, <2>1 DEF Mailed
    <3>2. /\ Chain("in")[(j - 3) \div Words] - 1 = (j - 3) \div Words
          /\ (j - 3) \div Words \in BlockNo /\ (j - 3) % Words \in Place
          /\ WordNo((j - 3) \div Words, (j - 3) % Words) = j - 3
      BY <1>2, <1>3, <3>1, ChainWord
    <3> DEFINE b == (j - 3) \div Words
               p == (j - 3) % Words
    <3>3. /\ Chain("in")[b] - 1 = b /\ b \in BlockNo /\ p \in Place
          /\ WordNo(b, p) = j - 3
      BY <3>2
    <3> HIDE DEF b, p
    <3>4. WordNo(b, p) < Mailed(input_length) /\ WordNo(b, p) + 3 = j
      BY <1>4, <3>1, <3>3
    <3>5. data["in"][b][p] = <<mail, j>>
      BY <1>3, <3>3, <3>4
    <3> QED
      BY <3>3, <3>5 DEF b, p
  <2>2. \A j \in 1..input_length : j <= 2 => inline["in"][j] = <<mail, j>>
    BY <1>3, <1>4
  <2>3. received' = [j \in 1..input_length |->
                       IF j <= 2 THEN inline["in"][j]
                       ELSE data["in"][Chain("in")[(j - 3) \div Words] - 1][(j - 3) % Words]]
    BY DEF Execute
  <2>4. \A j \in 1..input_length : j <= 2 \/ j > 2
    BY <1>4
  <2> QED
    BY <2>1, <2>2, <2>3, <2>4
<1>6. received' \in [1..input_length -> Word]
  <2>1. ASSUME NEW j \in 1..input_length
        PROVE  <<mail, j>> \in Word
    BY <1>2, <1>4, WordOf
  <2> QED
    BY <1>5, <2>1
<1> DEFINE entry == [j \in 1..2 |-> IF j <= output_length THEN <<mail, j>> ELSE NoWord]
<1>7. inline' = [inline EXCEPT !["out"] = entry]
  BY DEF Execute
<1>8. entry \in [1..2 -> Word] /\ \A j \in 1..2 : j <= output_length => entry[j] = <<mail, j>>
  <2>1. \A j \in 1..2 : j <= output_length => <<mail, j>> \in Word
    BY <1>2, WordOf
  <2> QED
    BY <2>1, WordTypes
<1> HIDE DEF entry
<1>9. inline' \in [Box -> [1..2 -> Word]] /\ inline'["out"] = entry
  BY <1>2, <1>7, <1>8
<1> DEFINE blk(j) == Chain("out")[(j - 3) \div Words] - 1
           plc(j) == (j - 3) % Words
           At(j, b, p) == blk(j) = b /\ plc(j) = p
           Out(b, p) == IF \E j \in 3..output_length : At(j, b, p)
                        THEN <<mail, CHOOSE j \in 3..output_length : At(j, b, p)>>
                        ELSE data["out"][b][p]
           outs == [b \in BlockNo |-> [p \in Place |-> Out(b, p)]]
<1>10. data' = [data EXCEPT !["out"] = outs]
  BY DEF Execute
<1>11. ASSUME NEW j \in 3..output_length
       PROVE  /\ blk(j) = (j - 3) \div Words /\ blk(j) \in BlockNo /\ plc(j) \in Place
              /\ WordNo(blk(j), plc(j)) = j - 3
  BY <1>2, <1>3, ChainWord
<1>12. ASSUME NEW b \in BlockNo, NEW p \in Place
       PROVE  /\ Out(b, p) \in Word
              /\ WordNo(b, p) < Mailed(output_length) => Out(b, p) = <<mail, WordNo(b, p) + 3>>
  <2>1. b \in Nat /\ WordNo(b, p) \in Nat
        /\ WordNo(b, p) \div Words = b /\ WordNo(b, p) % Words = p
    BY WordAt DEF BlockNo
  <2>2. WordNo(b, p) < Mailed(output_length) => \E j \in 3..output_length : At(j, b, p)
    <3> SUFFICES ASSUME WordNo(b, p) < Mailed(output_length)
                 PROVE  \E j \in 3..output_length : At(j, b, p)
      OBVIOUS
    <3> DEFINE j == WordNo(b, p) + 3
    <3>1. j \in 3..output_length /\ j - 3 = WordNo(b, p)
      BY <1>4, <2>1 DEF Mailed
    <3>2. blk(j) = (j - 3) \div Words
      BY <3>1, <1>11
    <3>3. blk(j) = b /\ plc(j) = p
      BY <2>1, <3>1, <3>2
    <3> HIDE DEF j
    <3> QED
      BY <3>1, <3>3
  <2>3. CASE \E j \in 3..output_length : At(j, b, p)
    <3> DEFINE c == CHOOSE j \in 3..output_length : At(j, b, p)
    <3>1. c \in 3..output_length /\ At(c, b, p)
      BY <2>3
    <3>2. Out(b, p) = <<mail, c>>
      BY <2>3
    <3> HIDE DEF c
    <3>3. WordNo(blk(c), plc(c)) = c - 3
      BY <3>1, <1>11
    <3>4. WordNo(b, p) = c - 3
      BY <3>1, <3>3
    <3>5. c \in Nat /\ c <= output_length /\ c = WordNo(b, p) + 3
      BY <1>4, <3>1, <3>4
    <3>6. <<mail, c>> \in Word
      BY <1>2, <3>5, WordOf
    <3> HIDE DEF Out
    <3> QED
      BY <3>2, <3>5, <3>6
  <2>4. CASE ~ \E j \in 3..output_length : At(j, b, p)
    <3>1. Out(b, p) = data["out"][b][p]
      BY <2>4
    <3>2. data["out"][b][p] \in Word
      BY <1>2
    <3> HIDE DEF Out
    <3> QED
      BY <2>2, <2>4, <3>1, <3>2
  <2> QED
    BY <2>3, <2>4
<1> HIDE DEF Out
<1>13. /\ outs \in [BlockNo -> [Place -> Word]]
       /\ \A b \in BlockNo, p \in Place : outs[b][p] = Out(b, p)
  BY <1>12
<1> HIDE DEF outs
<1>14. data' \in [Box -> [BlockNo -> [Place -> Word]]] /\ data'["out"] = outs
  BY <1>2, <1>10, <1>13
<1>15. MailTypeOK'
  BY <1>1, <1>2, <1>6, <1>9, <1>14 DEF MailTypeOK
<1>16. OutputWritten'
  <2>1. \A b \in BlockNo, p \in Place : WordNo(b, p) < Mailed(output_length) =>
          data'["out"][b][p] = <<mail, WordNo(b, p) + 3>>
    BY <1>12, <1>13, <1>14
  <2>2. \A j \in 1..2 : j <= output_length => inline'["out"][j] = <<mail, j>>
    BY <1>8, <1>9
  <2> QED
    BY <1>1, <2>1, <2>2 DEF OutputWritten, Mailed
<1>17. InputDelivered'
  BY <1>1, <1>5 DEF InputDelivered
<1>18. Looping' /\ InputPacked' /\ Linked' /\ OutputUnpacked' /\ OutputDelivered'
  BY <1>1 DEF Looping, InputPacked, Linked, OutputUnpacked, OutputDelivered
<1> QED
  BY <1>15, <1>16, <1>17, <1>18 DEF MailInv

-----------------------------------------------------------------------------
(* get_cmd_output copies the words in the entry; unpack_mail starts. *)
LEMMA ReadStep ==
  ASSUME MailInv, ReadEntry
  PROVE  MailInv'
<1>1. /\ step = "read" /\ step' = IF output_length > 2 THEN "unpack" ELSE "idle"
      /\ i' = 0 /\ data_counter' = 0 /\ mailbox_counter' = 0
      /\ output' = [j \in 1..output_length |-> IF j <= 2 THEN inline["out"][j] ELSE NoWord]
      /\ UNCHANGED <<mail, input_length, output_length, inline, data, next, number,
                     received>>
  BY DEF ReadEntry, lengths, blocks
<1>2. /\ MailTypeOK /\ output_length \in Lengths \cup {0}
      /\ inline["out"] \in [1..2 -> Word]
  BY DEF MailInv, MailTypeOK, Box
<1>3. /\ output_length \in Nat /\ Words * Blocks \in Nat /\ Words \in Nat \ {0}
      /\ Blocks \in Nat \ {0}
  BY <1>2, MailedFits
<1>4. /\ \A j \in 1..2 : j <= output_length => inline["out"][j] = <<mail, j>>
      /\ \A b \in BlockNo, p \in Place : WordNo(b, p) < Mailed(output_length) =>
           data["out"][b][p] = <<mail, WordNo(b, p) + 3>>
  BY <1>1 DEF MailInv, OutputWritten
<1>5. \A j \in 1..output_length : /\ output'[j] \in Word
                                  /\ j <= 2 => output'[j] = <<mail, j>>
  <2>1. \A j \in 1..output_length : j <= 2 => j \in 1..2 /\ j <= output_length
    BY <1>3
  <2> QED
    BY <1>1, <1>2, <1>4, <2>1, WordTypes
<1>6. output' \in [1..output_length -> Word]
  BY <1>1, <1>5
<1>7. MailTypeOK'
  <2>1. 0 \in 0..(Words * Blocks) /\ 0 \in 0..Words /\ 0 \in BlockNo
    <3> DEFINE x == Words * Blocks
    <3>1. x \in Nat
      BY <1>3
    <3> HIDE DEF x
    <3>2. 0 \in 0..x
      BY <3>1
    <3> QED
      BY <1>3, <3>2 DEF x, BlockNo
  <2>2. step' \in {"unpack", "idle"}
    BY <1>1
  <2> QED
    BY <1>1, <1>2, <1>6, <2>1, <2>2 DEF MailTypeOK
<1>8. Looping'
  BY <1>1, <1>3 DEF Looping, WordNo
<1>9. OutputWritten'
  BY <1>1, <1>4 DEF OutputWritten, Mailed
<1>10. OutputUnpacked'
  BY <1>1, <1>5, <1>6 DEF OutputUnpacked
<1>11. OutputDelivered'
  <2> SUFFICES ASSUME step' = "idle"
               PROVE  output' = [j \in 1..output_length |-> <<mail, j>>]
    BY <1>1 DEF OutputDelivered
  <2>1. ~(output_length > 2)
    BY <1>1
  <2>2. \A j \in 1..output_length : j <= 2
    BY <1>3, <2>1
  <2> QED
    BY <1>1, <1>5, <2>2
<1>12. InputPacked' /\ Linked'
  BY <1>1 DEF InputPacked, Linked
<1>13. InputDelivered'
  BY <1>1 DEF MailInv, InputDelivered
<1> QED
  BY <1>7, <1>8, <1>9, <1>10, <1>11, <1>12, <1>13 DEF MailInv

LEMMA UnpackStep ==
  ASSUME MailInv, UnpackWord
  PROVE  MailInv'
<1>1. /\ step = "unpack" /\ i < output_length - 2 /\ Advance
      /\ UNCHANGED <<step, lengths, inline, data, next, number, received>>
      /\ output' = [output EXCEPT ![i + 3] = data["out"][CurrentBlock][CurrentPlace]]
  <2>1. step = "unpack" /\ i < output_length - 2
    BY DEF UnpackWord
  <2>2. i \in Nat
    BY <2>1, CurrentWord
  <2>3. Unpacked + i + 1 = i + 3
    BY <2>2 DEF Unpacked
  <2> QED
    BY <2>3 DEF UnpackWord, blocks
<1>2. /\ i' = i + 1 /\ i' \in 0..(Words * Blocks)
      /\ data_counter' \in 0..Words /\ mailbox_counter' \in BlockNo
      /\ Looping'
  BY <1>1, AdvanceStep
<1>3. /\ CurrentBlock \in BlockNo /\ CurrentPlace \in Place
      /\ WordNo(CurrentBlock, CurrentPlace) = i /\ i \in Nat
  BY <1>1, CurrentWord
<1>4. UNCHANGED <<mail, input_length, output_length>>
  BY <1>1 DEF lengths
<1>5. /\ MailTypeOK /\ mail \in 0..MaxMails /\ output_length \in Lengths \cup {0}
      /\ output \in [1..output_length -> Word]
      /\ \A j \in 1..output_length : j <= i + 2 => output[j] = <<mail, j>>
      /\ \A b \in BlockNo, p \in Place : WordNo(b, p) < Mailed(output_length) =>
           data["out"][b][p] = <<mail, WordNo(b, p) + 3>>
  BY <1>1 DEF MailInv, MailTypeOK, OutputUnpacked, OutputWritten
<1>6. output_length \in Nat /\ i < Mailed(output_length) /\ i + 3 \in 1..output_length
  <2>1. output_length \in Nat
    BY <1>5, MailedFits
  <2> QED
    BY <1>1, <1>3, <2>1 DEF Mailed
<1>7. data["out"][CurrentBlock][CurrentPlace] = <<mail, i + 3>>
  BY <1>3, <1>5, <1>6
<1>8. <<mail, i + 3>> \in Word
  BY <1>5, <1>6, WordOf
<1>9. output' = [output EXCEPT ![i + 3] = <<mail, i + 3>>]
  BY <1>1, <1>7
<1>10. /\ output' \in [1..output_length -> Word]
       /\ \A j \in 1..output_length : j <= (i + 1) + 2 => output'[j] = <<mail, j>>
  <2>1. output' \in [1..output_length -> Word]
    BY <1>5, <1>8, <1>9
  <2>2. ASSUME NEW j \in 1..output_length, j <= (i + 1) + 2
        PROVE  output'[j] = <<mail, j>>
    <3>1. CASE j = i + 3
      BY <1>5, <1>6, <1>9, <3>1
    <3>2. CASE j # i + 3
      <4>1. j <= i + 2
        BY <1>3, <1>6, <2>2, <3>2
      <4> QED
        BY <1>5, <1>9, <3>2, <4>1
    <3> QED
      BY <3>1, <3>2
  <2> QED
    BY <2>1, <2>2
<1>11. MailTypeOK'
  BY <1>1, <1>2, <1>4, <1>5, <1>10 DEF MailTypeOK
<1>12. OutputUnpacked'
  BY <1>1, <1>2, <1>4, <1>10 DEF OutputUnpacked
<1>13. OutputWritten'
  BY <1>1, <1>4, <1>5 DEF OutputWritten, Mailed
<1>14. InputPacked' /\ Linked' /\ OutputDelivered'
  BY <1>1 DEF InputPacked, Linked, OutputDelivered
<1>15. InputDelivered'
  BY <1>1, <1>4 DEF MailInv, InputDelivered
<1> QED
  BY <1>2, <1>11, <1>12, <1>13, <1>14, <1>15 DEF MailInv

(* All of the output is in the caller's array. *)
LEMMA ReturnStep ==
  ASSUME MailInv, Return
  PROVE  MailInv'
<1>1. /\ step = "unpack" /\ i = output_length - 2 /\ step' = "idle"
      /\ UNCHANGED <<mail, input_length, output_length, inline, data, next, number, i,
                     data_counter, mailbox_counter, received, output>>
  BY DEF Return, lengths, blocks, counters
<1>2. /\ MailTypeOK /\ output_length \in Lengths \cup {0}
      /\ output \in [1..output_length -> Word]
      /\ \A j \in 1..output_length : j <= i + 2 => output[j] = <<mail, j>>
  BY <1>1 DEF MailInv, MailTypeOK, OutputUnpacked
<1>3. output_length \in Nat
  BY <1>2, MailedFits
<1>4. \A j \in 1..output_length : output[j] = <<mail, j>>
  <2>1. \A j \in 1..output_length : j <= i + 2
    BY <1>1, <1>3
  <2> QED
    BY <1>2, <2>1
<1>5. OutputDelivered'
  BY <1>1, <1>2, <1>4 DEF OutputDelivered
<1>6. MailTypeOK'
  BY <1>1, <1>2 DEF MailTypeOK
<1>7. /\ Looping' /\ InputPacked' /\ Linked' /\ OutputWritten' /\ OutputUnpacked'
      /\ InputDelivered'
  BY <1>1 DEF Looping, InputPacked, Linked, OutputWritten, OutputUnpacked, InputDelivered
<1> QED
  BY <1>5, <1>6, <1>7 DEF MailInv

-----------------------------------------------------------------------------
LEMMA MailStepInv ==
  ASSUME MailInv, [MailNext]_mail_vars
  PROVE  MailInv'
<1>1. CASE UNCHANGED mail_vars
  BY <1>1 DEF mail_vars, lengths, blocks, counters, MailInv, MailTypeOK, Looping,
              InputPacked, Linked, Tied, OutputWritten, OutputUnpacked, InputDelivered,
              OutputDelivered, Mailed
<1>2. ASSUME NEW in_len \in Lengths, NEW out_len \in Lengths, Begin(in_len, out_len)
      PROVE  MailInv'
  BY <1>2, BeginStep
<1> QED
  BY <1>1, <1>2, PackStep, TieInputStep, TieOutputStep, NotExecutedStep, ExecuteStep,
     ReadStep, UnpackStep, ReturnStep DEF MailNext, MailStep

LEMMA MailInitInv ==
  ASSUME MailInit
  PROVE  MailInv
<1> USE DEF MailInit
<1>1. Words \in Nat \ {0} /\ Blocks \in Nat \ {0} /\ MaxMails \in Nat
  BY MailboxAssumption
<1>2. mail \in 0..MaxMails /\ 0 \in BlockNo /\ 0 \in 0..Words
  BY <1>1 DEF BlockNo
<1>3. i \in 0..(Words * Blocks)
  <2> DEFINE x == Words * Blocks
  <2>1. x \in Nat
    BY <1>1
  <2> HIDE DEF x
  <2>2. 0 \in 0..x
    BY <2>1
  <2> QED
    BY <2>2 DEF x
<1>4. inline \in [Box -> [1..2 -> Word]]
  BY WordTypes
<1>5. data \in [Box -> [BlockNo -> [Place -> Word]]]
  BY WordTypes
<1>6. next \in [Box -> [BlockNo -> Pointer]] /\ number \in [Box -> [BlockNo -> BlockNo]]
  BY <1>2 DEF Pointer
<1>7. MailTypeOK
  BY <1>2, <1>3, <1>4, <1>5, <1>6 DEF MailTypeOK
<1>8. OutputDelivered
  BY DEF OutputDelivered
<1>9. /\ Looping /\ InputPacked /\ Linked /\ OutputWritten /\ OutputUnpacked
      /\ InputDelivered
  BY DEF Looping, InputPacked, Linked, OutputWritten, OutputUnpacked, InputDelivered
<1> QED
  BY <1>7, <1>8, <1>9 DEF MailInv

(* What is tied when the HCA gets the entry is what it accepts. *)
LEMMA MailInvAcceptable ==
  ASSUME MailInv
  PROVE  ChainsWellFormed
<1> SUFFICES ASSUME step = "hca"
             PROVE  Acceptable
  BY DEF ChainsWellFormed
<1>1. /\ input_length \in Lengths \cup {0} /\ output_length \in Lengths \cup {0}
      /\ Tied("in", Mailed(input_length)) /\ Tied("out", Mailed(output_length))
  BY DEF MailInv, MailTypeOK, Linked
<1>2. /\ Mailed(input_length) \in Nat /\ Mailed(input_length) <= Words * Blocks
      /\ Mailed(output_length) \in Nat /\ Mailed(output_length) <= Words * Blocks
  BY <1>1, MailedFits
<1> QED
  BY <1>1, <1>2, TiedWellFormed DEF Acceptable

=============================================================================
