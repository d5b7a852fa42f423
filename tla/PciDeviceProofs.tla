---------------------------- MODULE PciDeviceProofs ----------------------------
(***************************************************************************)
(* Proofs about PciDevice, for registers of any width, any page size and   *)
(* any machine whose BARs are what PciAssumption says.                     *)
(*                                                                         *)
(* The arithmetic comes first: what a BAR register holds before, during    *)
(* and after it is sized, and what map_pci_bar computes from it. The       *)
(* inductive invariant then says at every label which registers hold their *)
(* address and what main has read so far.                                  *)
(***************************************************************************)
EXTENDS PciDevice, TLAPS

(* Division by a number that is not a constant. *)
LEMMA Division ==
  ASSUME NEW u \in Nat \ {0}, NEW v \in Nat
  PROVE  /\ v \div u \in Nat /\ v % u \in 0..(u - 1)
         /\ v = u * (v \div u) + (v % u)
OBVIOUS

LEMMA Quotient ==
  ASSUME NEW u \in Nat \ {0}, NEW q \in Nat, NEW r \in 0..(u - 1)
  PROVE  (u * q + r) \div u = q /\ (u * q + r) % u = r
OBVIOUS

LEMMA Multiple ==
  ASSUME NEW u \in Nat \ {0}, NEW v \in Nat, v % u = 0
  PROVE  v = u * (v \div u) /\ v \div u \in Nat
OBVIOUS

LEMMA Product ==
  ASSUME NEW u \in Nat \ {0}, NEW q \in Nat, NEW v, v = u * q
  PROVE  v % u = 0 /\ v \in Nat
<1>1. 0 \in 0..(u - 1)
  OBVIOUS
<1>2. (u * q + 0) % u = 0
  BY <1>1, Quotient
<1>3. u * q + 0 = u * q /\ u * q \in Nat
  OBVIOUS
<1> QED
  BY <1>2, <1>3

(* Clear takes a remainder away. *)
LEMMA Cleared ==
  ASSUME NEW u \in Nat \ {0}, NEW v \in Nat, v % u = 0, NEW r \in 0..(u - 1)
  PROVE  Clear(v + r, u) = v /\ (v + r) % u = r
<1>1. v = u * (v \div u) /\ v \div u \in Nat
  BY Multiple
<1>2. (u * (v \div u) + r) % u = r
  BY <1>1, Quotient
<1> QED
  BY <1>1, <1>2 DEF Clear

(* What divides a number divides its multiples; what divides two numbers divides
   their difference, and the remainder of one by the other. *)
LEMMA Multiples ==
  ASSUME NEW u \in Nat \ {0}, NEW v \in Nat, NEW w \in Nat, v % u = 0
  PROVE  (v * w) % u = 0
<1>1. PICK q \in Nat : v = u * q
  BY Multiple
<1>2. v * w = u * (q * w) /\ q * w \in Nat
  BY <1>1
<1> DEFINE x == q * w
<1>3. v * w = u * x /\ x \in Nat
  BY <1>2
<1> HIDE DEF x
<1> QED
  BY <1>3, Product

LEMMA Difference ==
  ASSUME NEW u \in Nat \ {0}, NEW v \in Nat, NEW w \in Nat, v % u = 0, w % u = 0,
         w <= v
  PROVE  (v - w) % u = 0 /\ v - w \in Nat
<1>1. PICK q \in Nat : v = u * q
  BY Multiple
<1>2. PICK p \in Nat : w = u * p
  BY Multiple
<1>3. v - w = u * (q - p)
  BY <1>1, <1>2
<1>4. q - p \in Nat
  BY <1>1, <1>2
<1> QED
  BY <1>3, <1>4, Product

LEMMA Remainder ==
  ASSUME NEW u \in Nat \ {0}, NEW v \in Nat \ {0}, NEW w \in Nat, v % u = 0, w % u = 0
  PROVE  (w % v) % u = 0
<1>1. PICK q \in Nat : v = u * q
  BY Multiple
<1>2. PICK p \in Nat : w = u * p
  BY Multiple
<1>3. PICK d \in Nat : w % v = w - v * d /\ w % v \in Nat
  <2> DEFINE e == w \div v
  <2>1. e \in Nat /\ w % v \in Nat
    OBVIOUS
  <2>2. w = v * e + (w % v)
    BY Division
  <2> HIDE DEF e
  <2>3. v * e \in Nat
    BY <2>1
  <2>4. \A x, y, z \in Nat : x = y + z => z = x - y
    OBVIOUS
  <2>5. w % v = w - v * e
    BY <2>1, <2>2, <2>3, <2>4
  <2> QED
    BY <2>1, <2>5
<1>4. w % v = u * (p - q * d)
  BY <1>1, <1>2, <1>3
<1> DEFINE x == p - q * d
<1>5. w % v = u * x /\ x \in Int
  BY <1>4
<1> HIDE DEF x
<1>6. x \in Nat
  BY <1>3, <1>5
<1> QED
  BY <1>5, <1>6, Product

LEMMA Transitive ==
  ASSUME NEW u \in Nat \ {0}, NEW v \in Nat \ {0}, NEW w \in Nat, v % u = 0, w % v = 0
  PROVE  w % u = 0
<1>1. PICK q \in Nat : w = v * q
  BY Multiple
<1> QED
  BY <1>1, Multiples

-----------------------------------------------------------------------------
(* The unit in which a BAR's lower register counts. *)
Unit(b) == Lower(b.size, Full)

Align(b) == IF b.kind = "io" THEN 4 ELSE 16

(* What PciAssumption says of one BAR. *)
LEMMA Machine ==
  ASSUME hw \in Hardware, NEW j \in BarNo, hw.bars[j].kind \in Mappable
  PROVE  LET b == hw.bars[j] IN
         /\ b.size \in Nat \ {0} /\ b.addr \in Nat /\ b.prefetchable \in BOOLEAN
         /\ b.addr % b.size = 0 /\ b.size % Align(b) = 0
         /\ b.kind = "io" => ~b.prefetchable
         /\ b.kind # "mem64" => b.addr + b.size < Full /\ Full % b.size = 0
         /\ b.kind = "mem64" =>
              /\ b.addr + b.size < Full * Full
              /\ \/ Full % b.size = 0
                 \/ b.size % Full = 0 /\ (Full * Full) % b.size = 0
              /\ j + 1 \in BarNo /\ hw.bars[j + 1].kind = "high"
<1> DEFINE b == hw.bars[j]
<1>1. b \in [kind : Kind, prefetchable : BOOLEAN, addr : Nat, size : Nat]
  BY PciAssumption
<1>2. /\ b.size > 0 /\ b.addr % b.size = 0
      /\ IF b.kind = "io" THEN b.size % 4 = 0 /\ ~b.prefetchable
         ELSE b.size % 16 = 0
      /\ IF b.kind = "mem64"
         THEN /\ b.addr + b.size < Full * Full
              /\ \/ Full % b.size = 0
                 \/ b.size % Full = 0 /\ (Full * Full) % b.size = 0
         ELSE b.addr + b.size < Full /\ Full % b.size = 0
  BY PciAssumption
<1>3. b.kind = "mem64" => j + 1 \in BarNo /\ hw.bars[j + 1].kind = "high"
  BY PciAssumption
<1>4. b.size \in Nat \ {0} /\ b.addr \in Nat /\ b.prefetchable \in BOOLEAN
  BY <1>1, <1>2
<1> QED
  BY <1>2, <1>3, <1>4 DEF Align

LEMMA FlagsOf ==
  ASSUME NEW b, b.prefetchable \in BOOLEAN, b.kind \in Mappable,
         b.kind = "io" => ~b.prefetchable
  PROVE  /\ b.kind = "mem64" => Flags(b) \in {4, 12}
         /\ b.kind = "mem32" => Flags(b) \in {0, 8}
         /\ b.kind = "io" => Flags(b) = 1
         /\ Flags(b) \in 0..(Align(b) - 1)
<1>1. CASE b.kind = "mem64"
  BY <1>1 DEF Flags, Align
<1>2. CASE b.kind = "io"
  BY <1>2 DEF Flags, Align
<1>3. CASE b.kind = "mem32"
  BY <1>3 DEF Flags, Align
<1> QED
  BY <1>1, <1>2, <1>3 DEF Mappable

(* The lower register's part of an address is a multiple of its unit, which is
   one of the alignment, and the register's range is a multiple of it. *)
LEMMA UnitOf ==
  ASSUME hw \in Hardware, NEW j \in BarNo, hw.bars[j].kind \in Mappable
  PROVE  LET b == hw.bars[j] IN
         /\ Unit(b) \in Nat \ {0} /\ Unit(b) <= Full /\ Full % Unit(b) = 0
         /\ b.addr % Full \in 0..(Full - 1) /\ (b.addr % Full) % Unit(b) = 0
         /\ Unit(b) % Align(b) = 0 /\ (b.addr % Full) % Align(b) = 0
         /\ Full % Align(b) = 0 /\ Align(b) <= Unit(b)
         /\ b.kind # "mem64" => b.addr % Full = b.addr /\ Unit(b) = b.size
<1> DEFINE b == hw.bars[j]
           s == b.size
           a == b.addr
           d == Align(b)
<1>1. /\ s \in Nat \ {0} /\ a \in Nat /\ a % s = 0 /\ s % d = 0
      /\ b.kind # "mem64" => a + s < Full /\ Full % s = 0
      /\ b.kind = "mem64" => Full % s = 0 \/ s % Full = 0
  BY Machine
<1>2. Full \in Nat \ {0} /\ Full % 16 = 0
  BY PciAssumption
<1>3. d \in {4, 16} /\ Full % d = 0
  BY <1>2 DEF Align
<1>4. Unit(b) = IF s < Full THEN s ELSE Full
  BY DEF Unit, Lower
<1> HIDE DEF s, a, d
<1>5. a % Full \in 0..(Full - 1)
  BY <1>1, <1>2
<1>6. CASE Full % s = 0
  <2>1. s <= Full
    BY <1>1, <1>2, <1>6
  <2>2. Unit(b) = s
    BY <1>1, <1>2, <1>4, <2>1
  <2>3. (a % Full) % s = 0
    BY <1>1, <1>2, <1>6, Remainder
  <2>4. (a % Full) % d = 0
    BY <1>1, <1>3, <1>5, <2>3, Transitive
  <2>5. b.kind # "mem64" => a % Full = a
    BY <1>1, <1>2
  <2>6. d <= s
    BY <1>1, <1>3
  <2> QED
    BY <1>1, <1>2, <1>3, <1>5, <1>6, <2>1, <2>2, <2>3, <2>4, <2>5, <2>6 DEF s, a, d
<1>7. CASE Full % s # 0
  <2>1. s % Full = 0 /\ b.kind = "mem64"
    BY <1>1, <1>7
  <2>2. Full <= s
    BY <1>1, <1>2, <2>1
  <2>3. Unit(b) = Full
    BY <1>1, <1>2, <1>4, <2>2
  <2>4. a % Full = 0
    BY <1>1, <1>2, <2>1, Transitive
  <2>5. d <= Full /\ Full % Full = 0 /\ 0 % Full = 0 /\ 0 % d = 0
    BY <1>2, <1>3
  <2> QED
    BY <1>1, <1>2, <1>3, <1>5, <2>1, <2>3, <2>4, <2>5 DEF s, a, d
<1> QED
  BY <1>6, <1>7

(* A BAR's lower register before, during and after it is sized. *)
LEMMA LowRegister ==
  ASSUME hw \in Hardware, NEW j \in BarNo, hw.bars[j].kind \in Mappable
  PROVE  LET b == hw.bars[j] IN
         /\ Assigned(j) = (b.addr % Full) + Flags(b)
         /\ Written(j, Full - 1) = (Full - Unit(b)) + Flags(b)
         /\ Written(j, Assigned(j)) = Assigned(j)
         /\ Assigned(j) \in 0..(Full - 1) /\ Written(j, Full - 1) \in 0..(Full - 1)
<1> DEFINE b == hw.bars[j]
           u == Unit(b)
           f == Flags(b)
           a == b.addr % Full
<1>1. /\ u \in Nat \ {0} /\ u <= Full /\ Full % u = 0 /\ a \in 0..(Full - 1)
      /\ a % u = 0 /\ Align(b) <= u /\ Full \in Nat \ {0} /\ a \in Nat
  <2>1. Full \in Nat \ {0}
    BY PciAssumption
  <2>2. a \in 0..(Full - 1)
    BY UnitOf
  <2>3. a \in Nat
    BY <2>1, <2>2
  <2> QED
    BY UnitOf, <2>1, <2>2, <2>3
<1>2. f \in 0..(Align(b) - 1) /\ Align(b) \in Nat
  BY Machine, FlagsOf DEF Align
<1>3. f \in 0..(u - 1)
  BY <1>1, <1>2
<1>4. b.kind # "none" /\ b.kind # "high" /\ u = Lower(b.size, Full)
  BY DEF Mappable, Unit
<1>5. Assigned(j) = a + f
  BY <1>4 DEF Assigned
<1>6. \A v : Written(j, v) = Clear(v, u) + f
  BY <1>4 DEF Written
<1> HIDE DEF b, u, f, a
<1>7. Clear(a + f, u) = a
  BY <1>1, <1>3, Cleared
<1>8. Clear(Full - 1, u) = Full - u
  <2>1. u % u = 0
    BY <1>1
  <2>2. (Full - u) % u = 0 /\ Full - u \in Nat
    BY <1>1, <2>1, Difference
  <2>3. Full - 1 = (Full - u) + (u - 1) /\ u - 1 \in 0..(u - 1)
    BY <1>1
  <2>4. Clear((Full - u) + (u - 1), u) = Full - u
    BY <1>1, <2>2, <2>3, Cleared
  <2> QED
    BY <2>3, <2>4
<1>9. a + f \in 0..(Full - 1)
  <2>1. a <= Full - u
    <3>1. a <= Full /\ Full - a # 0
      BY <1>1
    <3>2. (Full - a) % u = 0 /\ Full - a \in Nat
      BY <1>1, <3>1, Difference
    <3>3. Full - a >= u
      BY <1>1, <3>1, <3>2
    <3> QED
      BY <1>1, <3>3
  <2> QED
    BY <1>1, <1>3, <2>1
<1>10. (Full - u) + f \in 0..(Full - 1)
  BY <1>1, <1>3
<1> QED
  BY <1>5, <1>6, <1>7, <1>8, <1>9, <1>10 DEF b, u, f, a

(* The unit in which the upper register of a 64-bit BAR counts. *)
UnitAbove(b) == IF b.size > Full THEN b.size \div Full ELSE 1

LEMMA UnitAboveOf ==
  ASSUME hw \in Hardware, NEW j \in BarNo, hw.bars[j].kind = "mem64"
  PROVE  LET b == hw.bars[j] IN
         /\ UnitAbove(b) \in Nat \ {0} /\ Full % UnitAbove(b) = 0
         /\ b.addr \div Full \in 0..(Full - 1)
         /\ (b.addr \div Full) % UnitAbove(b) = 0
         /\ UnitAbove(b) * Full = IF b.size > Full THEN b.size ELSE Full
<1> DEFINE b == hw.bars[j]
           s == b.size
           a == b.addr
           u == UnitAbove(b)
<1>1. /\ s \in Nat \ {0} /\ a \in Nat /\ a % s = 0 /\ a + s < Full * Full
      /\ Full % s = 0 \/ (s % Full = 0 /\ (Full * Full) % s = 0)
      /\ Full \in Nat \ {0}
  BY Machine, PciAssumption DEF Mappable
<1>2. u = IF s > Full THEN s \div Full ELSE 1
  BY DEF UnitAbove
<1> HIDE DEF s, a, u
<1>3. a \div Full \in 0..(Full - 1)
  <2> DEFINE q == a \div Full
  <2>1. q \in Nat /\ a = Full * q + (a % Full) /\ a % Full \in Nat
    BY <1>1, Division
  <2> HIDE DEF q
  <2>2. Full * q < Full * Full
    BY <1>1, <2>1
  <2>3. q < Full
    BY <1>1, <2>1, <2>2
  <2> QED
    BY <1>1, <2>1, <2>3 DEF q
<1>4. CASE s <= Full
  BY <1>1, <1>2, <1>3, <1>4 DEF s, a, u
<1>5. CASE s > Full
  <2>1. Full % s = Full
    BY <1>1, <1>5
  <2>2. s % Full = 0 /\ (Full * Full) % s = 0
    BY <1>1, <2>1
  <2>3. s = Full * u /\ u \in Nat
    BY <1>1, <1>2, <1>5, <2>2, Multiple
  <2>4. u # 0
    BY <1>1, <2>3
  <2>5. Full % u = 0
    <3>1. Full * Full \in Nat
      BY <1>1
    <3>2. PICK m \in Nat : Full * Full = s * m
      BY <1>1, <2>2, <3>1, Multiple
    <3>3. Full * Full = Full * (u * m)
      BY <1>1, <2>3, <3>2
    <3>4. Full = u * m
      BY <1>1, <2>3, <3>3
    <3> QED
      BY <2>3, <2>4, <3>4, Product
  <2>6. (a \div Full) % u = 0
    <3>1. PICK p \in Nat : a = s * p
      BY <1>1, Multiple
    <3> DEFINE x == u * p
    <3>2. a = Full * x + 0 /\ x \in Nat
      BY <1>1, <2>3, <3>1
    <3> HIDE DEF x
    <3>3. 0 \in 0..(Full - 1)
      BY <1>1
    <3>4. (Full * x + 0) \div Full = x
      BY <1>1, <3>2, <3>3, Quotient
    <3>5. a \div Full = u * p
      BY <3>2, <3>4 DEF x
    <3> QED
      BY <2>3, <2>4, <3>5, Product
  <2> QED
    BY <1>1, <1>3, <1>5, <2>3, <2>4, <2>5, <2>6 DEF s, a, u
<1> QED
  BY <1>1, <1>4, <1>5

(* The upper register of a 64-bit BAR before, during and after it is sized. *)
LEMMA HighRegister ==
  ASSUME hw \in Hardware, NEW j \in BarNo, hw.bars[j].kind = "mem64"
  PROVE  LET b == hw.bars[j] IN
         /\ Assigned(j + 1) = b.addr \div Full
         /\ Written(j + 1, Full - 1) = Full - UnitAbove(b)
         /\ Written(j + 1, Assigned(j + 1)) = Assigned(j + 1)
         /\ Assigned(j + 1) \in 0..(Full - 1)
         /\ Written(j + 1, Full - 1) \in 0..(Full - 1)
<1> DEFINE b == hw.bars[j]
           u == UnitAbove(b)
           a == b.addr \div Full
<1>1. /\ u \in Nat \ {0} /\ Full % u = 0 /\ a \in 0..(Full - 1) /\ a % u = 0
      /\ Full \in Nat \ {0}
  BY UnitAboveOf, PciAssumption
<1>2. /\ hw.bars[j + 1].kind = "high" /\ (j + 1) - 1 = j
      /\ u = IF b.size > Full THEN b.size \div Full ELSE 1
  BY Machine DEF Mappable, UnitAbove, BarNo
<1>3. Assigned(j + 1) = a
  BY <1>2 DEF Assigned
<1>4. \A v : Written(j + 1, v) = Clear(v, u)
  BY <1>2 DEF Written
<1> HIDE DEF b, u, a
<1>5. Clear(a, u) = a
  BY <1>1 DEF Clear
<1>6. u <= Full /\ Clear(Full - 1, u) = Full - u
  <2>1. u % u = 0 /\ u <= Full
    BY <1>1
  <2>2. (Full - u) % u = 0 /\ Full - u \in Nat
    BY <1>1, <2>1, Difference
  <2>3. Full - 1 = (Full - u) + (u - 1) /\ u - 1 \in 0..(u - 1)
    BY <1>1
  <2>4. Clear((Full - u) + (u - 1), u) = Full - u
    BY <1>1, <2>2, <2>3, Cleared
  <2> QED
    BY <2>1, <2>3, <2>4
<1> QED
  BY <1>1, <1>3, <1>4, <1>5, <1>6 DEF b, u, a

-----------------------------------------------------------------------------
(* What main can tell from the lower register: the kind of the BAR, except that it
   takes some I/O BARs for 64-bit ones. *)
LEMMA KindRead ==
  ASSUME hw \in Hardware, idx \in BarNo, hw.bars[idx].kind \in Mappable,
         addr.lsb = Assigned(idx)
  PROVE  /\ Is64 <=> hw.bars[idx].kind = "mem64" \/ TakenFor64(hw.bars[idx])
         /\ IsIo <=> hw.bars[idx].kind = "io"
<1> DEFINE b == hw.bars[idx]
           f == Flags(b)
           a == b.addr % Full
<1>1. addr.lsb = a + f /\ a \in Nat /\ a % Align(b) = 0
  <2>1. Full \in Nat
    BY PciAssumption
  <2> QED
    BY <2>1, LowRegister, UnitOf
<1>2. /\ b.kind = "mem64" => f \in {4, 12}
      /\ b.kind = "mem32" => f \in {0, 8}
      /\ b.kind = "io" => f = 1
  BY Machine, FlagsOf
<1>3. Align(b) = IF b.kind = "io" THEN 4 ELSE 16
  BY DEF Align
<1>4. Is64 <=> (addr.lsb \div 4) % 2 = 1
  BY DEF Is64, Bit
<1>5. IsIo <=> (addr.lsb \div 1) % 2 = 1
  BY DEF IsIo, Bit
<1>6. /\ b.kind \in Mappable
      /\ b.kind = "io" => a = b.addr
  BY UnitOf
<1> HIDE DEF b, f, a
<1>7. CASE b.kind = "io"
  <2>1. (a + 1) \div 4 = a \div 4 /\ ((a + 1) \div 1) % 2 = 1
    BY <1>1, <1>3, <1>7
  <2>2. TakenFor64(b) <=> (a \div 4) % 2 = 1
    BY <1>6, <1>7 DEF TakenFor64, Bit
  <2> QED
    BY <1>1, <1>2, <1>4, <1>5, <1>7, <2>1, <2>2 DEF b
<1>8. CASE b.kind = "mem32"
  <2>1. /\ ((a + 0) \div 4) % 2 = 0 /\ ((a + 0) \div 1) % 2 = 0
        /\ ((a + 8) \div 4) % 2 = 0 /\ ((a + 8) \div 1) % 2 = 0
    BY <1>1, <1>3, <1>8
  <2>2. addr.lsb = a + 0 \/ addr.lsb = a + 8
    BY <1>1, <1>2, <1>8
  <2>3. (addr.lsb \div 4) % 2 = 0 /\ (addr.lsb \div 1) % 2 = 0
    BY <2>1, <2>2
  <2> QED
    BY <1>4, <1>5, <1>8, <2>3 DEF b, TakenFor64
<1>9. CASE b.kind = "mem64"
  <2>1. /\ ((a + 4) \div 4) % 2 = 1 /\ ((a + 4) \div 1) % 2 = 0
        /\ ((a + 12) \div 4) % 2 = 1 /\ ((a + 12) \div 1) % 2 = 0
    BY <1>1, <1>3, <1>9
  <2>2. addr.lsb = a + 4 \/ addr.lsb = a + 12
    BY <1>1, <1>2, <1>9
  <2>3. (addr.lsb \div 4) % 2 = 1 /\ (addr.lsb \div 1) % 2 = 0
    BY <2>1, <2>2
  <2> QED
    BY <1>4, <1>5, <1>9, <2>3 DEF b, TakenFor64
<1> QED
  BY <1>6, <1>7, <1>8, <1>9 DEF Mappable

(* The low bits that main masks are exactly the flags. *)
LEMMA Masked ==
  ASSUME hw \in Hardware, NEW j \in BarNo, hw.bars[j].kind \in Mappable,
         NEW v \in Nat, v % Align(hw.bars[j]) = 0
  PROVE  Clear(v + Flags(hw.bars[j]), IF hw.bars[j].kind = "io" THEN 4 ELSE 16) = v
<1> DEFINE b == hw.bars[j]
           f == Flags(b)
<1>1. f \in 0..(Align(b) - 1) /\ (b.kind = "io" => f = 1)
  BY Machine, FlagsOf
<1>2. Align(b) = IF b.kind = "io" THEN 4 ELSE 16
  BY DEF Align
<1>3. v % Align(b) = 0
  OBVIOUS
<1> HIDE DEF b, f
<1>4. CASE b.kind = "io"
  <2>1. v % 4 = 0 /\ (v + 1) % 4 = 1
    BY <1>2, <1>3, <1>4
  <2> QED
    BY <1>1, <1>4, <2>1 DEF Clear, b, f
<1>5. CASE b.kind # "io"
  BY <1>1, <1>2, <1>3, <1>5 DEF Clear, b, f
<1> QED
  BY <1>4, <1>5

(* map_pci_bar computes the address the machine gave to the BAR, ... *)
LEMMA AddressRead ==
  ASSUME hw \in Hardware, idx \in BarNo, hw.bars[idx].kind \in Mappable,
         ~TakenFor64(hw.bars[idx]), addr.lsb = Assigned(idx),
         hw.bars[idx].kind = "mem64" => addr.msb = Assigned(idx + 1)
  PROVE  bar_addr = hw.bars[idx].addr
<1> DEFINE b == hw.bars[idx]
           a == b.addr % Full
<1>1. Full \in Nat \ {0} /\ b.addr \in Nat
  BY PciAssumption, Machine
<1>2. a \in Nat /\ a % Align(b) = 0 /\ addr.lsb = a + Flags(b)
  BY <1>1, LowRegister, UnitOf
<1>3. Clear(addr.lsb, IF b.kind = "io" THEN 4 ELSE 16) = a
  BY <1>2, Masked
<1>4. CASE b.kind = "mem64"
  <2>1. bar_addr = (b.addr \div Full) * Full + a
    BY <1>3, <1>4, KindRead, HighRegister DEF bar_addr
  <2> HIDE DEF b
  <2>2. b.addr = Full * (b.addr \div Full) + a /\ b.addr \div Full \in Nat
    BY <1>1, Division
  <2>3. (b.addr \div Full) * Full = Full * (b.addr \div Full)
    BY <1>1, <2>2
  <2> QED
    BY <2>1, <2>2, <2>3 DEF b
<1>5. CASE b.kind # "mem64"
  <2>1. a = b.addr
    BY <1>5, UnitOf
  <2> QED
    BY <1>3, <1>5, <2>1, KindRead DEF bar_addr
<1> QED
  BY <1>4, <1>5

(* ... unless it takes an I/O BAR for a 64-bit one, ... *)
LEMMA AddressTaken ==
  ASSUME hw \in Hardware, idx \in BarNo, hw.bars[idx].kind \in Mappable,
         TakenFor64(hw.bars[idx]), addr.lsb = Assigned(idx), addr.msb \in Nat
  PROVE  bar_addr # hw.bars[idx].addr
<1> DEFINE b == hw.bars[idx]
           h == addr.msb * Full
<1>1. Full \in Nat \ {0} /\ Full % 16 = 0 /\ b.addr \in Nat
  BY PciAssumption, Machine
<1>2. b.kind = "io" /\ (b.addr \div 4) % 2 = 1
  BY DEF TakenFor64, Bit
<1>3. addr.lsb \in Nat
  <2>1. Assigned(idx) \in 0..(Full - 1)
    BY LowRegister
  <2> QED
    BY <1>1, <2>1
<1>4. h \in Nat /\ h % 16 = 0
  <2>1. (Full * addr.msb) % 16 = 0 /\ Full * addr.msb = h
    BY <1>1, Multiples
  <2> QED
    BY <1>1, <2>1
<1>5. bar_addr = h + Clear(addr.lsb, 16)
  BY KindRead DEF bar_addr
<1> HIDE DEF h, b
<1>6. Clear(addr.lsb, 16) \in Nat /\ Clear(addr.lsb, 16) % 16 = 0
  BY <1>3 DEF Clear
<1>7. bar_addr \in Nat /\ bar_addr % 16 = 0
  BY <1>4, <1>5, <1>6
<1>8. (bar_addr \div 4) % 2 = 0
  BY <1>7
<1> QED
  BY <1>2, <1>8 DEF b

(* ... and its size. *)
LEMMA SizeRead ==
  ASSUME hw \in Hardware, idx \in BarNo, hw.bars[idx].kind \in Mappable,
         ~TakenFor64(hw.bars[idx]), addr.lsb = Assigned(idx), size.lsb = Written(idx, Full - 1),
         hw.bars[idx].kind = "mem64" => size.msb = Written(idx + 1, Full - 1)
  PROVE  bar_size = hw.bars[idx].size
<1> DEFINE b == hw.bars[idx]
           s == b.size
           u == Unit(b)
           d == Align(b)
<1>1. Full \in Nat \ {0} /\ s \in Nat \ {0}
  BY PciAssumption, Machine
<1>2. /\ u \in Nat \ {0} /\ u <= Full /\ Full % d = 0 /\ u % d = 0
      /\ u = IF s < Full THEN s ELSE Full
  BY UnitOf DEF Unit, Lower
<1>3. (Full - u) % d = 0 /\ Full - u \in Nat
  BY <1>1, <1>2, Difference DEF Align
<1>4. Clear(size.lsb, IF b.kind = "io" THEN 4 ELSE 16) = Full - u
  <2>1. size.lsb = (Full - u) + Flags(b)
    BY LowRegister
  <2> QED
    BY <1>3, <2>1, Masked
<1>5. CASE b.kind = "mem64"
  <2> DEFINE w == UnitAbove(b)
  <2>1. bar_size = Complement((Full - w) * Full + (Full - u), Full * Full)
    BY <1>4, <1>5, KindRead, HighRegister DEF bar_size
  <2>2. w \in Nat \ {0} /\ w * Full = (IF s > Full THEN s ELSE Full)
    BY <1>5, UnitAboveOf
  <2>3. s < Full * Full
    <3>1. b.addr \in Nat /\ b.addr + s < Full * Full
      BY <1>5, Machine
    <3> QED
      BY <1>1, <3>1
  <2> HIDE DEF s, u, w, b
  <2>4. (Full - w) * Full = Full * Full - w * Full
    BY <1>1, <2>2
  <2> DEFINE full == Full * Full
             high == w * Full
  <2>5. full \in Nat /\ high \in Nat
    BY <1>1, <2>2
  <2>6. bar_size = (full - ((full - high) + (Full - u))) % full
    BY <2>1, <2>4 DEF Complement
  <2>7. high = (IF s > Full THEN s ELSE Full) /\ s < full
    BY <2>2, <2>3
  <2> HIDE DEF full, high
  <2>8. full - ((full - high) + (Full - u)) = s
    BY <1>1, <1>2, <2>5, <2>7
  <2>9. s % full = s
    BY <1>1, <2>5, <2>7
  <2> QED
    BY <2>6, <2>8, <2>9 DEF s, b
<1>6. CASE b.kind # "mem64"
  <2>1. u = s
    BY <1>6, UnitOf
  <2>2. s < Full
    <3>1. b.addr \in Nat /\ b.addr + s < Full
      BY <1>6, Machine
    <3> QED
      BY <1>1, <3>1
  <2>3. bar_size = Complement(Full - s, Full)
    BY <1>4, <1>6, <2>1, KindRead DEF bar_size
  <2> HIDE DEF s, b
  <2>4. Complement(Full - s, Full) = s
    BY <1>1, <2>2 DEF Complement
  <2> QED
    BY <2>3, <2>4 DEF s, b
<1> QED
  BY <1>5, <1>6

(* What it computes are numbers in any case. *)
LEMMA Computed ==
  ASSUME addr \in Half, size \in Half
  PROVE  bar_addr \in Nat /\ bar_size \in Nat
<1>1. Full \in Nat \ {0}
  BY PciAssumption
<1>2. /\ addr.lsb \in Nat /\ addr.msb \in Nat /\ size.lsb \in Nat /\ size.msb \in Nat
  BY <1>1 DEF Half
<1>3. \A v \in Nat : Clear(v, 16) \in Nat /\ Clear(v, 4) \in Nat
  BY DEF Clear
<1>4. ASSUME NEW v \in Nat, NEW m \in Nat \ {0}
      PROVE  Complement(v, m) \in Nat
  BY <1>4 DEF Complement
<1>5. /\ Full * Full \in Nat \ {0}
      /\ addr.msb * Full \in Nat /\ size.msb * Full \in Nat
  BY <1>1, <1>2
<1>6. bar_addr \in Nat
  BY <1>2, <1>3, <1>5 DEF bar_addr
<1>7. bar_size \in Nat
  <2>1. size.msb * Full + Clear(size.lsb, 16) \in Nat
    BY <1>2, <1>3, <1>5
  <2>2. Complement(size.msb * Full + Clear(size.lsb, 16), Full * Full) \in Nat
    BY <1>4, <1>5, <2>1
  <2>3. /\ Complement(Clear(size.lsb, 4), Full) \in Nat
        /\ Complement(Clear(size.lsb, 16), Full) \in Nat
    BY <1>1, <1>2, <1>3, <1>4
  <2> QED
    BY <2>2, <2>3 DEF bar_size
<1> QED
  BY <1>6, <1>7

(* Every register, also one that main takes for something else, is a register of
   its width, and gets its address back when main writes it back. *)
LEMMA AnyRegister ==
  ASSUME hw \in Hardware, NEW j \in BarNo
  PROVE  /\ Assigned(j) \in 0..(Full - 1) /\ Written(j, Full - 1) \in 0..(Full - 1)
         /\ Written(j, Assigned(j)) = Assigned(j)
<1>1. hw.bars[j].kind \in Kind
  BY PciAssumption
<1>2. CASE hw.bars[j].kind \in Mappable
  BY <1>2, LowRegister
<1>3. CASE hw.bars[j].kind = "none"
  BY <1>3, PciAssumption DEF Assigned, Written
<1>4. CASE hw.bars[j].kind = "high"
  <2>1. j - 1 \in BarNo /\ hw.bars[j - 1].kind = "mem64"
    BY <1>4, PciAssumption
  <2>2. (j - 1) + 1 = j
    BY DEF BarNo
  <2> QED
    BY <2>1, <2>2, HighRegister
<1> QED
  BY <1>1, <1>2, <1>3, <1>4 DEF Kind, Mappable

-----------------------------------------------------------------------------
(* Which registers hold their address, and when the device may answer. *)
Registers ==
  /\ at = "back" => reg[idx] = Written(idx, Full - 1)
  /\ at = "back_hi" => reg[idx + 1] = Written(idx + 1, Full - 1)
  /\ at # "stopped" =>
       \A j \in BarNo : \/ reg[j] = Assigned(j)
                        \/ at = "back" /\ j = idx
                        \/ at = "back_hi" /\ j = idx + 1
  /\ at \in {"ones", "back", "ones_hi", "back_hi", "on"} => ~decode
  /\ at \in {"attach", "caps", "id", "msix", "icu", "dma", "ready"} => decode
  /\ at \notin {"find", "off", "stopped"} => master

(* What map_pci_bar has read so far. *)
ReadSoFar ==
  /\ at \in {"back", "ones_hi", "back_hi", "on", "attach"} => addr.lsb = Assigned(idx)
  /\ at \in {"ones_hi", "back_hi", "on", "attach"} => size.lsb = Written(idx, Full - 1)
  /\ at = "back_hi" => addr.msb = Assigned(idx + 1)
  /\ at \in {"on", "attach"} /\ Is64 =>
       addr.msb = Assigned(idx + 1) /\ size.msb = Written(idx + 1, Full - 1)

(* First BAR 0, then MSI-X, then the table's BAR, then the rest. *)
InOrder ==
  /\ idx \in {0, hw.bir}
  /\ at \in {"off", "ones", "back", "ones_hi", "back_hi", "on", "attach"} =>
       idx = IF msix THEN hw.bir ELSE 0
  /\ at \in {"find", "caps", "id", "msix"} => ~msix
  /\ at \in {"icu", "dma", "ready"} => msix /\ region[hw.bir] # Nothing
  /\ msix /\ at # "stopped" => hw.table_size >= 9
  /\ at \in {"caps", "id", "msix"} \/ (msix /\ at # "stopped") => region[0] # Nothing
  /\ at = "ready" => bound

(* pci_get_dev so far: if what it has read last, or has not read, says adapter, the
   child it has passed last is the one it would return. *)
LastAdapter ==
  /\ id_reg = "mlx" => dev = child
  /\ at # "find" => child = Len(hw.vbus)
  /\ (\E j \in BarNo : region[j] # Nothing) => at # "find"

PciInv ==
  /\ PciTypeOK /\ Registers /\ ReadSoFar /\ InOrder /\ LastAdapter
  /\ OnlyAddressesDecoded /\ RegionIsBar /\ AdapterFound

(* There is a register behind the BAR that main is at. *)
LEMMA AtBar ==
  ASSUME PciInv
  PROVE  /\ hw \in Hardware /\ idx \in BarNo /\ hw.bir \in BarNo /\ 0 \in BarNo
         /\ idx + 1 \in BarNo /\ idx + 1 # idx
<1>1. /\ hw \in Hardware /\ idx \in BarNo /\ idx \in {0, hw.bir} /\ 0 \in BarNo
  BY DEF PciInv, PciTypeOK, InOrder, BarNo
<1>2. hw.bir \in 0..5
  BY <1>1, PciAssumption
<1> QED
  BY <1>1, <1>2 DEF BarNo

LEMMA SameAdapter ==
  ASSUME PciInv, UNCHANGED <<hw, find_vars, region>>, at # "find", at' # "find"
  PROVE  LastAdapter' /\ RegionIsBar' /\ AdapterFound'
BY DEF PciInv, LastAdapter, RegionIsBar, AdapterFound, find_vars

(* Sizing a BAR: the spaces are off, a register is written and read, written
   back, and at the end the spaces are on again. *)
LEMMA MapStep ==
  ASSUME PciInv,
         \/ SpacesOff \/ SizeLow \/ RestoreLow \/ SizeHigh \/ RestoreHigh \/ SpacesOn
  PROVE  PciInv'
<1>1. /\ LastAdapter' /\ RegionIsBar' /\ AdapterFound'
      /\ UNCHANGED <<hw, child, dev, id_reg, idx, region, cap, msix, bound>>
  <2>1. /\ at # "find" /\ at' # "find"
        /\ UNCHANGED <<hw, find_vars, idx, region, cap, msix, bound>>
    BY DEF SpacesOff, SizeLow, RestoreLow, SizeHigh, RestoreHigh, SpacesOn, Ones,
           Back, Access
  <2> QED
    BY <2>1, SameAdapter DEF find_vars
<1>2. hw \in Hardware /\ idx \in BarNo /\ idx + 1 \in BarNo /\ idx + 1 # idx
  BY AtBar
<1>3. /\ Assigned(idx) \in 0..(Full - 1) /\ Written(idx, Full - 1) \in 0..(Full - 1)
      /\ Written(idx, Assigned(idx)) = Assigned(idx)
  BY <1>2, AnyRegister
<1>4. /\ Assigned(idx + 1) \in 0..(Full - 1)
      /\ Written(idx + 1, Full - 1) \in 0..(Full - 1)
      /\ Written(idx + 1, Assigned(idx + 1)) = Assigned(idx + 1)
  BY <1>2, AnyRegister
<1>5. \A j, v : Assigned(j)' = Assigned(j) /\ Written(j, v)' = Written(j, v)
  BY <1>1 DEF Assigned, Written
<1>6. /\ PciTypeOK /\ Registers /\ ReadSoFar /\ InOrder /\ OnlyAddressesDecoded
  BY DEF PciInv
<1>7. CASE SpacesOff
  <2>1. /\ at = "off" /\ at' = "ones" /\ decode' = FALSE /\ master' = TRUE
        /\ UNCHANGED <<reg, addr, size>>
    BY <1>7 DEF SpacesOff, DecodeOff, Access
  <2>2. PciTypeOK'
    BY <1>1, <1>6, <2>1 DEF PciTypeOK
  <2>3. Registers' /\ OnlyAddressesDecoded'
    BY <1>1, <1>5, <1>6, <2>1 DEF Registers, OnlyAddressesDecoded
  <2>4. ReadSoFar' /\ InOrder'
    BY <1>1, <1>6, <2>1 DEF ReadSoFar, InOrder
  <2> QED
    BY <1>1, <2>2, <2>3, <2>4 DEF PciInv
<1>8. CASE SizeLow
  <2>1. /\ at = "ones" /\ at' = "back" /\ addr' = [addr EXCEPT !["lsb"] = reg[idx]]
        /\ reg' = [reg EXCEPT ![idx] = Written(idx, Full - 1)]
        /\ UNCHANGED <<decode, master, size>>
    BY <1>8 DEF SizeLow, Ones, Access
  <2>2. reg[idx] = Assigned(idx) /\ ~decode
    BY <1>2, <1>6, <2>1 DEF Registers
  <2>3. PciTypeOK'
    BY <1>1, <1>2, <1>3, <1>6, <2>1, <2>2 DEF PciTypeOK, Half
  <2>4. Registers' /\ OnlyAddressesDecoded'
    BY <1>1, <1>2, <1>5, <1>6, <2>1, <2>2 DEF Registers, OnlyAddressesDecoded, PciTypeOK
  <2>5. ReadSoFar' /\ InOrder'
    BY <1>1, <1>5, <1>6, <2>1, <2>2 DEF ReadSoFar, InOrder, PciTypeOK, Half
  <2> QED
    BY <1>1, <2>3, <2>4, <2>5 DEF PciInv
<1>9. CASE RestoreLow
  <2>1. /\ at = "back" /\ at' = (IF Is64 THEN "ones_hi" ELSE "on")
        /\ size' = [size EXCEPT !["lsb"] = reg[idx]]
        /\ reg' = [reg EXCEPT ![idx] = Written(idx, addr.lsb)]
        /\ UNCHANGED <<decode, master, addr>>
    BY <1>9 DEF RestoreLow, Back, Access
  <2>2. /\ reg[idx] = Written(idx, Full - 1) /\ ~decode
        /\ addr.lsb = Assigned(idx)
    BY <1>6, <2>1 DEF Registers, ReadSoFar
  <2>3. Is64' <=> Is64
    BY <2>1 DEF Is64
  <2>4. PciTypeOK'
    BY <1>1, <1>2, <1>3, <1>6, <2>1, <2>2 DEF PciTypeOK, Half
  <2>5. Registers' /\ OnlyAddressesDecoded'
    BY <1>1, <1>2, <1>3, <1>5, <1>6, <2>1, <2>2
    DEF Registers, OnlyAddressesDecoded, PciTypeOK
  <2>6. at' = "on" => ~Is64
    BY <2>1
  <2>7. ReadSoFar' /\ InOrder'
    BY <1>1, <1>5, <1>6, <2>1, <2>2, <2>3, <2>6 DEF ReadSoFar, InOrder, PciTypeOK, Half
  <2> QED
    BY <1>1, <2>4, <2>5, <2>7 DEF PciInv
<1>10. CASE SizeHigh
  <2>1. /\ at = "ones_hi" /\ at' = "back_hi"
        /\ addr' = [addr EXCEPT !["msb"] = reg[idx + 1]]
        /\ reg' = [reg EXCEPT ![idx + 1] = Written(idx + 1, Full - 1)]
        /\ UNCHANGED <<decode, master, size>>
    BY <1>10 DEF SizeHigh, Ones, Access
  <2>2. reg[idx + 1] = Assigned(idx + 1) /\ ~decode
    BY <1>2, <1>6, <2>1 DEF Registers
  <2>3. PciTypeOK'
    BY <1>1, <1>2, <1>4, <1>6, <2>1, <2>2 DEF PciTypeOK, Half
  <2>4. Registers' /\ OnlyAddressesDecoded'
    BY <1>1, <1>2, <1>5, <1>6, <2>1, <2>2 DEF Registers, OnlyAddressesDecoded, PciTypeOK
  <2>5. ReadSoFar' /\ InOrder'
    BY <1>1, <1>5, <1>6, <2>1, <2>2 DEF ReadSoFar, InOrder, PciTypeOK, Half
  <2> QED
    BY <1>1, <2>3, <2>4, <2>5 DEF PciInv
<1>11. CASE RestoreHigh
  <2>1. /\ at = "back_hi" /\ at' = "on"
        /\ size' = [size EXCEPT !["msb"] = reg[idx + 1]]
        /\ reg' = [reg EXCEPT ![idx + 1] = Written(idx + 1, addr.msb)]
        /\ UNCHANGED <<decode, master, addr>>
    BY <1>11 DEF RestoreHigh, Back, Access
  <2>2. /\ addr.msb = Assigned(idx + 1) /\ ~decode
        /\ reg[idx + 1] = Written(idx + 1, Full - 1)
    BY <1>6, <2>1 DEF Registers, ReadSoFar
  <2>3. PciTypeOK'
    BY <1>1, <1>2, <1>4, <1>6, <2>1, <2>2 DEF PciTypeOK, Half
  <2>4. Registers' /\ OnlyAddressesDecoded'
    BY <1>1, <1>2, <1>4, <1>5, <1>6, <2>1, <2>2
    DEF Registers, OnlyAddressesDecoded, PciTypeOK
  <2>5. ReadSoFar' /\ InOrder'
    BY <1>1, <1>5, <1>6, <2>1, <2>2 DEF ReadSoFar, InOrder, PciTypeOK, Half
  <2> QED
    BY <1>1, <2>3, <2>4, <2>5 DEF PciInv
<1>12. CASE SpacesOn
  <2>1. /\ at = "on" /\ at' = "attach" /\ decode' = TRUE
        /\ UNCHANGED <<master, reg, addr, size>>
    BY <1>12 DEF SpacesOn, Access
  <2>2. PciTypeOK'
    BY <1>1, <1>6, <2>1 DEF PciTypeOK
  <2>3. Registers' /\ OnlyAddressesDecoded'
    BY <1>1, <1>5, <1>6, <2>1 DEF Registers, OnlyAddressesDecoded
  <2>4. ReadSoFar' /\ InOrder'
    BY <1>1, <1>5, <1>6, <2>1 DEF ReadSoFar, InOrder, Is64
  <2> QED
    BY <1>1, <2>2, <2>3, <2>4 DEF PciInv
<1> QED
  BY <1>7, <1>8, <1>9, <1>10, <1>11, <1>12

(* l4_round_page, on a size that is not 0. *)
LEMMA Rounded ==
  ASSUME NEW n \in Nat \ {0}
  PROVE  RoundPage(n) \in Nat /\ n <= RoundPage(n) /\ RoundPage(n) < n + PageSize
<1> DEFINE v == n + PageSize - 1
<1>1. PageSize \in Nat \ {0} /\ v \in Nat
  BY PciAssumption
<1>2. v % PageSize \in 0..(PageSize - 1) /\ v % PageSize <= v
  BY <1>1
<1> QED
  BY <1>1, <1>2 DEF RoundPage, Clear

(* What is attached is the BAR. *)
LEMMA AttachStep ==
  ASSUME PciInv, Attach
  PROVE  PciInv'
<1> DEFINE b == hw.bars[idx]
           r == [start |-> bar_addr, size |-> RoundPage(bar_size)]
<1>1. /\ hw \in Hardware /\ idx \in BarNo /\ hw.bir \in BarNo /\ 0 \in BarNo
  BY AtBar
<1>2. PciTypeOK /\ Registers /\ ReadSoFar /\ InOrder /\ LastAdapter /\ RegionIsBar
      /\ AdapterFound
  BY DEF PciInv
<1>3. /\ at = "attach" /\ at' = (IF msix THEN "icu" ELSE "caps")
      /\ region' = [region EXCEPT ![idx] = r]
      /\ UNCHANGED <<hw, child, dev, id_reg, decode, master, reg, idx, addr, size, cap,
                     msix, bound>>
  BY DEF Attach, Access, find_vars
<1>4. ASSUME b.kind \in Mappable
      PROVE  IF TakenFor64(b) THEN bar_addr # b.addr
             ELSE bar_addr = b.addr /\ bar_size = b.size
  <2>1. /\ addr.lsb = Assigned(idx) /\ size.lsb = Written(idx, Full - 1)
        /\ Is64 => /\ addr.msb = Assigned(idx + 1)
                   /\ size.msb = Written(idx + 1, Full - 1)
    BY <1>2, <1>3 DEF ReadSoFar
  <2>2. Is64 <=> b.kind = "mem64" \/ TakenFor64(b)
    BY <1>1, <1>4, <2>1, KindRead
  <2>3. CASE TakenFor64(b)
    <3>1. addr.msb \in Nat
      BY <1>2, PciAssumption DEF PciTypeOK, Half
    <3> QED
      BY <1>1, <1>4, <2>1, <2>3, <3>1, AddressTaken
  <2>4. CASE ~TakenFor64(b)
    BY <1>1, <1>4, <2>1, <2>2, <2>4, AddressRead, SizeRead
  <2> QED
    BY <2>3, <2>4
<1>5. bar_addr \in Nat /\ bar_size \in Nat \ {0}
  BY <1>2, Computed DEF Attach, PciTypeOK
<1>6. /\ r \in [start : Nat, size : Nat] /\ r # Nothing
      /\ r.start = bar_addr /\ bar_size <= r.size /\ r.size < bar_size + PageSize
  <2>1. /\ RoundPage(bar_size) \in Nat /\ bar_size <= RoundPage(bar_size)
        /\ RoundPage(bar_size) < bar_size + PageSize
    BY <1>5, Rounded
  <2>2. r.size # 0 /\ r.size = RoundPage(bar_size) /\ r.start = bar_addr
    BY <1>5, <2>1
  <2> QED
    BY <1>5, <2>1, <2>2 DEF Nothing
<1>7. /\ \A j \in BarNo : j # idx => region'[j] = region[j]
      /\ region'[idx] = r /\ region' \in [BarNo -> [start : Nat, size : Nat]]
  BY <1>1, <1>2, <1>3, <1>6 DEF PciTypeOK
<1> HIDE DEF r
<1>8. PciTypeOK'
  BY <1>2, <1>3, <1>7 DEF PciTypeOK
<1>9. \A j, v : Assigned(j)' = Assigned(j) /\ Written(j, v)' = Written(j, v)
  BY <1>3 DEF Assigned, Written
<1>10. Registers' /\ OnlyAddressesDecoded' /\ ReadSoFar'
  BY <1>2, <1>3, <1>9 DEF Registers, OnlyAddressesDecoded, ReadSoFar
<1>11. InOrder'
  <2>1. region'[hw.bir] = r \/ region'[hw.bir] = region[hw.bir]
    BY <1>1, <1>7
  <2>2. CASE msix
    BY <1>1, <1>2, <1>3, <1>6, <1>7, <2>2 DEF InOrder
  <2>3. CASE ~msix
    BY <1>1, <1>2, <1>3, <1>6, <1>7, <2>3 DEF InOrder
  <2> QED
    BY <2>2, <2>3
<1>12. LastAdapter' /\ AdapterFound'
  BY <1>2, <1>3 DEF LastAdapter, AdapterFound
<1>13. RegionIsBar'
  <2>1. ASSUME NEW j \in BarNo, region'[j] # Nothing, hw.bars[j].kind \in Mappable
        PROVE  LET c == hw.bars[j] IN
               IF TakenFor64(c) THEN region'[j].start # c.addr
               ELSE /\ region'[j].start = c.addr
                    /\ c.size <= region'[j].size /\ region'[j].size < c.size + PageSize
    <3>1. CASE j = idx
      BY <1>4, <1>6, <1>7, <2>1, <3>1
    <3>2. CASE j # idx
      BY <1>2, <1>7, <2>1, <3>2 DEF RegionIsBar
    <3> QED
      BY <3>1, <3>2
  <2>2. hw' = hw
    BY <1>3
  <2> QED
    BY <2>1, <2>2 DEF RegionIsBar
<1> QED
  BY <1>8, <1>10, <1>11, <1>12, <1>13 DEF PciInv

(* Between the BARs and after them. *)
LEMMA RestStep ==
  ASSUME PciInv,
         \/ AttachFails \/ NoList \/ NextCap \/ ReadCap \/ EnableMsix
         \/ GetIcu \/ BindDma \/ NoDma \/ SetupThrows
  PROVE  PciInv'
<1>1. /\ hw \in Hardware /\ idx \in BarNo /\ hw.bir \in BarNo /\ 0 \in BarNo
  BY AtBar
<1>2. PciTypeOK /\ Registers /\ ReadSoFar /\ InOrder /\ OnlyAddressesDecoded
  BY DEF PciInv
<1>3. /\ LastAdapter' /\ RegionIsBar' /\ AdapterFound' /\ at' # "find"
      /\ UNCHANGED <<hw, child, dev, id_reg, decode, master, reg, addr, size, region>>
  <2>1. /\ at # "find" /\ at' # "find" /\ UNCHANGED <<hw, find_vars, region>>
        /\ UNCHANGED <<decode, master, reg, addr, size>>
    BY DEF AttachFails, NoList, NextCap, ReadCap, EnableMsix, GetIcu, BindDma, NoDma,
           SetupThrows, Access, bar_vars
  <2> QED
    BY <2>1, SameAdapter DEF find_vars
<1>4. \A j, v : Assigned(j)' = Assigned(j) /\ Written(j, v)' = Written(j, v)
  BY <1>3 DEF Assigned, Written
<1>5. ASSUME at \in {"attach", "caps", "id", "msix", "icu", "dma"},
             at' \in {"off", "caps", "id", "msix", "icu", "dma", "ready", "stopped"}
      PROVE  Registers' /\ OnlyAddressesDecoded' /\ ReadSoFar'
  BY <1>2, <1>3, <1>4, <1>5 DEF Registers, OnlyAddressesDecoded, ReadSoFar
<1>6. CASE NextCap
  <2>1. at = "caps" /\ at' = "id" /\ UNCHANGED <<idx, msix, bound>>
    BY <1>6 DEF NextCap, Access, bar_vars
  <2>2. cap' \in 0..Len(hw.caps)
    <3>1. Len(hw.caps) \in Nat /\ hw.loop \in 0..Len(hw.caps)
      BY <1>1, PciAssumption
    <3> QED
      BY <1>2, <1>6, <3>1 DEF NextCap, PciTypeOK
  <2>3. PciTypeOK' /\ InOrder'
    BY <1>2, <1>3, <2>1, <2>2 DEF PciTypeOK, InOrder
  <2> QED
    BY <1>3, <1>5, <2>1, <2>3 DEF PciInv
<1>7. CASE AttachFails \/ NoList \/ ReadCap
  <2>1. /\ \/ at \in {"attach", "caps"} /\ at' = "stopped"
           \/ at = "id" /\ at' \in {"caps", "msix", "stopped"}
        /\ UNCHANGED <<idx, cap, msix, bound>>
    BY <1>7 DEF AttachFails, NoList, ReadCap, Access, bar_vars
  <2>2. PciTypeOK' /\ InOrder'
    BY <1>2, <1>3, <2>1 DEF PciTypeOK, InOrder
  <2> QED
    BY <1>3, <1>5, <2>1, <2>2 DEF PciInv
<1>8. CASE EnableMsix
  <2>1. /\ at = "msix" /\ msix' = TRUE /\ UNCHANGED <<cap, bound>>
        /\ at' = (IF ~EnoughVectors THEN "stopped" ELSE IF OwnBar THEN "off" ELSE "icu")
        /\ idx' = IF OwnBar THEN hw.bir ELSE idx
    BY <1>8 DEF EnableMsix, Access
  <2>2. OwnBar <=> hw.bir # 0
    BY DEF OwnBar
  <2>3. EnoughVectors => hw.table_size >= 9
    <3>1. hw.table_size \in Nat
      BY <1>1, PciAssumption
    <3> QED
      BY <3>1 DEF EnoughVectors
  <2>4. PciTypeOK'
    BY <1>1, <1>2, <1>3, <2>1 DEF PciTypeOK
  <2>5. InOrder'
    BY <1>2, <1>3, <2>1, <2>2, <2>3 DEF InOrder
  <2> QED
    BY <1>3, <1>5, <2>1, <2>4, <2>5 DEF PciInv
<1>9. CASE GetIcu \/ BindDma \/ NoDma
  <2>1. /\ \/ at = "icu" /\ at' = "dma" /\ bound' = bound
           \/ at = "dma" /\ at' = "ready" /\ bound' = TRUE
           \/ at = "dma" /\ at' = "stopped" /\ bound' = bound
        /\ UNCHANGED <<idx, cap, msix>>
    BY <1>9 DEF GetIcu, BindDma, NoDma, Access, bar_vars
  <2>2. PciTypeOK' /\ InOrder'
    BY <1>2, <1>3, <2>1 DEF PciTypeOK, InOrder
  <2> QED
    BY <1>3, <1>5, <2>1, <2>2 DEF PciInv
<1>10. CASE SetupThrows
  <2>1. at' = "stopped" /\ UNCHANGED <<idx, cap, msix, bound>>
    BY <1>10 DEF SetupThrows, bar_vars
  <2>2. PciTypeOK' /\ InOrder'
    BY <1>2, <1>3, <2>1 DEF PciTypeOK, InOrder
  <2>3. Registers' /\ ReadSoFar'
    BY <1>2, <1>3, <2>1 DEF Registers, ReadSoFar
  <2>4. OnlyAddressesDecoded'
    BY <1>2, <1>3, <1>4 DEF OnlyAddressesDecoded
  <2> QED
    BY <1>3, <2>2, <2>3, <2>4 DEF PciInv
<1> QED
  BY <1>6, <1>7, <1>8, <1>9, <1>10

(* pci_get_dev. *)
LEMMA FindStep ==
  ASSUME PciInv, Find \/ Found
  PROVE  PciInv'
<1>1. hw \in Hardware /\ hw.vbus \in Seq({"mlx", "pci", "other"})
  BY AtBar, PciAssumption
<1>2. /\ Len(hw.vbus) \in Nat /\ DOMAIN hw.vbus = 1..Len(hw.vbus)
      /\ \A j \in 1..Len(hw.vbus) :
           /\ hw.vbus[j] \in {"mlx", "pci", "other"}
           /\ hw.vbus[j] = "other" => j \in hw.silent
  BY <1>1, PciAssumption
<1>3. /\ PciTypeOK /\ Registers /\ ReadSoFar /\ InOrder /\ LastAdapter
      /\ OnlyAddressesDecoded /\ RegionIsBar /\ AdapterFound
  BY DEF PciInv
<1>4. at = "find" /\ \A j \in BarNo : region[j] = Nothing
  BY <1>3 DEF Find, Found, LastAdapter
<1>5. UNCHANGED <<hw, decode, master, reg, addr, size, region, cap, msix, bound>>
  BY DEF Find, Found, bar_vars
<1>6. RegionIsBar'
  BY <1>3, <1>5 DEF RegionIsBar
<1>7. \A j, v : Assigned(j)' = Assigned(j) /\ Written(j, v)' = Written(j, v)
  BY <1>5 DEF Assigned, Written
<1>8. CASE Find
  <2>1. /\ child' = child + 1 /\ child' \in 1..Len(hw.vbus) /\ at' = at /\ idx' = idx
        /\ id_reg' = (IF child' \in hw.silent THEN id_reg ELSE hw.vbus[child'])
        /\ dev' = IF id_reg' = "mlx" THEN child' ELSE dev
    BY <1>2, <1>8 DEF Find, IsMellanox, bar_vars
  <2>2. child \in Nat /\ dev \in 0..child /\ id_reg \in {"mlx", "pci"}
    BY <1>2, <1>3 DEF PciTypeOK
  <2>3. id_reg' \in {"mlx", "pci"} /\ dev' \in 0..child'
    BY <1>2, <2>1, <2>2
  <2>4. PciTypeOK'
    BY <1>2, <1>3, <1>5, <2>1, <2>3 DEF PciTypeOK
  <2>5. Registers' /\ ReadSoFar' /\ InOrder' /\ OnlyAddressesDecoded'
    BY <1>3, <1>4, <1>5, <1>7, <2>1
    DEF Registers, ReadSoFar, InOrder, OnlyAddressesDecoded
  <2>6. LastAdapter'
    BY <1>4, <1>5, <2>1 DEF LastAdapter
  <2> DEFINE adapters == {j \in DOMAIN hw.vbus \ hw.silent : hw.vbus[j] = "mlx"}
  <2>7. adapters \subseteq Nat /\ 0 \notin adapters
    BY <1>2
  <2>8. PICK a \in adapters \cup {0} : a <= dev /\ (a + 1)..dev \subseteq hw.silent
    BY <1>3 DEF AdapterFound
  <2>9. \E b \in adapters \cup {0} : b <= dev' /\ (b + 1)..dev' \subseteq hw.silent
    <3>1. CASE child' \in adapters
      <4>1. dev' = child' /\ (child' + 1)..child' = {}
        BY <1>2, <2>1, <3>1
      <4> QED
        BY <1>2, <2>1, <3>1, <4>1
    <3>2. CASE child' \notin hw.silent /\ child' \notin adapters
      BY <1>2, <2>1, <2>8, <3>2
    <3>3. CASE child' \in hw.silent /\ id_reg # "mlx"
      BY <2>1, <2>8, <3>3
    <3>4. CASE child' \in hw.silent /\ id_reg = "mlx"
      <4>1. dev = child /\ dev' = child + 1 /\ a \in Nat
        BY <1>3, <2>1, <2>7, <3>4 DEF LastAdapter
      <4>2. (a + 1)..dev' \subseteq ((a + 1)..dev) \cup {child'} /\ a <= dev'
        BY <2>1, <2>2, <2>8, <4>1
      <4> QED
        BY <2>8, <3>4, <4>2
    <3> QED
      BY <1>2, <2>1, <3>1, <3>2, <3>3, <3>4
  <2>10. ASSUME NEW b \in adapters, b <= child'
         PROVE  b <= dev'
    <3>1. b <= child => b <= dev
      BY <1>3 DEF AdapterFound
    <3>2. dev <= dev' /\ b \in Nat
      BY <2>1, <2>2, <2>7
    <3>3. b = child' => dev' = child'
      BY <1>2, <2>1
    <3> QED
      BY <2>1, <2>2, <2>10, <3>1, <3>2, <3>3
  <2> HIDE DEF adapters
  <2>11. AdapterFound'
    BY <1>5, <2>9, <2>10 DEF AdapterFound, adapters
  <2> QED
    BY <1>6, <2>4, <2>5, <2>6, <2>11 DEF PciInv
<1>9. CASE Found
  <2>1. /\ child = Len(hw.vbus) /\ at' = "off" /\ idx' = 0
        /\ UNCHANGED <<child, dev, id_reg>>
    BY <1>9 DEF Found, find_vars
  <2>2. PciTypeOK'
    BY <1>3, <1>5, <2>1 DEF PciTypeOK, BarNo
  <2>3. Registers' /\ ReadSoFar' /\ InOrder' /\ OnlyAddressesDecoded'
    BY <1>3, <1>4, <1>5, <1>7, <2>1
    DEF Registers, ReadSoFar, InOrder, OnlyAddressesDecoded
  <2>4. LastAdapter' /\ AdapterFound'
    BY <1>3, <1>4, <1>5, <2>1 DEF LastAdapter, AdapterFound
  <2> QED
    BY <1>6, <2>2, <2>3, <2>4 DEF PciInv
<1> QED
  BY <1>8, <1>9

LEMMA PciInitInv ==
  ASSUME PciInit
  PROVE  PciInv
<1> USE DEF PciInit
<1>1. /\ Full \in Nat \ {0} /\ hw \in Hardware /\ hw.bir \in BarNo
      /\ Len(hw.vbus) \in Nat /\ Len(hw.caps) \in Nat
      /\ DOMAIN hw.vbus = 1..Len(hw.vbus)
  BY PciAssumption DEF BarNo
<1>2. ASSUME NEW j \in BarNo
      PROVE  Assigned(j) \in 0..(Full - 1)
  BY <1>1, AnyRegister
<1>3. reg \in [BarNo -> 0..(Full - 1)]
  BY <1>2
<1>4. PciTypeOK
  <2>1. 0 \in 0..(Full - 1)
    BY <1>1
  <2>2. addr \in Half /\ size \in Half
    BY <2>1 DEF Half
  <2>3. region \in [BarNo -> [start : Nat, size : Nat]]
    BY DEF Nothing
  <2>4. child \in 0..Len(hw.vbus) /\ dev \in 0..child /\ cap \in 0..Len(hw.caps)
    BY <1>1
  <2>5. at = "find" /\ id_reg \in {"mlx", "pci"} /\ idx \in BarNo
    BY DEF BarNo
  <2>6. /\ decode \in BOOLEAN /\ master \in BOOLEAN /\ msix \in BOOLEAN
        /\ bound \in BOOLEAN
    OBVIOUS
  <2> HIDE DEF PciInit
  <2> QED
    BY <1>1, <1>3, <2>2, <2>3, <2>4, <2>5, <2>6, Zenon DEF PciTypeOK
<1>5. \A j \in BarNo : region[j] = Nothing /\ reg[j] = Assigned(j)
  OBVIOUS
<1>6. /\ Registers /\ ReadSoFar /\ InOrder /\ OnlyAddressesDecoded /\ RegionIsBar
      /\ LastAdapter
  BY <1>1, <1>5
  DEF Registers, ReadSoFar, InOrder, OnlyAddressesDecoded, RegionIsBar, LastAdapter
<1>7. AdapterFound
  <2>1. dev = 0 /\ child = 0
    OBVIOUS
  <2> HIDE DEF PciInit
  <2>2. (0 + 1)..dev = {} /\ \A j \in DOMAIN hw.vbus : ~(j <= child)
    BY <1>1, <2>1
  <2> QED
    BY <2>1, <2>2 DEF AdapterFound
<1> QED
  BY <1>4, <1>6, <1>7 DEF PciInv

LEMMA PciStepInv ==
  ASSUME PciInv, [PciNext]_pci_vars
  PROVE  PciInv'
<1>1. CASE UNCHANGED pci_vars
  <2>1. /\ UNCHANGED <<hw, at, child, id_reg, dev, decode, master, reg, idx, addr, size,
                       region, cap, msix, bound>>
    BY <1>1 DEF pci_vars, find_vars, bar_vars
  <2>2. \A j, v : Assigned(j)' = Assigned(j) /\ Written(j, v)' = Written(j, v)
    BY <2>1 DEF Assigned, Written
  <2> QED
    BY <2>1, <2>2 DEF PciInv, PciTypeOK, Registers, ReadSoFar, InOrder, LastAdapter,
                      OnlyAddressesDecoded, RegionIsBar, AdapterFound, Is64
<1> QED
  BY <1>1, MapStep, AttachStep, RestStep, FindStep DEF PciNext

=============================================================================
