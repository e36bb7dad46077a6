--------------------------- MODULE NorFlashProofs ---------------------------
(***************************************************************************)
(* Lemmas about the serial NOR flash chip, for every chip the assumptions  *)
(* of NorFlash admit: what its commands change, and what it keeps.         *)
(***************************************************************************)
EXTENDS NorFlash, SequenceTheorems, WellFoundedInduction, TLAPS

-----------------------------------------------------------------------------
(* Arithmetic of digits, pages and sectors.                                *)

\* A number is its quotient and its remainder.
LEMMA DivMod ==
    ASSUME NEW n \in Nat, NEW u \in Nat \ {0}
    PROVE  /\ n \div u \in Nat /\ n % u \in 0 .. (u - 1)
           /\ n = u * (n \div u) + (n % u) /\ n % u <= n
    BY SMT

\* There is only one way to write a number as quotient and remainder.
LEMMA DivModUnique ==
    ASSUME NEW q \in Nat, NEW u \in Nat \ {0}, NEW r \in 0 .. (u - 1)
    PROVE  (u * q + r) \div u = q /\ (u * q + r) % u = r
    BY SMT

\* Dividing twice is dividing by the product.
LEMMA DivDiv ==
    ASSUME NEW n \in Nat, NEW u \in Nat \ {0}
    PROVE  n \div (u * u) = (n \div u) \div u
    <1> DEFINE q == n \div u
               r == n % u
               p == q \div u
               s == q % u
               t == u * s + r
    <1>1. q \in Nat /\ r \in 0 .. (u - 1) /\ n = u * q + r
      BY DivMod
    <1>2. p \in Nat /\ s \in 0 .. (u - 1) /\ q = u * p + s
      BY <1>1, DivMod
    <1> HIDE DEF q, r, p, s
    <1>3. u * u \in Nat \ {0}
      BY SMT
    <1>4. n = (u * u) * p + t
      BY <1>1, <1>2, SMT
    <1>5. t \in 0 .. (u * u - 1)
      <2>1. u * s <= u * (u - 1) /\ u * s \in Nat
        BY <1>2, SMT
      <2>2. u * (u - 1) = u * u - u
        BY SMT
      <2> QED BY <2>1, <2>2, <1>1, <1>3
    <1> HIDE DEF t
    <1>6. n \div (u * u) = p
      BY <1>3, <1>4, <1>5, <1>2, DivModUnique
    <1> QED BY <1>6 DEF p, q

LEMMA ChipFacts ==
    /\ Radix \in Nat \ {0} /\ ChipSize \in Nat \ {0}
    /\ EraseSize \in Nat \ {0} /\ PageSize \in Nat \ {0} /\ MaxFrame \in Nat
    <1>1. Radix \in Nat \ {0} /\ EraseSize \in Nat \ {0} /\ PageSize \in Nat \ {0}
            /\ MaxFrame \in Nat
      BY NorAssumption
    <1>2. Radix * Radix \in Nat \ {0}
      BY <1>1, SMT
    <1>3. Radix * Radix * Radix \in Nat \ {0}
      BY <1>1, <1>2, SMT
    <1> QED BY <1>1, <1>3 DEF ChipSize

\* The chip finds in a frame the address that was sent digit by digit.
LEMMA DigitsFacts ==
    ASSUME NEW addr \in Cell
    PROVE  /\ Digits(addr) \in Seq(Byte) /\ Len(Digits(addr)) = 3
           /\ Digits(addr)[1] * Radix * Radix + Digits(addr)[2] * Radix + Digits(addr)[3] = addr
    <1> DEFINE q == addr \div Radix
               h == q \div Radix
    <1>1. Radix \in Nat \ {0} /\ Radix <= 256 /\ addr \in Nat /\ addr < Radix * Radix * Radix
      BY ChipFacts, NorAssumption DEF Cell, ChipSize
    <1>2. q \in Nat /\ addr = Radix * q + (addr % Radix) /\ addr % Radix \in 0 .. (Radix - 1)
      BY <1>1, DivMod
    <1>3. h \in Nat /\ q = Radix * h + (q % Radix) /\ q % Radix \in 0 .. (Radix - 1)
      BY <1>1, <1>2, DivMod
    <1>4. addr \div (Radix * Radix) = h
      BY <1>1, DivDiv
    <1> HIDE DEF q, h
    <1>5. h < Radix
      <2> SUFFICES ASSUME h >= Radix PROVE FALSE
        BY <1>1, <1>3
      <2>1. Radix * h >= Radix * Radix
        BY <1>1, <1>3, SMT
      <2>2. q >= Radix * Radix
        BY <2>1, <1>1, <1>3
      <2>3. Radix * q >= Radix * (Radix * Radix)
        BY <2>2, <1>1, <1>2, SMT
      <2>4. Radix * (Radix * Radix) = Radix * Radix * Radix
        BY <1>1, SMT
      <2> QED BY <2>3, <2>4, <1>1, <1>2
    <1>6. h % Radix = h
      BY <1>1, <1>3, <1>5, SMT
    <1>7. Digits(addr) = <<h, q % Radix, addr % Radix>>
      BY <1>4, <1>6 DEF Digits, q
    <1>8. h \in Byte /\ q % Radix \in Byte /\ addr % Radix \in Byte
      BY <1>1, <1>2, <1>3, <1>5 DEF Byte
    <1>9. h * Radix * Radix + (q % Radix) * Radix + (addr % Radix) = addr
      <2>1. q * Radix = h * Radix * Radix + (q % Radix) * Radix
        BY <1>1, <1>3, SMT
      <2>2. Radix * q = q * Radix
        BY <1>1, <1>2, SMT
      <2> QED BY <2>1, <2>2, <1>2, <1>3, <1>1
    <1> QED BY <1>7, <1>8, <1>9

\* Two sequences of bytes put together.
LEMMA Joined ==
    ASSUME NEW s \in Seq(Byte), NEW t \in Seq(Byte)
    PROVE  /\ s \o t \in Seq(Byte) /\ Len(s \o t) = Len(s) + Len(t)
           /\ \A i \in 1 .. Len(s) : (s \o t)[i] = s[i]
           /\ \A i \in 1 .. Len(t) : (s \o t)[Len(s) + i] = t[i]
    <1>1. /\ s \o t \in Seq(Byte)
          /\ Len(s \o t) = Len(s) + Len(t)
          /\ \A i \in 1 .. Len(s) + Len(t) : (s \o t)[i] =
                     IF i <= Len(s) THEN s[i] ELSE t[i - Len(s)]
      BY ConcatProperties, Zenon
    <1> DEFINE m == Len(s)
               n == Len(t)
    <1>2. m \in Nat /\ n \in Nat
      OBVIOUS
    <1> DEFINE h == s \o t
    <1> HIDE DEF m, n, h
    <1>7. \A i \in 1 .. m + n : h[i] = IF i <= m THEN s[i] ELSE t[i - m]
      BY <1>1, Zenon DEF m, n, h
    <1>3. \A i \in 1 .. m : i \in 1 .. m + n /\ i <= m
      BY <1>2
    <1>4. \A i \in 1 .. n : m + i \in 1 .. m + n /\ ~(m + i <= m) /\ m + i - m = i
      BY <1>2
    <1>5. \A i \in 1 .. m : h[i] = s[i]
      BY <1>7, <1>3
    <1>6. \A i \in 1 .. n : h[m + i] = t[i]
      <2> TAKE i \in 1 .. n
      <2> DEFINE j == m + i
      <2>1. j \in 1 .. m + n /\ ~(j <= m) /\ j - m = i
        BY <1>2
      <2> HIDE DEF j
      <2>2. h[j] = t[i]
        BY <2>1, <1>7
      <2> QED BY <2>2 DEF j
    <1> QED BY <1>1, <1>5, <1>6 DEF m, n, h

\* A command and its address, as they are sent.
LEMMA CommandFacts ==
    ASSUME NEW b \in Byte, NEW addr \in Nat
    PROVE  LET f == <<b>> \o Digits(addr)
           IN  /\ f \in Seq(Byte) /\ Len(f) = 4 /\ f[1] = b
               /\ addr \in Cell => AddressOf(f) = addr
    <1> DEFINE d == Digits(addr)
               f == <<b>> \o d
    <1>1. d \in Seq(Byte) /\ Len(d) = 3
      <2>1. /\ Radix \in Nat \ {0} /\ Radix <= 256 /\ Radix * Radix \in Nat \ {0}
        BY ChipFacts, NorAssumption, SMT
      <2>2. addr \div (Radix * Radix) \in Nat /\ addr \div Radix \in Nat
        BY <2>1, DivMod
      <2>3. \A n \in Nat : n % Radix \in Byte
        BY <2>1, DivMod DEF Byte
      <2> QED BY <2>2, <2>3 DEF Digits
    <1> HIDE DEF d
    <1>2. f \in Seq(Byte) /\ Len(f) = 4 /\ f[1] = b /\ f[2] = d[1] /\ f[3] = d[2] /\ f[4] = d[3]
      <2>1. <<b>> \in Seq(Byte) /\ Len(<<b>>) = 1 /\ <<b>>[1] = b
        OBVIOUS
      <2>2. /\ f \in Seq(Byte) /\ Len(f) = Len(<<b>>) + Len(d)
            /\ \A i \in 1 .. Len(<<b>>) : f[i] = <<b>>[i]
            /\ \A i \in 1 .. Len(d) : f[Len(<<b>>) + i] = d[i]
        BY <1>1, <2>1, Joined
      <2> HIDE DEF f
      <2>3. /\ Len(f) = 4 /\ \A i \in 1 .. 1 : f[i] = <<b>>[i]
            /\ \A i \in 1 .. 3 : f[1 + i] = d[i]
        BY <1>1, <2>1, <2>2
      <2>4. f[1] = <<b>>[1] /\ f[1 + 1] = d[1] /\ f[1 + 2] = d[2] /\ f[1 + 3] = d[3]
        BY <2>3
      <2>5. 1 + 1 = 2 /\ 1 + 2 = 3 /\ 1 + 3 = 4
        OBVIOUS
      <2>6. f[2] = d[1] /\ f[3] = d[2] /\ f[4] = d[3]
        BY <2>4, <2>5, Zenon
      <2> QED BY <2>1, <2>2, <2>3, <2>4, <2>6
    <1> HIDE DEF f
    <1>3. ASSUME addr \in Cell PROVE AddressOf(f) = addr
      <2>1. d[1] * Radix * Radix + d[2] * Radix + d[3] = addr
        BY <1>3, DigitsFacts DEF d
      <2> QED BY <2>1, <1>2 DEF AddressOf
    <1> QED BY <1>2, <1>3 DEF f, d

\* A cell of the page that addr is in has the same number of the page.
LEMMA InPage ==
    ASSUME NEW u \in Nat \ {0}, NEW addr \in Nat, NEW n \in 0 .. (u - 1)
    PROVE  ((addr \div u) * u + n) \div u = addr \div u
    <1> DEFINE q == addr \div u
    <1>1. q \in Nat
      BY DivMod
    <1> HIDE DEF q
    <1>2. q * u + n = u * q + n
      BY <1>1, SMT
    <1>3. (q * u + n) \div u = q
      BY <1>1, <1>2, DivModUnique
    <1> QED BY <1>3 DEF q

\* What begins on a multiple of w and is no longer lies in one sector of a multiple of w.
LEMMA WithinSector ==
    ASSUME NEW u \in Nat \ {0}, NEW w \in Nat \ {0}, u % w = 0,
           NEW addr \in Nat, addr % w = 0, NEW a \in Nat, addr <= a, a < addr + w
    PROVE  a \div u = addr \div u
    <1> DEFINE q == addr \div u
               r == addr % u
    <1>1. q \in Nat /\ r \in 0 .. (u - 1) /\ addr = u * q + r
      BY DivMod
    <1> DEFINE m == u \div w
               n == addr \div w
    <1>2. m \in Nat /\ u = w * m /\ n \in Nat /\ addr = w * n
      BY DivMod
    <1> HIDE DEF q, r, m, n
    <1>3. r = w * (n - m * q) /\ n - m * q \in Int
      <2>1. m * q \in Nat /\ w * (m * q) = (w * m) * q
        BY <1>1, <1>2, SMT
      <2>2. w * (n - m * q) = w * n - w * (m * q)
        BY <2>1, <1>2, SMT
      <2> QED BY <2>1, <2>2, <1>1, <1>2
    <1> DEFINE k == n - m * q
    <1>4. k \in Int /\ r = w * k
      BY <1>3
    <1> HIDE DEF k
    <1>5. k < m
      <2> SUFFICES ASSUME k >= m PROVE FALSE
        BY <1>4, <1>2
      <2>1. w * k >= w * m
        BY <1>2, <1>4, SMT
      <2> QED BY <2>1, <1>1, <1>2, <1>4
    <1>6. w * (k + 1) <= w * m
      BY <1>5, <1>2, <1>4, SMT
    <1>7. w * (k + 1) = r + w
      BY <1>4, SMT
    <1>8. r + w <= u
      BY <1>6, <1>7, <1>2
    <1>9. a = u * q + (r + (a - addr)) /\ r + (a - addr) \in 0 .. (u - 1)
      BY <1>1, <1>8
    <1>10. a \div u = q
      BY <1>9, <1>1, DivModUnique
    <1> QED BY <1>10 DEF q

\* A set of numbers that does not go beyond n has a greatest.
LEMMA Maximum ==
    ASSUME NEW n \in Nat, NEW S \in SUBSET (0 .. n), S # {}
    PROVE  \E k \in S : \A j \in S : j <= k
    <1> DEFINE D == {n - k : k \in S}
               R == {ss \in Nat \X Nat : ss[1] < ss[2]}
    <1>1. IsWellFoundedOn(R, Nat)
      BY NatLessThanWellFounded DEF OpToRel
    <1>2. D \subseteq Nat /\ D # {}
      <2>1. PICK k \in S : TRUE
        OBVIOUS
      <2>2. n - k \in D
        BY <2>1
      <2>3. \A j \in S : n - j \in Nat
        OBVIOUS
      <2> QED BY <2>2, <2>3
    <1>3. \E x \in D : \A y \in D : <<y, x>> \notin R
      BY <1>1, <1>2, WFMin
    <1>4. PICK x \in D : \A y \in D : ~(y < x)
      BY <1>2, <1>3
    <1>5. PICK k \in S : x = n - k
      BY <1>4
    <1>6. \A j \in S : ~(n - j < n - k)
      BY <1>4, <1>5
    <1>7. \A j \in S : j <= k
      BY <1>6
    <1> QED BY <1>7

-----------------------------------------------------------------------------
(* Bytes.                                                                  *)

LEMMA BitAndByte ==
    ASSUME NEW a \in Byte, NEW b \in Byte
    PROVE  BitAnd(a, b) \in Byte
    <1> DEFINE bit(w) == w * (((a \div w) % 2) * ((b \div w) % 2))
    <1>1. \A w \in {1, 2, 4, 8, 16, 32, 64, 128} : bit(w) \in {0, w}
      <2> TAKE w \in {1, 2, 4, 8, 16, 32, 64, 128}
      <2> DEFINE x == (a \div w) % 2
                 y == (b \div w) % 2
      <2>1. x \in {0, 1} /\ y \in {0, 1}
        BY DEF Byte
      <2> HIDE DEF x, y
      <2>2. x * y \in {0, 1}
        BY <2>1
      <2>3. w * (x * y) \in {0, w}
        BY <2>2
      <2> QED BY <2>3 DEF x, y
    <1>2. BitAnd(a, b) = bit(1) + bit(2) + bit(4) + bit(8) + bit(16) + bit(32) + bit(64) + bit(128)
      BY DEF BitAnd
    <1> HIDE DEF bit
    <1> QED BY <1>1, <1>2 DEF Byte

\* What a status register says of the chip: the driver tests two of its bits.
LEMMA StatusFacts ==
    ASSUME ChipTypeOK
    PROVE  /\ Status1 \in Byte
           /\ BitAnd(Status1, 1) = 0 <=> ~Busy
           /\ BitAnd(Status1, 2 + 1) = 2 => ~Busy
           /\ Status1 = 0 => chip.sr1 = 0
    <1>1. chip.wel \in BOOLEAN /\ chip.sr1 \in {0, 4}
      BY DEF ChipTypeOK
    <1>2. Status1 \in {0, 1, 2, 3, 4, 5, 6, 7}
      BY <1>1 DEF Status1
    <1>3. Busy => Status1 \in {1, 3, 5, 7}
      BY <1>1 DEF Status1
    <1>4. ~Busy => Status1 \in {0, 2, 4, 6}
      BY <1>1 DEF Status1
    <1>5. \A s \in {0, 2, 4, 6} : BitAnd(s, 1) = 0
      BY DEF BitAnd
    <1>6. \A s \in {1, 3, 5, 7} : BitAnd(s, 1) = 1 /\ BitAnd(s, 3) \in {1, 3}
      BY DEF BitAnd
    <1>7. Status1 = 0 => chip.sr1 = 0
      BY <1>1 DEF Status1
    <1> QED BY <1>2, <1>3, <1>4, <1>5, <1>6, <1>7 DEF Byte

\* The same bits, taken with \div and %.
LEMMA StatusBits ==
    ASSUME ChipTypeOK
    PROVE  /\ Status1 % 2 = 0 <=> ~Busy
           /\ (Status1 \div 4) % 2 = chip.sr1 \div 4
           /\ (chip.sr2 \div 4) % 2 = chip.sr2 \div 4
    <1>1. chip.wel \in BOOLEAN /\ chip.sr1 \in {0, 4} /\ chip.sr2 \in {0, 2, 4, 6}
      BY DEF ChipTypeOK
    <1> DEFINE b == IF Busy THEN 1 ELSE 0
               w == IF chip.wel THEN 2 ELSE 0
    <1>2. b \in {0, 1} /\ w \in {0, 2} /\ (b = 0 <=> ~Busy) /\ Status1 = b + w + chip.sr1
      BY DEF Status1
    <1> HIDE DEF b, w
    <1>3. Status1 % 2 = b
      BY <1>1, <1>2
    <1>4. (Status1 \div 4) % 2 = chip.sr1 \div 4
      <2>1. CASE chip.sr1 = 0
        <3>1. Status1 \in {0, 1, 2, 3}
          BY <1>2, <2>1
        <3> QED BY <3>1, <2>1
      <2>2. CASE chip.sr1 = 4
        <3>1. Status1 \in {4, 5, 6, 7}
          BY <1>2, <2>2
        <3> QED BY <3>1, <2>2
      <2> QED BY <2>1, <2>2, <1>1
    <1>5. (chip.sr2 \div 4) % 2 = chip.sr2 \div 4
      BY <1>1
    <1>6. Status1 % 2 = 0 <=> ~Busy
      BY <1>2, <1>3
    <1> QED BY <1>4, <1>5, <1>6

-----------------------------------------------------------------------------
(* What the chip hears and does.                                           *)

\* A byte is added to the frame, unless it begins a command a busy chip does not take.
LEMMA HeardFacts ==
    ASSUME chip.frame \in Seq(Byte), NEW b \in Byte, Len(chip.frame) < MaxFrame
    PROVE  /\ Heard(b, TRUE) \in Seq(Byte)
           /\ chip.frame = <<>> /\ Busy /\ b \notin {READ_STATUS, READ_STATUS2} =>
                 Heard(b, TRUE) = <<Lost>>
           /\ ~(chip.frame = <<>> /\ Busy /\ b \notin {READ_STATUS, READ_STATUS2}) =>
                 Heard(b, TRUE) = Append(chip.frame, b)
    <1>1. Append(chip.frame, b) \in Seq(Byte) /\ Len(Append(chip.frame, b)) = Len(chip.frame) + 1
      OBVIOUS
    <1>2. Len(chip.frame) = 0 <=> chip.frame = <<>>
      OBVIOUS
    <1>3. <<Lost>> \in Seq(Byte)
      BY DEF Lost, Byte
    <1> QED BY <1>1, <1>2, <1>3 DEF Heard

\* The frame after a byte: lost, longer by the byte, or full.
LEMMA HeardCases ==
    ASSUME chip.frame \in Seq(Byte), NEW b \in Byte, NEW clear \in BOOLEAN, MaxFrame > 1
    PROVE  LET h == Heard(b, clear)
               takes == chip.frame = <<>> /\ Busy => b \in {READ_STATUS, READ_STATUS2}
           IN  /\ h \in Seq(Byte) /\ Len(h) > 0
               /\ \/ h = <<Lost>> /\ ~(clear /\ takes)
                  \/ h = Append(chip.frame, b) /\ Len(chip.frame) < MaxFrame /\ clear /\ takes
                  \/ h = chip.frame /\ Len(chip.frame) >= MaxFrame /\ clear
    <1> DEFINE s == chip.frame
               n == Len(chip.frame)
               f == IF n < MaxFrame THEN Append(s, b) ELSE s
               takes == s = <<>> /\ Busy => b \in {READ_STATUS, READ_STATUS2}
    <1>1. s \in Seq(Byte) /\ n \in Nat /\ MaxFrame \in Nat /\ (n = 0 <=> s = <<>>)
      BY ChipFacts, EmptySeq
    <1>2. Append(s, b) \in Seq(Byte) /\ Len(Append(s, b)) = n + 1
      OBVIOUS
    <1>3. <<Lost>> \in Seq(Byte) /\ Len(<<Lost>>) = 1
      BY DEF Lost, Byte
    <1>4. Heard(b, clear) =
            IF clear /\ (Len(f) = 1 /\ Busy => b \in {READ_STATUS, READ_STATUS2})
            THEN f ELSE <<Lost>>
      BY Zenon DEF Heard
    <1>5. (Len(f) = 1 /\ Busy => b \in {READ_STATUS, READ_STATUS2}) <=> takes
      <2> HIDE DEF n, s
      <2>1. CASE n < MaxFrame
        BY <2>1, <1>1, <1>2
      <2>2. CASE ~(n < MaxFrame)
        <3>1. Len(f) = n
          BY <2>2 DEF n, s
        <3> QED BY <3>1, <2>2, <1>1
      <2> QED BY <2>1, <2>2
    <1>6. CASE ~(clear /\ takes)
      BY <1>3, <1>4, <1>5, <1>6
    <1>7. CASE clear /\ takes /\ n < MaxFrame
      <2>1. Heard(b, clear) = Append(s, b)
        BY <1>4, <1>5, <1>7
      <2> QED BY <2>1, <1>1, <1>2, <1>7
    <1>8. CASE clear /\ takes /\ ~(n < MaxFrame)
      <2>1. Heard(b, clear) = s
        BY <1>4, <1>5, <1>8
      <2> QED BY <2>1, <1>1, <1>8
    <1> QED BY <1>6, <1>7, <1>8

\* A frame that is full stays as it is.
LEMMA HeardFull ==
    ASSUME NEW b \in Byte, NEW n \in Nat, Len(chip.frame) = n, n >= MaxFrame, MaxFrame > 1
    PROVE  Heard(b, TRUE) = chip.frame
    <1>1. n # 1 /\ ~(n < MaxFrame)
      BY ChipFacts
    <1> QED BY <1>1, Zenon DEF Heard

\* A command that changes the memory.
IsErase(f) == Len(f) = 4 /\ f[1] = SECTOR_ERASE
IsProgram(f) == Len(f) \in 5 .. MaxFrame /\ f[1] = PAGE_PROGRAM

IsWrite(f) == Len(f) \in 2 .. 3 /\ f[1] = WRITE_STATUS

\* What a chip does when it is deselected.
LEMMA DeselectedCases ==
    ASSUME ChipTypeOK, NEW f \in Seq(Byte), NEW c \in Deselected(f)
    PROVE  /\ c \in [frame : Seq(Byte), todo : Seq(Byte), wel : BOOLEAN,
                     sr1 : {0, 4}, sr2 : {0, 2, 4, 6}, id : ChipIds]
           /\ c.frame = <<>> /\ c.sr1 = chip.sr1 /\ c.sr2 = chip.sr2
           /\ f = <<WRITE_ENABLE>> => c.wel /\ c.todo = chip.todo
           /\ ~(IsErase(f) \/ IsProgram(f) \/ IsWrite(f)) =>
                 c.todo = chip.todo /\ (f # <<WRITE_ENABLE>> => c.wel = chip.wel)
           /\ chip.sr1 # 0 /\ ~IsWrite(f) => c.todo = chip.todo
           /\ (IsErase(f) \/ IsProgram(f)) /\ chip.wel /\ chip.sr1 = 0 => c.todo = f
           /\ IsWrite(f) /\ chip.wel => c.todo = f
           /\ c.todo \in {chip.todo, f}
    <1> DEFINE quiet == [chip EXCEPT !.frame = <<>>]
               changes == (IsErase(f) \/ IsProgram(f)) /\ chip.wel
               T == [frame : Seq(Byte), todo : Seq(Byte), wel : BOOLEAN,
                     sr1 : {0, 4}, sr2 : {0, 2, 4, 6}, id : ChipIds]
    <1>1. chip \in T /\ <<>> \in Seq(Byte)
      BY DEF ChipTypeOK
    <1>2. quiet \in T /\ quiet.frame = <<>> /\ quiet.todo = chip.todo /\ quiet.wel = chip.wel
            /\ quiet.sr1 = chip.sr1 /\ quiet.sr2 = chip.sr2
      BY <1>1
    <1> HIDE DEF quiet, T
    <1>3. IsWrite(f) <=> Len(f) \in {2, 3} /\ f[1] = WRITE_STATUS
      <2>1. \A n \in Nat : n \in 2 .. 3 <=> n \in {2, 3}
        OBVIOUS
      <2> QED BY <2>1 DEF IsWrite
    <1>4. Deselected(f) =
            CASE f = <<WRITE_ENABLE>> -> {[quiet EXCEPT !.wel = TRUE]}
              [] Len(f) \in {2, 3} /\ f[1] = WRITE_STATUS /\ chip.wel ->
                    {[quiet EXCEPT !.todo = f]}
              [] changes /\ chip.sr1 = 0 -> {[quiet EXCEPT !.todo = f]}
              [] changes /\ chip.sr1 # 0 -> {quiet, [quiet EXCEPT !.wel = FALSE]}
              [] OTHER -> {quiet}
      BY Zenon DEF Deselected, quiet, IsErase, IsProgram
    <1>5. [quiet EXCEPT !.wel = TRUE] \in T /\ [quiet EXCEPT !.wel = FALSE] \in T
            /\ [quiet EXCEPT !.todo = f] \in T
      BY <1>2 DEF T
    <1>6. /\ ~(f = <<WRITE_ENABLE>> /\ (IsErase(f) \/ IsProgram(f) \/ IsWrite(f)))
          /\ ~(IsWrite(f) /\ (IsErase(f) \/ IsProgram(f)))
      <2>1. Len(<<WRITE_ENABLE>>) = 1
        OBVIOUS
      <2>2. IsErase(f) \/ IsProgram(f) \/ IsWrite(f) => Len(f) # 1
        <3>1. \A n \in 5 .. MaxFrame : n # 1
          BY ChipFacts
        <3>2. Len(f) \in 2 .. 3 => Len(f) # 1
          OBVIOUS
        <3>3. IsErase(f) => Len(f) # 1
          BY DEF IsErase
        <3>4. IsProgram(f) => Len(f) # 1
          BY <3>1 DEF IsProgram
        <3>5. IsWrite(f) => Len(f) # 1
          BY <3>2 DEF IsWrite
        <3> QED BY <3>3, <3>4, <3>5
      <2>3. IsErase(f) \/ IsProgram(f) => f[1] # WRITE_STATUS
        BY DEF IsErase, IsProgram, SECTOR_ERASE, PAGE_PROGRAM, WRITE_STATUS
      <2>4. f[1] # WRITE_STATUS => ~IsWrite(f)
        BY DEF IsWrite
      <2> QED BY <2>1, <2>2, <2>3, <2>4
    <1>7. CASE f = <<WRITE_ENABLE>>
      <2>1. c = [quiet EXCEPT !.wel = TRUE]
        BY <1>4, <1>7, <1>3, <1>6
      <2>2. c.frame = <<>> /\ c.sr1 = chip.sr1 /\ c.sr2 = chip.sr2 /\ c.wel /\ c.todo = chip.todo
        BY <2>1, <1>2 DEF T
      <2> QED BY <2>1, <2>2, <1>5, <1>6, <1>7 DEF T
    <1>8. CASE changes /\ chip.sr1 = 0
      <2>1. c = [quiet EXCEPT !.todo = f]
        BY <1>4, <1>8, <1>3, <1>6
      <2>2. c.frame = <<>> /\ c.sr1 = chip.sr1 /\ c.sr2 = chip.sr2 /\ c.todo = f
        BY <2>1, <1>2 DEF T
      <2> QED BY <2>1, <2>2, <1>5, <1>6, <1>8 DEF T
    <1>9. CASE changes /\ chip.sr1 # 0
      <2>1. c \in {quiet, [quiet EXCEPT !.wel = FALSE]}
        BY <1>4, <1>9, <1>3, <1>6
      <2>2. c.frame = <<>> /\ c.sr1 = chip.sr1 /\ c.sr2 = chip.sr2 /\ c.todo = chip.todo
        BY <2>1, <1>2 DEF T
      <2> QED BY <2>1, <2>2, <1>2, <1>5, <1>6, <1>9 DEF T
    <1>10. CASE IsWrite(f) /\ chip.wel
      <2>1. c = [quiet EXCEPT !.todo = f]
        BY <1>4, <1>10, <1>3, <1>6
      <2>2. c.frame = <<>> /\ c.sr1 = chip.sr1 /\ c.sr2 = chip.sr2 /\ c.todo = f
        BY <2>1, <1>2 DEF T
      <2> QED BY <2>1, <2>2, <1>5, <1>6, <1>10 DEF T
    <1>11. CASE f # <<WRITE_ENABLE>> /\ ~changes /\ ~(IsWrite(f) /\ chip.wel)
      <2>1. c = quiet
        BY <1>4, <1>11, <1>3
      <2> QED BY <2>1, <1>2, <1>11 DEF T
    <1> QED BY <1>7, <1>8, <1>9, <1>10, <1>11

\* What a chip does when it is deselected with a frame that writes no status register.
LEMMA DeselectedFacts ==
    ASSUME ChipTypeOK, NEW f \in Seq(Byte), f = <<>> \/ f[1] # WRITE_STATUS,
           NEW c \in Deselected(f)
    PROVE  /\ c \in [frame : Seq(Byte), todo : Seq(Byte), wel : BOOLEAN,
                     sr1 : {0, 4}, sr2 : {0, 2, 4, 6}, id : ChipIds]
           /\ c.frame = <<>> /\ c.sr1 = chip.sr1
           /\ f = <<WRITE_ENABLE>> => c.wel /\ c.todo = chip.todo
           /\ ~(IsErase(f) \/ IsProgram(f)) =>
                 c.todo = chip.todo /\ (f # <<WRITE_ENABLE>> => c.wel = chip.wel)
           /\ chip.sr1 # 0 => c.todo = chip.todo
           /\ (IsErase(f) \/ IsProgram(f)) /\ chip.wel /\ chip.sr1 = 0 => c.todo = f
           /\ c.todo \in {chip.todo, f}
    <1>1. ~IsWrite(f)
      BY DEF IsWrite
    <1> QED BY <1>1, DeselectedCases

\* The address a frame holds is a number.
LEMMA AddressFacts ==
    ASSUME NEW f \in Seq(Byte), Len(f) >= 4
    PROVE  f[2] \in Nat /\ f[3] \in Nat /\ f[4] \in Nat /\ AddressOf(f) \in Nat
    <1>1. \A k \in 1 .. Len(f) : f[k] \in Byte
      OBVIOUS
    <1>2. 2 \in 1 .. Len(f) /\ 3 \in 1 .. Len(f) /\ 4 \in 1 .. Len(f)
      <2>1. Len(f) \in Nat
        OBVIOUS
      <2> QED BY <2>1
    <1>3. f[2] \in Byte /\ f[3] \in Byte /\ f[4] \in Byte
      BY <1>1, <1>2
    <1> DEFINE x == f[2]
               y == f[3]
               z == f[4]
    <1>4. x \in Nat /\ y \in Nat /\ z \in Nat
      <2>1. \A b \in Byte : b \in Nat
        BY DEF Byte
      <2> QED BY <1>3, <2>1
    <1> HIDE DEF x, y, z
    <1>5. x * Radix * Radix \in Nat /\ y * Radix \in Nat
      <2>1. x * Radix \in Nat
        BY <1>4, ChipFacts, SMT
      <2> QED BY <1>4, <2>1, ChipFacts, SMT
    <1>6. x * Radix * Radix + y * Radix + z \in Nat
      BY <1>4, <1>5
    <1> QED BY <1>4, <1>6 DEF AddressOf, x, y, z

\* Frames that agree in their first bytes hold the same address.
LEMMA SameAddress ==
    ASSUME NEW f, NEW g, NEW n \in Nat, n >= 4, \A k \in 1 .. n : f[k] = g[k]
    PROVE  AddressOf(f) = AddressOf(g)
    <1>1. f[2] = g[2] /\ f[3] = g[3] /\ f[4] = g[4]
      OBVIOUS
    <1> QED BY <1>1 DEF AddressOf

\* What the chip answers, command by command.
LEMMA AnswerCases ==
    ASSUME NEW f
    PROVE  /\ f[1] = READ_STATUS /\ Len(f) > 1 => Answer(f) = Status1
           /\ f[1] = READ_STATUS2 /\ Len(f) > 1 => Answer(f) = chip.sr2
           /\ f[1] = JEDEC_ID /\ Len(f) \in 2 .. 4 => Answer(f) = chip.id[Len(f) - 1]
           /\ f[1] = READ /\ Len(f) > 4 =>
                 Answer(f) = mem[(AddressOf(f) + (Len(f) - 5)) % ChipSize]
           /\ f[1] = FAST_READ_QUAD /\ Len(f) > 7 =>
                 Answer(f) = mem[(AddressOf(f) + (Len(f) - 8)) % ChipSize]
           /\ \/ f[1] \notin {READ_STATUS, READ_STATUS2, JEDEC_ID, READ, FAST_READ_QUAD}
              \/ f[1] \in {READ_STATUS, READ_STATUS2} /\ ~(Len(f) > 1)
              \/ f[1] = JEDEC_ID /\ Len(f) \notin 2 .. 4
              \/ f[1] = READ /\ ~(Len(f) > 4)
              \/ f[1] = FAST_READ_QUAD /\ ~(Len(f) > 7)
              => Answer(f) = Lost
    <1> DEFINE n == Len(f)
               c == f[1]
               A == AddressOf(f)
    <1>1. Answer(f) =
            CASE c = READ_STATUS /\ n > 1 -> Status1
              [] c = READ_STATUS2 /\ n > 1 -> chip.sr2
              [] c = JEDEC_ID /\ n \in 2 .. 4 -> chip.id[n - 1]
              [] c = READ /\ n > 4 -> mem[(A + (n - 5)) % ChipSize]
              [] c = FAST_READ_QUAD /\ n > 7 -> mem[(A + (n - 8)) % ChipSize]
              [] OTHER -> Lost
      BY Zenon DEF Answer
    <1>2. /\ READ_STATUS # READ_STATUS2 /\ READ_STATUS # JEDEC_ID /\ READ_STATUS # READ
          /\ READ_STATUS # FAST_READ_QUAD /\ READ_STATUS2 # JEDEC_ID /\ READ_STATUS2 # READ
          /\ READ_STATUS2 # FAST_READ_QUAD /\ JEDEC_ID # READ /\ JEDEC_ID # FAST_READ_QUAD
          /\ READ # FAST_READ_QUAD
      BY DEF READ_STATUS, READ_STATUS2, JEDEC_ID, READ, FAST_READ_QUAD
    <1> HIDE DEF n, c, A
    <1>3. c = READ_STATUS /\ n > 1 => Answer(f) = Status1
      BY <1>1, <1>2
    <1>4. c = READ_STATUS2 /\ n > 1 => Answer(f) = chip.sr2
      BY <1>1, <1>2
    <1>5. c = JEDEC_ID /\ n \in 2 .. 4 => Answer(f) = chip.id[n - 1]
      BY <1>1, <1>2
    <1>6. c = READ /\ n > 4 => Answer(f) = mem[(A + (n - 5)) % ChipSize]
      BY <1>1, <1>2
    <1>7. c = FAST_READ_QUAD /\ n > 7 => Answer(f) = mem[(A + (n - 8)) % ChipSize]
      BY <1>1, <1>2
    <1>8. ASSUME \/ c \notin {READ_STATUS, READ_STATUS2, JEDEC_ID, READ, FAST_READ_QUAD}
                 \/ c \in {READ_STATUS, READ_STATUS2} /\ ~(n > 1)
                 \/ c = JEDEC_ID /\ n \notin 2 .. 4
                 \/ c = READ /\ ~(n > 4)
                 \/ c = FAST_READ_QUAD /\ ~(n > 7)
          PROVE  Answer(f) = Lost
      BY <1>1, <1>2, <1>8
    <1> QED BY <1>3, <1>4, <1>5, <1>6, <1>7, <1>8 DEF n, c, A

\* The chip answers bytes.
LEMMA AnswerByte ==
    ASSUME ChipTypeOK, NEW f \in Seq(Byte), Len(f) > 0
    PROVE  Answer(f) \in Byte
    <1>1. Status1 \in Byte /\ Lost \in Byte
      BY StatusFacts DEF Lost, Byte
    <1>2. chip.sr2 \in Byte
      BY DEF ChipTypeOK, Byte
    <1>3. Len(f) \in 2 .. 4 => chip.id[Len(f) - 1] \in Byte
      <2>1. chip.id \in Byte \X Byte \X Byte
        BY NorAssumption DEF ChipTypeOK
      <2>2. chip.id[1] \in Byte /\ chip.id[2] \in Byte /\ chip.id[3] \in Byte
        BY <2>1
      <2>3. Len(f) \in 2 .. 4 => Len(f) - 1 \in {1, 2, 3}
        OBVIOUS
      <2> QED BY <2>2, <2>3
    <1>4. ASSUME NEW k \in {5, 8}, Len(f) > k - 1
          PROVE  mem[(AddressOf(f) + (Len(f) - k)) % ChipSize] \in Byte
      <2>1. Len(f) >= k /\ Len(f) \in Nat
        BY <1>4
      <2>2. AddressOf(f) \in Nat
        BY <2>1, AddressFacts
      <2>3. AddressOf(f) + (Len(f) - k) \in Nat
        BY <2>1, <2>2
      <2>4. (AddressOf(f) + (Len(f) - k)) % ChipSize \in 0 .. (ChipSize - 1)
        BY <2>3, ChipFacts, DivMod
      <2> QED BY <2>4 DEF ChipTypeOK, Cell
    <1>5. Len(f) > 4 => mem[(AddressOf(f) + (Len(f) - 5)) % ChipSize] \in Byte
      BY <1>4
    <1>6. Len(f) > 7 => mem[(AddressOf(f) + (Len(f) - 8)) % ChipSize] \in Byte
      BY <1>4
    <1>7. CASE f[1] \notin {READ_STATUS, READ_STATUS2, JEDEC_ID, READ, FAST_READ_QUAD}
      BY <1>1, <1>7, AnswerCases, Zenon
    <1>8. CASE f[1] \in {READ_STATUS, READ_STATUS2}
      BY <1>1, <1>2, <1>8, AnswerCases, Zenon
    <1>9. CASE f[1] = JEDEC_ID
      BY <1>1, <1>3, <1>9, AnswerCases, Zenon
    <1>10. CASE f[1] = READ
      BY <1>1, <1>5, <1>10, AnswerCases, Zenon
    <1>11. CASE f[1] = FAST_READ_QUAD
      BY <1>1, <1>6, <1>11, AnswerCases, Zenon
    <1> QED BY <1>7, <1>8, <1>9, <1>10, <1>11

\* What it answers to the frames of the SPIM driver.
LEMMA AnswerFacts ==
    ASSUME NEW f
    PROVE  /\ f[1] = Lost => Answer(f) = Lost
           /\ f[1] = READ_STATUS /\ Len(f) > 1 => Answer(f) = Status1
           /\ \A a \in Cell : f[1] = READ /\ Len(f) > 4 /\ AddressOf(f) + (Len(f) - 5) = a
                                => Answer(f) = mem[a]
    <1>1. f[1] = Lost => Answer(f) = Lost
      <2>1. Lost \notin {READ_STATUS, READ_STATUS2, JEDEC_ID, READ, FAST_READ_QUAD}
        BY DEF Lost, READ_STATUS, READ_STATUS2, JEDEC_ID, READ, FAST_READ_QUAD
      <2> QED BY <2>1, AnswerCases, Zenon
    <1>2. f[1] = READ_STATUS /\ Len(f) > 1 => Answer(f) = Status1
      BY AnswerCases
    <1>3. ASSUME NEW a \in Cell, f[1] = READ, Len(f) > 4, AddressOf(f) + (Len(f) - 5) = a
          PROVE  Answer(f) = mem[a]
      <2>1. Answer(f) = mem[a % ChipSize]
        BY <1>3, AnswerCases, Zenon
      <2>2. a % ChipSize = a
        BY ChipFacts, SMT DEF Cell
      <2> QED BY <2>1, <2>2
    <1> QED BY <1>1, <1>2, <1>3, Zenon

-----------------------------------------------------------------------------
(* What the commands do to the memory.                                     *)

\* An erase sets its sector and nothing else.
LEMMA AfterEraseFacts ==
    ASSUME mem \in [Cell -> Byte], NEW f
    PROVE  /\ AfterErase(f) \in [Cell -> Byte]
           /\ \A a \in Cell : AfterErase(f)[a] = IF a \in Sector(AddressOf(f)) THEN 255 ELSE mem[a]
    BY DEF AfterErase, Byte

\* Adding less than a page goes round a page at most once.
LEMMA OnceRound ==
    ASSUME NEW u \in Nat \ {0}, NEW o \in 0 .. (u - 1), NEW i \in 0 .. (u - 1)
    PROVE  (o + i) % u = IF o + i < u THEN o + i ELSE o + i - u
    <1>1. CASE o + i < u
      <2>1. (u * 0 + (o + i)) % u = o + i
        BY <1>1, DivModUnique, 0 \in Nat
      <2> QED BY <2>1, <1>1
    <1>2. CASE o + i >= u
      <2>1. o + i - u \in 0 .. (u - 1)
        BY <1>2
      <2>2. (u * 1 + (o + i - u)) % u = o + i - u
        BY <2>1, DivModUnique, 1 \in Nat
      <2>3. u * 1 + (o + i - u) = o + i
        OBVIOUS
      <2> QED BY <2>2, <2>3, <1>2
    <1> QED BY <1>1, <1>2

\* A program sets bytes of its page only.
LEMMA AfterProgramPage ==
    ASSUME mem \in [Cell -> Byte], NEW f \in Seq(Byte), Len(f) > 4
    PROVE  /\ AfterProgram(f) \in [Cell -> Byte]
           /\ \A a \in Cell \ Page(AddressOf(f)) : AfterProgram(f)[a] = mem[a]
    <1> DEFINE A == AddressOf(f)
               page == (A \div PageSize) * PageSize
               cell(k) == page + ((A - page + k - 5) % PageSize)
               on(a) == {k \in 5 .. Len(f) : cell(k) = a}
               last(a) == CHOOSE k \in on(a) : \A j \in on(a) : j <= k
    <1>1. PageSize \in Nat \ {0}
      BY ChipFacts
    <1>2. f \in [1 .. Len(f) -> Byte] /\ Len(f) \in Nat
      OBVIOUS
    <1>3. A \in Nat
      BY <1>2, AddressFacts
    <1>4. AfterProgram(f) = [a \in Cell |-> IF on(a) = {} THEN mem[a]
                                            ELSE BitAnd(mem[a], f[last(a)])]
      BY Zenon DEF AfterProgram
    <1> HIDE DEF A
    <1>5. page \in Nat /\ page <= A
      <2> DEFINE o == A % PageSize
                 q == A \div PageSize
      <2>1. q \in Nat /\ o \in 0 .. (PageSize - 1) /\ A = PageSize * q + o
        BY <1>1, <1>3, DivMod
      <2> HIDE DEF o, q
      <2>2. PageSize * q = q * PageSize /\ q * PageSize \in Nat
        BY <1>1, <2>1, SMT
      <2>3. page = q * PageSize
        BY DEF q
      <2> HIDE DEF page
      <2> QED BY <2>1, <2>2, <2>3
    <1>6. \A k \in 5 .. Len(f) : cell(k) \div PageSize = A \div PageSize
      <2> TAKE k \in 5 .. Len(f)
      <2> DEFINE r == (A - page + k - 5) % PageSize
      <2>1. A - page + k - 5 \in Nat
        BY <1>5, <1>3, <1>2
      <2>2. r \in 0 .. (PageSize - 1)
        BY <1>1, <2>1, DivMod
      <2>3. cell(k) = page + r
        OBVIOUS
      <2> HIDE DEF r, cell
      <2>4. (page + r) \div PageSize = A \div PageSize
        BY <1>1, <1>3, <2>2, InPage
      <2> QED BY <2>3, <2>4
    <1> HIDE DEF page, cell
    <1>7. ASSUME NEW a \in Cell, on(a) # {}
          PROVE  BitAnd(mem[a], f[last(a)]) \in Byte
      <2>1. on(a) \in SUBSET (0 .. Len(f))
        BY <1>2
      <2> HIDE DEF on
      <2>2. \E k \in on(a) : \A j \in on(a) : j <= k
        BY <2>1, <1>2, <1>7, Maximum
      <2>3. last(a) \in on(a)
        BY <2>2
      <2>4. last(a) \in 1 .. Len(f)
        BY <2>3, <1>2 DEF on
      <2> QED BY <2>4, <1>2, BitAndByte
    <1>8. AfterProgram(f) \in [Cell -> Byte]
      <2> HIDE DEF on, last
      <2> QED BY <1>4, <1>7
    <1>9. \A a \in Cell \ Page(A) : AfterProgram(f)[a] = mem[a]
      <2> TAKE a \in Cell \ Page(A)
      <2>1. on(a) = {}
        BY <1>6 DEF Page
      <2> QED BY <2>1, <1>4
    <1> QED BY <1>8, <1>9 DEF A

\* The data of a program of at most a page that ends before its page does lies where
\* it was meant to.
LEMMA AfterProgramFacts ==
    ASSUME mem \in [Cell -> Byte], NEW f \in Seq(Byte), Len(f) > 4, Len(f) <= PageSize + 4
    PROVE  /\ AfterProgram(f) \in [Cell -> Byte]
           /\ \A a \in Cell \ Page(AddressOf(f)) : AfterProgram(f)[a] = mem[a]
           /\ (AddressOf(f) % PageSize) + (Len(f) - 4) <= PageSize =>
                 \A a \in Cell :
                    AfterProgram(f)[a] =
                        IF AddressOf(f) <= a /\ a < AddressOf(f) + (Len(f) - 4)
                        THEN BitAnd(mem[a], f[a - AddressOf(f) + 5]) ELSE mem[a]
    <1> DEFINE A == AddressOf(f)
               n == Len(f) - 4
               page == (A \div PageSize) * PageSize
               o == A % PageSize
               cell(k) == page + ((A - page + k - 5) % PageSize)
               on(a) == {k \in 5 .. Len(f) : cell(k) = a}
               last(a) == CHOOSE k \in on(a) : \A j \in on(a) : j <= k
    <1>1. PageSize \in Nat \ {0}
      BY ChipFacts
    <1>2. f \in [1 .. Len(f) -> Byte] /\ Len(f) \in Nat
      OBVIOUS
    <1>3. A \in Nat
      BY <1>2, AddressFacts
    <1>4. page \in Nat /\ o \in 0 .. (PageSize - 1) /\ A = page + o
      <2>1. A \div PageSize \in Nat /\ o \in 0 .. (PageSize - 1)
              /\ A = PageSize * (A \div PageSize) + o
        BY <1>1, <1>3, DivMod
      <2> HIDE DEF o
      <2>2. PageSize * (A \div PageSize) = page /\ page \in Nat
        BY <1>1, <2>1, SMT
      <2> QED BY <2>1, <2>2
    <1>5. AfterProgram(f) = [a \in Cell |-> IF on(a) = {} THEN mem[a]
                                            ELSE BitAnd(mem[a], f[last(a)])]
      BY Zenon DEF AfterProgram
    <1>6. n \in 1 .. PageSize
      BY <1>1, <1>2
    <1>7. \A k \in 5 .. Len(f) :
            cell(k) = page + IF o + (k - 5) < PageSize THEN o + (k - 5)
                                                       ELSE o + (k - 5) - PageSize
      <2> TAKE k \in 5 .. Len(f)
      <2>1. k - 5 \in 0 .. (PageSize - 1)
        BY <1>1, <1>2
      <2>2. A - page + k - 5 = o + (k - 5)
        BY <1>4, <1>3, <1>2
      <2>3. (o + (k - 5)) % PageSize = IF o + (k - 5) < PageSize THEN o + (k - 5)
                                                       ELSE o + (k - 5) - PageSize
        BY <1>1, <1>4, <2>1, OnceRound
      <2> QED BY <2>2, <2>3
    <1> HIDE DEF A, n, o, page, cell
    <1>8. \A a \in Cell : on(a) # {} => last(a) \in on(a) /\ on(a) = {last(a)}
      <2> TAKE a \in Cell
      <2> SUFFICES ASSUME NEW k \in on(a)
                   PROVE  last(a) \in on(a) /\ on(a) = {last(a)}
        BY Zenon
      <2>1. \A j \in on(a) : j = k
        <3> TAKE j \in on(a)
        <3>1. cell(j) = cell(k) /\ j \in 5 .. Len(f) /\ k \in 5 .. Len(f)
          OBVIOUS
        <3>2. k - 5 \in 0 .. (PageSize - 1) /\ j - 5 \in 0 .. (PageSize - 1)
          BY <3>1, <1>1, <1>2
        <3> QED BY <3>1, <3>2, <1>7, <1>4, <1>1, <1>2
      <2>2. on(a) = {k} /\ k <= k
        BY <2>1, <1>2
      <2>3. last(a) = k
        BY <2>2
      <2> QED BY <2>2, <2>3
    <1> HIDE DEF last
    <1>9. ASSUME o + n <= PageSize, NEW a \in Cell
           PROVE  AfterProgram(f)[a] = IF A <= a /\ a < A + n
                                       THEN BitAnd(mem[a], f[a - A + 5]) ELSE mem[a]
      <2>1. \A k \in 5 .. Len(f) : cell(k) = A + (k - 5)
        BY <1>9, <1>7, <1>4, <1>1, <1>2, <1>6 DEF n
      <2>2. a \in Nat
        BY ChipFacts DEF Cell
      <2>3. CASE A <= a /\ a < A + n
        <3>1. a - A + 5 \in 5 .. Len(f) /\ cell(a - A + 5) = a
          BY <2>1, <2>2, <2>3, <1>3, <1>2 DEF n
        <3>2. a - A + 5 \in on(a)
          BY <3>1
        <3>3. last(a) = a - A + 5
          BY <3>2, <1>8
        <3> QED BY <2>3, <3>2, <3>3, <1>5
      <2>4. CASE ~(A <= a /\ a < A + n)
        <3>1. on(a) = {}
          BY <2>1, <2>2, <2>4, <1>3, <1>2 DEF n
        <3> QED BY <2>4, <3>1, <1>5
      <2> QED BY <2>3, <2>4
    <1> QED BY <1>9, AfterProgramPage DEF A, n, o

\* What the chip executes is one of its commands.
Executable(f) == f = <<>> \/ IsErase(f) \/ IsProgram(f) \/ IsWrite(f)

\* A command that the chip executes, whole or in part, changes the cells of its sector
\* or page only.
Touched(f) == IF IsErase(f) THEN Sector(AddressOf(f))
              ELSE IF IsProgram(f) THEN Page(AddressOf(f)) ELSE {}

LEMMA CommandBytes ==
    /\ \A f : IsErase(f) => f[1] = SECTOR_ERASE /\ ~IsProgram(f) /\ ~IsWrite(f)
    /\ \A f : IsProgram(f) => f[1] = PAGE_PROGRAM /\ ~IsWrite(f)
    /\ \A f : IsWrite(f) => f[1] = WRITE_STATUS
    /\ SECTOR_ERASE # PAGE_PROGRAM /\ SECTOR_ERASE # WRITE_STATUS /\ PAGE_PROGRAM # WRITE_STATUS
    <1>1. SECTOR_ERASE # PAGE_PROGRAM /\ SECTOR_ERASE # WRITE_STATUS /\ PAGE_PROGRAM # WRITE_STATUS
      BY DEF SECTOR_ERASE, PAGE_PROGRAM, WRITE_STATUS
    <1> QED BY <1>1, Zenon DEF IsErase, IsProgram, IsWrite

LEMMA EndsFacts ==
    ASSUME ChipTypeOK, Executable(chip.todo), ChipEnds
    PROVE  /\ ChipTypeOK' /\ Busy /\ chip'.todo = <<>> /\ chip'.frame = chip.frame
           /\ \A a \in Cell \ Touched(chip.todo) : mem'[a] = mem[a]
           /\ IsErase(chip.todo) => \A a \in Sector(AddressOf(chip.todo)) : mem'[a] = 255
           /\ ~IsWrite(chip.todo) => chip'.sr1 = chip.sr1 /\ chip'.sr2 = chip.sr2
           /\ IsWrite(chip.todo) =>
                 /\ mem' = mem
                 /\ chip'.sr1 = IF (chip.todo[2] \div 4) % 2 = 1 THEN 4 ELSE 0
                 /\ Len(chip.todo) = 3 => chip'.sr2 = 2 * ((chip.todo[3] \div 2) % 4)
    <1> DEFINE f == chip.todo
               ended == [chip EXCEPT !.todo = <<>>, !.wel = FALSE]
               T == [frame : Seq(Byte), todo : Seq(Byte), wel : BOOLEAN,
                     sr1 : {0, 4}, sr2 : {0, 2, 4, 6}, id : ChipIds]
    <1>1. chip \in T /\ mem \in [Cell -> Byte] /\ f \in Seq(Byte) /\ <<>> \in Seq(Byte)
      BY DEF ChipTypeOK
    <1>2. Busy /\ f # <<>>
      BY DEF ChipEnds, Busy
    <1>3. /\ ended \in T /\ ended.todo = <<>> /\ ended.frame = chip.frame
          /\ ended.sr1 = chip.sr1 /\ ended.sr2 = chip.sr2
      BY <1>1
    <1>4. \/ f[1] = SECTOR_ERASE /\ mem' = AfterErase(f) /\ chip' = ended
          \/ f[1] = PAGE_PROGRAM /\ mem' = AfterProgram(f) /\ chip' = ended
          \/ /\ f[1] = WRITE_STATUS
             /\ \E sr2 \in IF Len(f) = 3 THEN {2 * ((f[3] \div 2) % 4)} ELSE {0, chip.sr2} :
                   chip' = [ended EXCEPT !.sr1 = IF (f[2] \div 4) % 2 = 1 THEN 4 ELSE 0,
                                         !.sr2 = sr2]
             /\ mem' = mem
      <2> DEFINE Write ==
                   /\ \E sr2 \in IF Len(f) = 3 THEN {2 * ((f[3] \div 2) % 4)} ELSE {0, chip.sr2} :
                         chip' = [ended EXCEPT !.sr1 = IF (f[2] \div 4) % 2 = 1 THEN 4 ELSE 0,
                                               !.sr2 = sr2]
                   /\ UNCHANGED mem
      <2>1. f[1] \in {SECTOR_ERASE, PAGE_PROGRAM, WRITE_STATUS}
        <3> HIDE DEF f
        <3> QED BY <1>2, CommandBytes DEF Executable, f
      <2>2. CASE f[1] = SECTOR_ERASE
        BY <2>2, CommandBytes DEF ChipEnds
      <2>3. CASE f[1] = PAGE_PROGRAM
        BY <2>3, CommandBytes DEF ChipEnds
      <2>4. CASE f[1] = WRITE_STATUS
        <3>1. Write
          BY <2>4, CommandBytes DEF ChipEnds
        <3> QED BY <3>1, <2>4 DEF Write
      <2> QED BY <2>1, <2>2, <2>3, <2>4
    <1> HIDE DEF ended
    <1>5. CASE f[1] = SECTOR_ERASE /\ mem' = AfterErase(f) /\ chip' = ended
      <2>1. IsErase(f) /\ ~IsWrite(f) /\ ~IsProgram(f)
        <3> HIDE DEF f
        <3> QED BY <1>2, <1>5, CommandBytes DEF Executable, f
      <2>2. /\ mem' \in [Cell -> Byte]
            /\ \A a \in Cell : mem'[a] = IF a \in Sector(AddressOf(f)) THEN 255 ELSE mem[a]
        BY <1>1, <1>5, AfterEraseFacts
      <2>3. Sector(AddressOf(f)) \subseteq Cell
        BY DEF Sector
      <2> QED BY <2>1, <2>2, <2>3, <1>2, <1>3, <1>5 DEF ChipTypeOK, T, Touched
    <1>6. CASE f[1] = PAGE_PROGRAM /\ mem' = AfterProgram(f) /\ chip' = ended
      <2>1. IsProgram(f) /\ ~IsWrite(f) /\ ~IsErase(f)
        <3> HIDE DEF f
        <3> QED BY <1>2, <1>6, CommandBytes DEF Executable, f
      <2>2. Len(f) > 4
        <3>1. \A n \in 5 .. MaxFrame : n > 4
          BY ChipFacts
        <3> QED BY <3>1, <2>1 DEF IsProgram
      <2>3. /\ mem' \in [Cell -> Byte]
            /\ \A a \in Cell \ Page(AddressOf(f)) : mem'[a] = mem[a]
        BY <1>1, <1>6, <2>2, AfterProgramPage
      <2> QED BY <2>1, <2>3, <1>2, <1>3, <1>6 DEF ChipTypeOK, T, Touched
    <1>7. ASSUME f[1] = WRITE_STATUS, mem' = mem,
                 NEW sr2 \in IF Len(f) = 3 THEN {2 * ((f[3] \div 2) % 4)} ELSE {0, chip.sr2},
                 chip' = [ended EXCEPT !.sr1 = IF (f[2] \div 4) % 2 = 1 THEN 4 ELSE 0,
                                       !.sr2 = sr2]
          PROVE  /\ ChipTypeOK' /\ chip'.todo = <<>> /\ chip'.frame = chip.frame
                 /\ IsWrite(f) /\ ~IsErase(f) /\ ~IsProgram(f)
                 /\ chip'.sr1 = IF (f[2] \div 4) % 2 = 1 THEN 4 ELSE 0
                 /\ Len(f) = 3 => chip'.sr2 = 2 * ((f[3] \div 2) % 4)
      <2>1. IsWrite(f) /\ ~IsErase(f) /\ ~IsProgram(f)
        <3> HIDE DEF f
        <3> QED BY <1>2, <1>7, CommandBytes DEF Executable, f
      <2>2. sr2 \in {0, 2, 4, 6}
        <3>1. CASE Len(f) = 3
          <4>1. f[3] \in Byte
            BY <3>1, <1>1, ElementOfSeq
          <4>2. \A b \in Byte : (b \div 2) % 4 \in {0, 1, 2, 3}
            BY DEF Byte
          <4>3. \A n \in {0, 1, 2, 3} : 2 * n \in {0, 2, 4, 6}
            OBVIOUS
          <4>4. sr2 = 2 * ((f[3] \div 2) % 4)
            BY <3>1
          <4> QED BY <4>1, <4>2, <4>3, <4>4
        <3>2. CASE Len(f) # 3
          BY <3>2, <1>1
        <3> QED BY <3>1, <3>2
      <2> DEFINE r == IF (f[2] \div 4) % 2 = 1 THEN 4 ELSE 0
      <2>3. r \in {0, 4} /\ chip' = [ended EXCEPT !.sr1 = r, !.sr2 = sr2]
        BY <1>7
      <2> HIDE DEF r
      <2>4. /\ chip' \in T /\ chip'.todo = <<>> /\ chip'.frame = chip.frame
            /\ chip'.sr1 = r /\ chip'.sr2 = sr2
        BY <2>2, <2>3, <1>3
      <2> QED BY <2>1, <2>4, <1>1, <1>7 DEF ChipTypeOK, T, r
    <1>8. CASE f[1] = WRITE_STATUS /\ chip'.todo = <<>> /\ chip'.frame = chip.frame
               /\ IsWrite(f) /\ ~IsErase(f) /\ ~IsProgram(f) /\ mem' = mem
      BY <1>2, <1>4, <1>7, <1>8, CommandBytes DEF Touched
    <1> QED BY <1>4, <1>5, <1>6, <1>7, <1>8

LEMMA PowerFacts ==
    ASSUME ChipTypeOK, Executable(chip.todo), ChipLosesPower
    PROVE  /\ ChipTypeOK' /\ chip'.frame = <<>> /\ chip'.todo = <<>>
           /\ chip'.sr1 = chip.sr1 /\ chip'.sr2 = chip.sr2
           /\ \A a \in Cell \ Touched(chip.todo) : mem'[a] = mem[a]
    <1> DEFINE f == chip.todo
               half(after) == [a \in Cell |-> IF a % 2 = 0 THEN after[a] ELSE mem[a]]
    <1>1. chip' = [chip EXCEPT !.frame = <<>>, !.todo = <<>>, !.wel = FALSE]
      BY DEF ChipLosesPower
    <1>2. /\ chip' \in [frame : Seq(Byte), todo : Seq(Byte), wel : BOOLEAN,
                        sr1 : {0, 4}, sr2 : {0, 2, 4, 6}, id : ChipIds]
          /\ chip'.frame = <<>> /\ chip'.todo = <<>>
          /\ chip'.sr1 = chip.sr1 /\ chip'.sr2 = chip.sr2
      BY <1>1, EmptySeq DEF ChipTypeOK
    <1>3. mem \in [Cell -> Byte] /\ f \in Seq(Byte)
      BY DEF ChipTypeOK
    <1>4. ASSUME NEW after \in [Cell -> Byte], \A a \in Cell \ Touched(f) : after[a] = mem[a]
          PROVE  /\ half(after) \in [Cell -> Byte]
                 /\ \A a \in Cell \ Touched(f) : half(after)[a] = mem[a]
      BY <1>3, <1>4
    <1>5. \/ mem' = mem
          \/ f # <<>> /\ f[1] = SECTOR_ERASE /\ mem' = half(AfterErase(f))
          \/ f # <<>> /\ f[1] = PAGE_PROGRAM /\ mem' = half(AfterProgram(f))
      <2>1. mem' \in {mem} \cup IF ~Busy THEN {}
                               ELSE CASE f[1] = SECTOR_ERASE -> {half(AfterErase(f))}
                                      [] f[1] = PAGE_PROGRAM -> {half(AfterProgram(f))}
                                      [] OTHER -> {}
        BY DEF ChipLosesPower
      <2> HIDE DEF half
      <2> QED BY <2>1, CommandBytes DEF Busy
    <1> HIDE DEF half
    <1>6. mem' \in [Cell -> Byte] /\ \A a \in Cell \ Touched(f) : mem'[a] = mem[a]
      <2>1. CASE mem' = mem
        BY <2>1, <1>3
      <2>2. CASE f # <<>> /\ f[1] = SECTOR_ERASE /\ mem' = half(AfterErase(f))
        <3>1. IsErase(f)
          <4> HIDE DEF f
          <4> QED BY <2>2, CommandBytes DEF Executable, f
        <3>2. /\ AfterErase(f) \in [Cell -> Byte]
              /\ \A a \in Cell : AfterErase(f)[a] = IF a \in Sector(AddressOf(f)) THEN 255 ELSE mem[a]
          BY <1>3, AfterEraseFacts
        <3>3. \A a \in Cell \ Touched(f) : AfterErase(f)[a] = mem[a]
          BY <3>1, <3>2 DEF Touched
        <3> QED BY <2>2, <3>2, <3>3, <1>4
      <2>3. CASE f # <<>> /\ f[1] = PAGE_PROGRAM /\ mem' = half(AfterProgram(f))
        <3>1. IsProgram(f) /\ ~IsErase(f)
          <4> HIDE DEF f
          <4> QED BY <2>3, CommandBytes DEF Executable, f
        <3>2. Len(f) > 4
          <4>1. \A n \in 5 .. MaxFrame : n > 4
            BY ChipFacts
          <4> QED BY <4>1, <3>1 DEF IsProgram
        <3>3. /\ AfterProgram(f) \in [Cell -> Byte]
              /\ \A a \in Cell \ Page(AddressOf(f)) : AfterProgram(f)[a] = mem[a]
          BY <1>3, <3>2, AfterProgramPage
        <3>4. \A a \in Cell \ Touched(f) : AfterProgram(f)[a] = mem[a]
          BY <3>1, <3>3 DEF Touched
        <3> QED BY <2>3, <3>3, <3>4, <1>4
      <2> QED BY <1>5, <2>1, <2>2, <2>3
    <1> QED BY <1>2, <1>6 DEF ChipTypeOK
=============================================================================
