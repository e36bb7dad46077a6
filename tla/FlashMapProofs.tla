--------------------------- MODULE FlashMapProofs ---------------------------
(***************************************************************************)
(* Proofs about FlashMap, for every device geometry, flash map, caller and *)
(* number of calls its assumptions admit.                                  *)
(***************************************************************************)
EXTENDS FlashMap, SequenceTheorems, TLAPS

-----------------------------------------------------------------------------
(* Arithmetic of FLOOR_ALIGN, CEILING_ALIGN and aligned loops.             *)

\* The quotient and the remainder behind FLOOR_ALIGN and the item loops.
LEMMA DivModFacts ==
    ASSUME NEW n \in Nat, NEW u \in Nat \ {0}
    PROVE  /\ n \div u \in Nat /\ n % u \in 0 .. (u - 1)
           /\ n = u * (n \div u) + (n % u) /\ n % u <= n
    BY SMT

\* A multiple of u is aligned, and dividing it by u gives the factor back.
LEMMA MultipleFact ==
    ASSUME NEW q \in Nat, NEW u \in Nat \ {0}
    PROVE  (u * q) % u = 0 /\ (u * q) \div u = q /\ u * q \in Nat
    BY SMT

\* The sum of two multiples of u is one, and so is their difference.
LEMMA AlignedSum ==
    ASSUME NEW a \in Nat, NEW b \in Nat, NEW u \in Nat \ {0}, a % u = 0, b % u = 0
    PROVE  (a + b) % u = 0
    <1>1. a = u * (a \div u) /\ b = u * (b \div u) /\ a \div u \in Nat /\ b \div u \in Nat
      BY DivModFacts
    <1>2. a + b = u * ((a \div u) + (b \div u))
      BY <1>1, SMT
    <1> DEFINE q == (a \div u) + (b \div u)
    <1>3. q \in Nat
      BY <1>1
    <1> QED BY <1>2, <1>3, MultipleFact

\* The length of a range with aligned ends is aligned: the whole units of a
\* write come out as a multiple of FLASH_PROGRAM_UNIT.
LEMMA AlignedDifference ==
    ASSUME NEW a \in Nat, NEW b \in Nat, NEW u \in Nat \ {0}, a % u = 0, b % u = 0, b <= a
    PROVE  (a - b) % u = 0
    <1> DEFINE p == a \div u
               q == b \div u
    <1>1. a = u * p /\ b = u * q /\ p \in Nat /\ q \in Nat
      BY DivModFacts
    <1> HIDE DEF p, q
    <1>2. q <= p
      <2>1. p < q => u * p < u * q
        BY <1>1, SMT
      <2> QED BY <1>1, <2>1
    <1>3. a - b = u * (p - q) /\ p - q \in Nat
      BY <1>1, <1>2, SMT
    <1> QED BY <1>3, MultipleFact

\* A loop over aligned positions does not run past an aligned end.
LEMMA AlignedStep ==
    ASSUME NEW a \in Nat, NEW b \in Nat, NEW u \in Nat \ {0}, a % u = 0, b % u = 0, a < b
    PROVE  a + u <= b
    <1> DEFINE p == a \div u
               q == b \div u
    <1>1. a = u * p /\ b = u * q /\ p \in Nat /\ q \in Nat
      BY DivModFacts
    <1>2. p < q
      <2>1. SUFFICES ASSUME q <= p PROVE FALSE
        BY <1>1
      <2>2. u * q <= u * p
        BY <1>1, <2>1, SMT
      <2> QED BY <1>1, <2>2
    <1> HIDE DEF p, q
    <1>3. u * (p + 1) <= u * q
      BY <1>1, <1>2, SMT
    <1> QED BY <1>1, <1>3, SMT

\* FLOOR_ALIGN gives the greatest multiple of u that is not above n.
LEMMA FloorFacts ==
    ASSUME NEW n \in Nat, NEW u \in Nat \ {0}
    PROVE  /\ Floor(n, u) \in Nat /\ Floor(n, u) <= n /\ n < Floor(n, u) + u
           /\ Floor(n, u) % u = 0 /\ n % u = n - Floor(n, u)
    <1>1. Floor(n, u) = u * (n \div u) /\ n \div u \in Nat
      BY DivModFacts DEF Floor
    <1>2. Floor(n, u) % u = 0
      BY <1>1, MultipleFact
    <1>3. n % u \in 0 .. (u - 1) /\ n % u <= n
      BY DivModFacts
    <1> QED BY <1>2, <1>3 DEF Floor

\* CEILING_ALIGN gives the least multiple of u that is not below n.
LEMMA CeilingFacts ==
    ASSUME NEW n \in Nat, NEW u \in Nat \ {0}
    PROVE  /\ Ceiling(n, u) \in Nat /\ n <= Ceiling(n, u) /\ Ceiling(n, u) < n + u
           /\ Ceiling(n, u) % u = 0
    <1>1. n + (u - 1) \in Nat
      OBVIOUS
    <1>2. /\ Floor(n + (u - 1), u) \in Nat /\ n + (u - 1) < Floor(n + (u - 1), u) + u
          /\ Floor(n + (u - 1), u) <= n + (u - 1) /\ Floor(n + (u - 1), u) % u = 0
      BY <1>1, FloorFacts
    <1> QED BY <1>2 DEF Ceiling

\* A multiple of a multiple of w is a multiple of w, and counting it in items
\* of w bytes and back loses nothing.
LEMMA AlignedItems ==
    ASSUME NEW a \in Nat, NEW u \in Nat \ {0}, NEW w \in Nat \ {0}, a % u = 0, u % w = 0
    PROVE  a % w = 0 /\ (a \div w) * w = a /\ a \div w \in Nat
    <1> DEFINE q == a \div u
               r == u \div w
    <1>1. a = u * q /\ q \in Nat /\ u = w * r /\ r \in Nat
      BY DivModFacts
    <1> HIDE DEF q, r
    <1>2. a = w * (r * q) /\ r * q \in Nat
      BY <1>1, SMT
    <1>3. a % w = 0
      BY <1>2, MultipleFact
    <1> QED BY <1>3, DivModFacts

-----------------------------------------------------------------------------
(* The arithmetic of flash_area_write.                                     *)

\* What flash_area_write reads back before and after the caller's bytes fills
\* the units at both ends, each with less than a unit.
LEMMA PaddingFacts ==
    ASSUME call.off \in Nat, call.len \in Nat
    PROVE  /\ AddPadding \in 0 .. (FLASH_PROGRAM_UNIT - 1)
           /\ AlignedOff \in Nat /\ AlignedOff + AddPadding = call.off
           /\ AlignedLen \in Nat /\ AlignedLen % FLASH_PROGRAM_UNIT = 0
           /\ AlignedLen < call.len + AddPadding + FLASH_PROGRAM_UNIT
           /\ LenPadding \in 0 .. (FLASH_PROGRAM_UNIT - 1)
           /\ LenPadding = AlignedLen - call.len - AddPadding
    <1>1. FLASH_PROGRAM_UNIT \in Nat \ {0}
      BY AreaAssumption
    <1>2. AddPadding \in 0 .. (FLASH_PROGRAM_UNIT - 1)
      BY <1>1, DivModFacts DEF AddPadding
    <1>3. AlignedOff \in Nat /\ AddPadding = call.off - AlignedOff
      BY <1>1, FloorFacts DEF AlignedOff, AddPadding
    <1>4. call.len + AddPadding \in Nat
      BY <1>2
    <1>5. /\ AlignedLen \in Nat /\ AlignedLen % FLASH_PROGRAM_UNIT = 0
          /\ call.len + AddPadding <= AlignedLen
          /\ AlignedLen < call.len + AddPadding + FLASH_PROGRAM_UNIT
      BY <1>1, <1>4, CeilingFacts DEF AlignedLen
    <1>6. LenPadding = AlignedLen - call.len - AddPadding
      BY DEF LenPadding
    <1> QED BY <1>1, <1>2, <1>3, <1>5, <1>6

\* The cuts between the first unit, the whole units and the last unit.
LEMMA CutFacts ==
    ASSUME call.off \in Nat, call.len \in Nat
    PROVE  /\ FirstLen \in 0 .. call.len
           /\ AddPadding = 0 => FirstLen = 0
           /\ AddPadding > 0 => /\ AddPadding + FirstLen <= FLASH_PROGRAM_UNIT
                                /\ FirstLen < call.len => AddPadding + FirstLen = FLASH_PROGRAM_UNIT
           /\ WriteSize \in Nat /\ WriteSize % FLASH_PROGRAM_UNIT = 0
           /\ LastStart = FirstLen + WriteSize /\ LastStart \in 0 .. call.len
           /\ LastLen = call.len - LastStart /\ LastLen \in 0 .. (FLASH_PROGRAM_UNIT - 1)
    <1>1. FLASH_PROGRAM_UNIT \in Nat \ {0} /\ AddPadding \in 0 .. (FLASH_PROGRAM_UNIT - 1)
      BY AreaAssumption, PaddingFacts
    <1>2. /\ FirstLen \in 0 .. call.len
          /\ AddPadding = 0 => FirstLen = 0
          /\ AddPadding > 0 => /\ AddPadding + FirstLen <= FLASH_PROGRAM_UNIT
                               /\ FirstLen < call.len => AddPadding + FirstLen = FLASH_PROGRAM_UNIT
      BY <1>1 DEF FirstLen, Least
    <1>3. call.len - FirstLen \in Nat
      BY <1>2
    <1>4. /\ WriteSize \in Nat /\ WriteSize <= call.len - FirstLen
          /\ call.len - FirstLen < WriteSize + FLASH_PROGRAM_UNIT
          /\ WriteSize % FLASH_PROGRAM_UNIT = 0
      BY <1>1, <1>3, FloorFacts DEF WriteSize
    <1>5. LastStart = FirstLen + WriteSize
      BY DEF LastStart
    <1>6. LastLen = call.len - LastStart
      BY <1>1, <1>2, <1>4, <1>5 DEF LastLen, Least
    <1> QED BY <1>1, <1>2, <1>4, <1>5, <1>6

\* The units flash_area_write builds are full: the checks it makes of its own
\* arithmetic always pass.
LEMMA UnitsFilled ==
    ASSUME call.off \in Nat, call.len \in Nat
    PROVE  /\ AddPadding > 0 => FirstUnit.filled
           /\ FirstLen < call.len /\ LenPadding > 0 => LastUnit.filled
    <1> DEFINE U == FLASH_PROGRAM_UNIT
    <1>0. U \in Nat \ {0} /\ U % U = 0 /\ 0 % U = 0
      BY AreaAssumption, MultipleFact, DivModFacts
    <1> HIDE DEF U
    <1>1. /\ AddPadding \in 0 .. (U - 1) /\ AlignedLen \in Nat /\ AlignedLen % U = 0
          /\ AlignedLen < call.len + AddPadding + U
          /\ LenPadding \in 0 .. (U - 1) /\ LenPadding = AlignedLen - call.len - AddPadding
      BY PaddingFacts DEF U
    <1>2. /\ FirstLen \in 0 .. call.len
          /\ AddPadding = 0 => FirstLen = 0
          /\ AddPadding > 0 => /\ AddPadding + FirstLen <= U
                               /\ FirstLen < call.len => AddPadding + FirstLen = U
          /\ WriteSize \in Nat /\ WriteSize % U = 0
          /\ LastStart = FirstLen + WriteSize /\ LastStart \in 0 .. call.len
          /\ LastLen = call.len - LastStart /\ LastLen \in 0 .. (U - 1)
      BY CutFacts DEF U
    <1>3. ASSUME AddPadding > 0 PROVE FirstUnit.filled
      <2>0. FirstUnit.filled = (AddPadding + FirstLen
                                  + (IF FirstLen = call.len THEN LenPadding ELSE 0) = U)
        BY DEF FirstUnit, U
      <2>1. CASE FirstLen < call.len
        <3>1. FirstLen # call.len /\ AddPadding + FirstLen + 0 = U
          BY <1>1, <1>2, <1>3, <2>1
        <3> QED BY <2>0, <3>1
      <2>2. CASE FirstLen = call.len
        <3>1. 0 < AlignedLen /\ AlignedLen < U + U
          BY <1>0, <1>1, <1>2, <1>3, <2>2
        <3>2. U <= AlignedLen
          BY <1>0, <1>1, <3>1, AlignedStep
        <3>3. U < AlignedLen => U + U <= AlignedLen
          BY <1>0, <1>1, AlignedStep
        <3>4. AddPadding + FirstLen + LenPadding = U
          BY <1>0, <1>1, <1>2, <2>2, <3>1, <3>2, <3>3
        <3> QED BY <2>0, <2>2, <3>4
      <2> QED BY <1>2, <2>1, <2>2
    <1>4. ASSUME FirstLen < call.len, LenPadding > 0 PROVE LastUnit.filled
      <2> DEFINE s == AddPadding + FirstLen + WriteSize
      <2>1. (AddPadding + FirstLen) % U = 0 /\ AddPadding + FirstLen \in Nat
        BY <1>0, <1>1, <1>2, <1>4
      <2>2. s \in Nat /\ s % U = 0
        <3> DEFINE f == AddPadding + FirstLen
        <3>1. f \in Nat /\ f % U = 0 /\ s = f + WriteSize
          BY <2>1
        <3> HIDE DEF f, s
        <3>2. U \in Nat \ {0} /\ WriteSize \in Nat /\ WriteSize % U = 0
          BY <1>0, <1>2
        <3>3. (f + WriteSize) % U = 0
          BY <3>1, <3>2, AlignedSum, Zenon
        <3> QED BY <3>1, <3>2, <3>3
      <2>3. s < AlignedLen /\ AlignedLen < s + U + U
        BY <1>0, <1>1, <1>2, <1>4
      <2>4. s + U \in Nat /\ (s + U) % U = 0
        BY <1>0, <2>2, AlignedSum
      <2> HIDE DEF s
      <2>5. s + U <= AlignedLen
        BY <1>0, <1>1, <2>2, <2>3, AlignedStep
      <2>6. ~(s + U < AlignedLen)
        <3>1. s + U < AlignedLen => s + U + U <= AlignedLen
          BY <1>0, <1>1, <2>4, AlignedStep
        <3> QED BY <1>0, <1>1, <2>2, <2>3, <3>1
      <2>7. AlignedLen = s + U
        BY <1>0, <1>1, <2>2, <2>5, <2>6
      <2> QED BY <1>0, <1>1, <1>2, <2>7 DEF LastUnit, U, s
    <1> QED BY <1>3, <1>4

-----------------------------------------------------------------------------
(* flash_area_read gives the bytes of the area at off.                     *)

\* flash_area_read starts with at most len bytes of the first item.
LEMMA CutOfRead ==
    ASSUME NEW off \in Nat, NEW len \in Nat
    PROVE  HeadLen(off, len) \in 0 .. len /\ TailAt(off, len) \in Nat
    <1>1. DataWidth \in Nat \ {0} /\ off % DataWidth \in 0 .. (DataWidth - 1)
      BY DriverAssumption, DivModFacts
    <1>2. HeadLen(off, len) \in 0 .. len
      BY <1>1 DEF HeadLen
    <1>3. ItemNumber(off, len) \in Nat
      <2>1. len - HeadLen(off, len) \in Nat
        BY <1>2
      <2> QED BY <1>1, <2>1, DivModFacts DEF ItemNumber
    <1>4. ItemNumber(off, len) * DataWidth \in Nat
      BY <1>1, <1>3, SMT
    <1> QED BY <1>2, <1>4 DEF TailAt

\* Every byte of an area of the flash map is a byte of the device.
LEMMA AreaInDevice ==
    ASSUME NEW area \in Areas
    PROVE  /\ fa_off[area] \in Nat /\ fa_size[area] \in Nat \ {0} /\ MemoryBase \in Nat
           /\ \A n \in Nat : n < fa_size[area] => fa_off[area] + n \in Addr
    <1>1. FlashSize \in Nat
      BY DriverAssumption DEF FlashSize
    <1>2. /\ fa_off[area] \in Nat /\ fa_size[area] \in Nat \ {0} /\ MemoryBase \in Nat
          /\ MemoryBase <= fa_off[area]
          /\ fa_off[area] + fa_size[area] <= MemoryBase + FlashSize
      BY AreaAssumption, DriverAssumption
    <1> QED BY <1>1, <1>2 DEF Addr

\* flash_area_read stores exactly the bytes of the device at off, wherever it is cut.
LEMMA ReadBytesExact ==
    ASSUME NEW off \in Nat, NEW len \in Nat, call.area \in Areas
    PROVE  ReadBytes(off, len) = [n \in 1 .. len |-> flash[base + off + n - 1]]
    <1>1. base \in Nat
      BY AreaInDevice DEF base
    <1>2. HeadLen(off, len) \in 0 .. len /\ TailAt(off, len) \in Nat
      BY CutOfRead
    <1>3. Floor(off, DataWidth) \in Nat
      BY DriverAssumption, FloorFacts
    <1> QED BY <1>1, <1>2, <1>3 DEF ReadBytes

\* They are bytes, and as many as the caller asked for.
LEMMA ReadBytesFacts ==
    ASSUME NEW off \in Nat, NEW len \in Nat, call.area \in Areas,
           off + len <= fa_size[call.area], flash \in [Addr -> Byte]
    PROVE  /\ ReadBytes(off, len) \in Buffer
           /\ Len(ReadBytes(off, len)) = len
           /\ \A n \in 1 .. len : ReadBytes(off, len)[n] = flash[base + off + n - 1]
    <1>1. base \in Nat /\ fa_size[call.area] \in Nat
      BY AreaInDevice DEF base
    <1> DEFINE b == [n \in 1 .. len |-> flash[base + off + n - 1]]
    <1>4. ReadBytes(off, len) = b
      BY ReadBytesExact
    <1>5. \A n \in 1 .. len : flash[base + off + n - 1] \in Byte
      <2> TAKE n \in 1 .. len
      <2>1. off + n - 1 \in Nat /\ off + n - 1 < fa_size[call.area]
        BY <1>1
      <2>2. base + (off + n - 1) \in Addr
        BY <2>1, AreaInDevice DEF base
      <2>3. base + off + n - 1 = base + (off + n - 1)
        BY <1>1
      <2> QED BY <2>2, <2>3
    <1>6. b \in Seq(Byte) /\ Len(b) = len
      BY <1>5
    <1> HIDE DEF b
    <1>7. \A n \in 1 .. len : b[n] = flash[base + off + n - 1]
      BY DEF b
    <1> QED BY <1>4, <1>6, <1>7 DEF Buffer

-----------------------------------------------------------------------------
(* The inductive invariant.                                                *)

Busy == {"first", "whole", "last"}

\* The call that runs is the one whose arguments is_range_valid admitted.
CallInv ==
    /\ pc \in {"read", "write", "erase"} \cup Busy =>
           IsRangeValid(call.area, call.off, call.len)
    /\ pc = "read" => call.op = "read"
    /\ pc \in {"write"} \cup Busy => call.op = "write"
    /\ pc = "erase" => call.op = "erase"
    /\ call.op = "write" => Len(call.src) >= FlashSize

\* Data to be programmed at addr gives the bytes outside the target back.
Restores(addr, sz, data) ==
    \A a \in Addr : (addr <= a /\ a < addr + sz /\ a \notin Target) => data[a - addr + 1] = pre[a]

DriverInv ==
    /\ drv.op = "program" =>
           /\ pc \in Busy /\ Len(drv.data) = drv.sz
           /\ drv.sz % ProgramUnit = 0 /\ drv.dst % ProgramUnit = 0
           /\ Restores(drv.addr, drv.sz, drv.data)
    /\ drv.op = "erase" =>
           /\ pc = "erase" /\ deleted < call.len
           /\ drv.addr = base + call.off + deleted /\ IsSectorAligned(drv.addr)
    /\ drv.op = "done" => pc \in Busy \/ (pc = "erase" /\ deleted < call.len)

\* The padding holds the bytes around the write, and the unit being made exists.
PaddingInv ==
    pc \in Busy =>
        /\ AlignedOff + AlignedLen <= fa_size[call.area]
        /\ Len(padding.add) = AddPadding
        /\ \A k \in 1 .. AddPadding : padding.add[k] = pre[base + AlignedOff + k - 1]
        /\ Len(padding.len) = LenPadding
        /\ \A k \in 1 .. LenPadding : padding.len[k] = pre[base + (call.off + call.len) + k - 1]
        /\ pc = "first" => AddPadding > 0
        /\ pc = "last" => FirstLen < call.len /\ LenPadding > 0

IInv ==
    /\ TypeOK /\ CallInv /\ DriverInv /\ PaddingInv
    /\ deleted % SectorSize = 0
    /\ Confined

\* Three buffers end to end.
LEMMA Concat3 ==
    ASSUME NEW s \in Buffer, NEW t \in Buffer, NEW u \in Buffer
    PROVE  /\ s \o t \o u \in Buffer
           /\ Len(s \o t \o u) = Len(s) + Len(t) + Len(u)
           /\ \A k \in 1 .. Len(s) : (s \o t \o u)[k] = s[k]
           /\ \A k \in 1 .. Len(u) : (s \o t \o u)[Len(s) + Len(t) + k] = u[k]
    BY DEF Buffer

\* Two buffers end to end.
LEMMA Concat2 ==
    ASSUME NEW s \in Buffer, NEW t \in Buffer
    PROVE  /\ s \o t \in Buffer
           /\ Len(s \o t) = Len(s) + Len(t)
           /\ \A k \in 1 .. Len(t) : (s \o t)[Len(s) + k] = t[k]
    BY DEF Buffer

\* A stretch of the caller's buffer that does not leave it.
LEMMA PartOfBuffer ==
    ASSUME NEW s \in Buffer, NEW m \in Nat, NEW n \in Nat, m + n <= Len(s)
    PROVE  SubSeq(s, m + 1, m + n) \in Buffer /\ Len(SubSeq(s, m + 1, m + n)) = n
    <1>1. \A i \in (m + 1) .. (m + n) : s[i] \in Byte
      BY DEF Buffer
    <1>2. Len(SubSeq(s, m + 1, m + n)) = IF m + 1 <= m + n THEN m + n - (m + 1) + 1 ELSE 0
      BY <1>1, SubSeqProperties
    <1> QED BY <1>1, <1>2, SubSeqProperties DEF Buffer

\* The first n bytes of the caller's buffer.
LEMMA PrefixOfBuffer ==
    ASSUME NEW s \in Buffer, NEW n \in Nat, n <= Len(s)
    PROVE  SubSeq(s, 1, n) \in Buffer /\ Len(SubSeq(s, 1, n)) = n
    <1>1. \A i \in 1 .. n : s[i] \in Byte
      BY DEF Buffer
    <1>2. Len(SubSeq(s, 1, n)) = IF 1 <= n THEN n - 1 + 1 ELSE 0
      BY <1>1, SubSeqProperties
    <1> QED BY <1>1, <1>2, SubSeqProperties DEF Buffer

\* A write may change the bytes from off to off + len of its area.
LEMMA WriteTarget ==
    ASSUME call.op = "write", IsRangeValid(call.area, call.off, call.len)
    PROVE  Target = {a \in Addr : base + call.off <= a /\ a < base + call.off + call.len}
    BY DEF Target

\* The arguments of a call are numbers and name an area of the flash map.
LEMMA CallFacts ==
    ASSUME TypeOK
    PROVE  /\ call.off \in Nat /\ call.len \in Nat /\ call.area \in Areas
           /\ base \in Nat /\ fa_size[call.area] \in Nat
    <1>1. WordMod \in Nat
      BY DriverAssumption
    <1>2. call.off \in Nat /\ call.len \in Nat /\ call.area \in Areas
      BY <1>1 DEF TypeOK, Word
    <1> QED BY <1>2, AreaInDevice DEF base

\* Whichever of the three units is next: its data is there, and it gives the
\* bytes outside the target back.
JobOK ==
    /\ Job.filled /\ Job.addr \in Nat
    /\ Job.len \in Nat /\ Job.len % FLASH_PROGRAM_UNIT = 0
    /\ Job.data \in Buffer /\ Len(Job.data) = Job.len
    /\ Restores(Job.addr, Job.len, Job.data)

\* Each of the three ProgramData calls of a write is for whole aligned units
\* within the area, and outside the caller's bytes its data is what was there.
LEMMA JobFacts ==
    ASSUME IInv, pc \in Busy
    PROVE  JobOK
    <1> DEFINE U == FLASH_PROGRAM_UNIT
    <1>0. U \in Nat \ {0} /\ U % U = 0
      BY AreaAssumption, MultipleFact, DivModFacts
    <1> HIDE DEF U
    <1>1. /\ call.off \in Nat /\ call.len \in Nat /\ call.area \in Areas
          /\ base \in Nat /\ fa_size[call.area] \in Nat
      BY CallFacts DEF IInv
    <1>2. /\ AddPadding \in 0 .. (U - 1) /\ AlignedOff \in Nat
          /\ AlignedOff + AddPadding = call.off
          /\ LenPadding \in 0 .. (U - 1)
      BY <1>1, PaddingFacts DEF U
    <1>3. /\ FirstLen \in 0 .. call.len
          /\ WriteSize \in Nat /\ WriteSize % U = 0
          /\ LastStart = FirstLen + WriteSize /\ LastStart \in 0 .. call.len
          /\ LastLen = call.len - LastStart /\ LastLen \in 0 .. (U - 1)
      BY <1>1, CutFacts DEF U
    <1>4. /\ padding.add \in Buffer /\ padding.len \in Buffer /\ call.src \in Buffer
          /\ Len(padding.add) = AddPadding /\ Len(padding.len) = LenPadding
          /\ \A k \in 1 .. AddPadding : padding.add[k] = pre[base + AlignedOff + k - 1]
          /\ \A k \in 1 .. LenPadding : padding.len[k] = pre[base + (call.off + call.len) + k - 1]
      BY DEF IInv, TypeOK, PaddingInv, Busy
    <1>5. Target = {a \in Addr : base + call.off <= a /\ a < base + call.off + call.len}
      <2>1. call.op = "write" /\ IsRangeValid(call.area, call.off, call.len)
        BY DEF IInv, CallInv, Busy
      <2> QED BY <2>1, WriteTarget
    <1>6. call.len <= Len(call.src)
      <2>1. /\ call.op = "write" /\ Len(call.src) >= FlashSize
            /\ call.off + call.len <= fa_size[call.area]
        BY DEF IInv, CallInv, Busy, IsRangeValid
      <2>2. /\ fa_off[call.area] \in Nat /\ fa_size[call.area] \in Nat
            /\ MemoryBase \in Nat /\ FlashSize \in Nat
            /\ MemoryBase <= fa_off[call.area]
            /\ fa_off[call.area] + fa_size[call.area] <= MemoryBase + FlashSize
        BY <1>1, AreaAssumption, DriverAssumption DEF FlashSize
      <2>3. Len(call.src) \in Nat
        BY <1>4 DEF Buffer
      <2>4. fa_size[call.area] <= FlashSize
        BY <2>2
      <2> QED BY <1>1, <2>1, <2>2, <2>3, <2>4
    <1>7. \A a \in Addr : a \in Int
      BY DriverAssumption DEF Addr
    <1>8. Len(call.src) \in Nat
      BY <1>4 DEF Buffer
    <1>a. CASE pc = "first"
      <2>1. AddPadding > 0 /\ Job = FirstUnit
        BY <1>a DEF IInv, PaddingInv, Busy, Job
      <2>2. FirstUnit.filled
        BY <1>1, <2>1, UnitsFilled
      <2> DEFINE part == SubSeq(call.src, 1, FirstLen)
                 rest == IF FirstLen = call.len THEN padding.len ELSE NoData
      <2>3. part \in Buffer /\ Len(part) = FirstLen
        <3>1. FirstLen \in Nat /\ FirstLen <= Len(call.src)
          BY <1>1, <1>3, <1>6, <1>8
        <3> QED BY <1>4, <3>1, PrefixOfBuffer
      <2>4. rest \in Buffer /\ Len(rest) = IF FirstLen = call.len THEN LenPadding ELSE 0
        BY <1>4 DEF NoData, Buffer
      <2>5. /\ FirstUnit.addr = base + AlignedOff /\ FirstUnit.len = U
            /\ FirstUnit.data = padding.add \o part \o rest
            /\ AddPadding + FirstLen + (IF FirstLen = call.len THEN LenPadding ELSE 0) = U
        BY <2>2 DEF FirstUnit, U
      <2> HIDE DEF part, rest
      <2> DEFINE d == padding.add \o part \o rest
      <2>6. /\ d \in Buffer /\ Len(d) = U
            /\ \A k \in 1 .. AddPadding : d[k] = padding.add[k]
            /\ \A k \in 1 .. Len(rest) : d[AddPadding + FirstLen + k] = rest[k]
        <3>1. /\ d \in Buffer /\ Len(d) = Len(padding.add) + Len(part) + Len(rest)
              /\ \A k \in 1 .. Len(padding.add) : d[k] = padding.add[k]
              /\ \A k \in 1 .. Len(rest) : d[Len(padding.add) + Len(part) + k] = rest[k]
          <4>1. padding.add \in Buffer /\ part \in Buffer /\ rest \in Buffer
            BY <1>4, <2>3, <2>4
          <4> QED BY <4>1, Concat3, ZenonT(30)
        <3> HIDE DEF d
        <3>2. Len(d) = U
          BY <1>4, <2>3, <2>4, <2>5, <3>1
        <3> QED BY <1>4, <2>3, <3>1, <3>2
      <2> HIDE DEF d
      <2>7. Restores(base + AlignedOff, U, d)
        <3> SUFFICES ASSUME NEW a \in Addr, base + AlignedOff <= a,
                            a < base + AlignedOff + U, a \notin Target
                     PROVE  d[a - (base + AlignedOff) + 1] = pre[a]
          BY DEF Restores
        <3> DEFINE k == a - (base + AlignedOff) + 1
        <3>1. k \in 1 .. U /\ a = base + AlignedOff + k - 1
          BY <1>0, <1>1, <1>2, <1>7
        <3>2. CASE a < base + call.off
          <4>1. k \in 1 .. AddPadding
            BY <1>1, <1>2, <1>7, <3>1, <3>2
          <4> QED BY <1>4, <2>6, <3>1, <4>1
        <3>3. CASE a >= base + call.off + call.len
          <4>1. FirstLen = call.len
            <5>1. SUFFICES ASSUME FirstLen # call.len PROVE FALSE
              OBVIOUS
            <5>2. AddPadding + FirstLen = U /\ FirstLen < call.len /\ FirstLen \in Nat
              <6>1. FirstLen \in Nat /\ FirstLen < call.len
                BY <1>1, <1>3, <5>1
              <6>2. AddPadding + FirstLen + 0 = U
                BY <2>5, <5>1
              <6>3. AddPadding \in Nat
                BY <1>0, <1>2
              <6> QED BY <6>1, <6>2, <6>3
            <5> QED BY <1>0, <1>1, <1>2, <1>7, <3>3, <5>2
          <4> DEFINE j == a - (base + call.off + call.len) + 1
          <4>2. j \in 1 .. LenPadding /\ k = AddPadding + FirstLen + j
            <5>1. AddPadding + call.len + LenPadding = U
              BY <2>5, <4>1
            <5>2. a \in Int /\ a < base + AlignedOff + U
              BY <1>7
            <5> QED BY <1>0, <1>1, <1>2, <3>3, <4>1, <5>1, <5>2
          <4>3. rest[j] = padding.len[j] /\ Len(rest) = LenPadding
            BY <2>4, <4>1 DEF rest
          <4>4. a = base + (call.off + call.len) + j - 1
            BY <1>1, <1>7
          <4> HIDE DEF j, k
          <4>5. d[AddPadding + FirstLen + j] = rest[j]
            BY <2>6, <4>2, <4>3
          <4>6. padding.len[j] = pre[a]
            BY <1>4, <4>2, <4>4
          <4>7. d[k] = pre[a]
            BY <4>2, <4>3, <4>5, <4>6
          <4> QED BY <4>7 DEF k
        <3>4. a < base + call.off \/ a >= base + call.off + call.len
          BY <1>1, <1>5, <1>7
        <3> QED BY <3>2, <3>3, <3>4
      <2> QED BY <1>0, <1>1, <1>2, <2>1, <2>2, <2>5, <2>6, <2>7 DEF JobOK, U, d
    <1>b. CASE pc = "whole"
      <2>1. Job = WholeUnits
        BY <1>b DEF Job
      <2> DEFINE d == SubSeq(call.src, 1, WriteSize)
      <2>2. /\ WholeUnits.addr = base + call.off + FirstLen /\ WholeUnits.len = WriteSize
            /\ WholeUnits.data = d /\ WholeUnits.filled
        BY DEF WholeUnits
      <2>3. d \in Buffer /\ Len(d) = WriteSize
        <3>1. WriteSize \in Nat /\ WriteSize <= Len(call.src)
          BY <1>1, <1>3, <1>6, <1>8
        <3> QED BY <1>4, <3>1, PrefixOfBuffer
      <2> HIDE DEF d
      <2>4. Restores(base + call.off + FirstLen, WriteSize, d)
        BY <1>1, <1>3, <1>5, <1>7 DEF Restores
      <2> QED BY <1>1, <1>3, <2>1, <2>2, <2>3, <2>4 DEF JobOK, U
    <1>c. CASE pc = "last"
      <2>1. FirstLen < call.len /\ LenPadding > 0 /\ Job = LastUnit
        BY <1>c DEF IInv, PaddingInv, Busy, Job
      <2>2. LastUnit.filled
        BY <1>1, <2>1, UnitsFilled
      <2> DEFINE part == SubSeq(call.src, LastStart + 1, LastStart + LastLen)
      <2>3. part \in Buffer /\ Len(part) = LastLen
        <3>1. LastStart \in Nat /\ LastLen \in Nat /\ LastStart + LastLen <= Len(call.src)
          BY <1>1, <1>3, <1>6, <1>8
        <3> QED BY <1>4, <3>1, PartOfBuffer, Zenon
      <2>4. /\ LastUnit.addr = base + call.off + LastStart /\ LastUnit.len = U
            /\ LastUnit.data = part \o padding.len /\ LastLen + LenPadding = U
        BY <2>2 DEF LastUnit, U
      <2> HIDE DEF part
      <2> DEFINE d == part \o padding.len
      <2>5. /\ d \in Buffer /\ Len(d) = U
            /\ \A k \in 1 .. LenPadding : d[LastLen + k] = padding.len[k]
        BY <1>4, <2>3, <2>4, Concat2
      <2> HIDE DEF d
      <2>6. Restores(base + call.off + LastStart, U, d)
        <3> SUFFICES ASSUME NEW a \in Addr, base + call.off + LastStart <= a,
                            a < base + call.off + LastStart + U, a \notin Target
                     PROVE  d[a - (base + call.off + LastStart) + 1] = pre[a]
          BY DEF Restores
        <3>1. a >= base + call.off + call.len
          BY <1>1, <1>3, <1>5, <1>7
        <3> DEFINE j == a - (base + call.off + call.len) + 1
        <3>2. /\ j \in 1 .. LenPadding /\ a = base + (call.off + call.len) + j - 1
              /\ a - (base + call.off + LastStart) + 1 = LastLen + j
          <4>1. a \in Int /\ a < base + call.off + LastStart + U
            BY <1>7
          <4>2. LastStart \in Nat /\ LastLen \in Nat /\ LastLen = call.len - LastStart
            BY <1>0, <1>1, <1>3
          <4>3. LastLen + LenPadding = U /\ LenPadding \in Nat
            BY <1>0, <1>2, <2>4
          <4> QED BY <1>0, <1>1, <3>1, <4>1, <4>2, <4>3
        <3> HIDE DEF j
        <3>3. d[LastLen + j] = padding.len[j] /\ padding.len[j] = pre[a]
          BY <1>4, <2>5, <3>2
        <3> QED BY <3>2, <3>3
      <2> QED BY <1>0, <1>1, <1>3, <2>1, <2>2, <2>4, <2>5, <2>6 DEF JobOK, U, d
    <1> QED BY <1>a, <1>b, <1>c DEF Busy

-----------------------------------------------------------------------------
(* Every action preserves the invariant.                                   *)

\* What depends on the arguments of the call alone stays as long as they do.
LEMMA SameCall ==
    ASSUME UNCHANGED call
    PROVE  /\ base' = base /\ Target' = Target
           /\ AddPadding' = AddPadding /\ AlignedOff' = AlignedOff
           /\ AlignedLen' = AlignedLen /\ LenPadding' = LenPadding
           /\ FirstLen' = FirstLen
           /\ IsRangeValid(call.area, call.off, call.len)'
                = IsRangeValid(call.area, call.off, call.len)
    BY DEF base, Target, IsRangeValid, AddPadding, AlignedOff, AlignedLen, LenPadding, FirstLen

\* The driver between two calls is of the driver's type.
LEMMA IdleType == DriverAssumption => Idle \in [op : {"idle", "program", "erase", "done"},
                      addr : Nat, sz : Nat, data : Buffer, dst : Nat, ret : Int]
    BY DEF Idle, NoData, OK, Buffer

\* The driver that has ended a call is of the driver's type.
LEMMA DoneType ==
    ASSUME NEW ret \in Int
    PROVE  /\ Done(ret) \in [op : {"idle", "program", "erase", "done"},
                      addr : Nat, sz : Nat, data : Buffer, dst : Nat, ret : Int]
           /\ Done(ret).op = "done" /\ Done(ret).ret = ret
    BY DEF Done, NoData, OK, Buffer

\* Between calls the driver has nothing to do.
LEMMA NoDriverCall ==
    ASSUME IInv, pc \notin Busy \cup {"erase"}
    PROVE  drv.op = "idle"
    BY DEF IInv, TypeOK, DriverTypeOK, DriverInv, Busy

\* The entry of flash_area_read, _write or _erase keeps the invariant.
LEMMA CallPreserves ==
    ASSUME IInv,
           NEW op \in {"read", "write", "erase"}, NEW area \in Areas, NEW off \in Word,
           NEW len \in Word, NEW src \in Buffer, op = "write" => Len(src) >= FlashSize,
           Call(op, area, off, len, src)
    PROVE  IInv'
    <1>1. drv.op = "idle" /\ UNCHANGED <<flash, drv>>
      BY NoDriverCall DEF Call, Busy, drvVars
    <1>2. /\ call' = [op |-> op, area |-> area, off |-> off, len |-> len, src |-> src]
          /\ pre' = flash /\ calls' = calls + 1 /\ calls < MaxCalls
          /\ padding' = NoPadding /\ deleted' = 0 /\ dst' = NoData
      BY DEF Call
    <1>3. \/ pc' = op /\ rc' = OK /\ IsRangeValid(area, off, len)
          \/ pc' = "return" /\ rc' = -1
      BY DEF Call, Return
    <1>4. TypeOK'
      <2>1. fa_size[area] \in Nat /\ MaxCalls \in Nat
        BY AreaInDevice, CallerAssumption
      <2>2. calls' \in 0 .. MaxCalls
        BY <1>2, <2>1 DEF IInv, TypeOK
      <2>3. deleted' \in 0 .. fa_size'[call'.area] /\ rc' \in Int
        BY <1>2, <1>3, <2>1 DEF OK
      <2>4. padding' \in [add : Buffer, len : Buffer] /\ dst' \in Buffer
        BY <1>2 DEF NoPadding, NoData, Buffer
      <2> QED BY <1>1, <1>2, <1>3, <2>2, <2>3, <2>4 DEF IInv, TypeOK, DriverTypeOK
    <1>5. CallInv'
      BY <1>2, <1>3 DEF CallInv, Busy, IsRangeValid
    <1>6. DriverInv' /\ PaddingInv' /\ Confined'
      BY <1>1, <1>2, <1>3 DEF DriverInv, PaddingInv, Confined, Busy
    <1>7. deleted' % SectorSize = 0
      <2>1. SectorSize \in Nat \ {0}
        BY DriverAssumption
      <2> QED BY <1>2, <2>1, DivModFacts
    <1> QED BY <1>4, <1>5, <1>6, <1>7 DEF IInv

\* Whichever call the caller makes, the invariant is kept.
LEMMA CallsPreserve ==
    ASSUME IInv, CallRead \/ CallErase \/ CallWrite
    PROVE  IInv'
    <1>1. NoData \in Buffer
      BY DEF NoData, Buffer
    <1>2. CASE CallRead
      BY <1>1, <1>2, CallPreserves, CallerAssumption DEF CallRead
    <1>3. CASE CallErase
      BY <1>1, <1>3, CallPreserves, CallerAssumption DEF CallErase
    <1>4. CASE CallWrite
      BY <1>4, CallPreserves, CallerAssumption DEF CallWrite
    <1> QED BY <1>2, <1>3, <1>4

\* A step that moves neither the device nor the request, and ends the call or
\* leaves it where it is, keeps everything but what it sets itself.
LEMMA EndPreserves ==
    ASSUME IInv, UNCHANGED <<flash, request>>, pc' \in {"return", "idle"},
           drv' = Idle \/ (drv.op = "idle" /\ UNCHANGED drv),
           rc' \in Int, dst' \in Buffer, UNCHANGED <<padding, deleted>>
    PROVE  IInv'
    <1>0. UNCHANGED <<call, pre, calls>>
      BY DEF request
    <1>1. drv'.op = "idle" /\ DriverTypeOK'
      BY IdleType, DriverAssumption DEF IInv, TypeOK, DriverTypeOK, Idle
    <1>2. TypeOK'
      BY <1>0, <1>1 DEF IInv, TypeOK
    <1>3. CallInv'
      BY <1>0 DEF IInv, CallInv, Busy
    <1>4. DriverInv' /\ PaddingInv'
      BY <1>1 DEF DriverInv, PaddingInv, Busy
    <1>5. Confined'
      BY <1>0, SameCall DEF IInv, Confined
    <1> QED BY <1>2, <1>3, <1>4, <1>5 DEF IInv

\* A read, good or failed, changes the caller's buffer only.
LEMMA ReadPreserves ==
    ASSUME IInv, ReadSucceeds \/ ReadFails
    PROVE  IInv'
    <1>1. drv.op = "idle"
      BY NoDriverCall DEF ReadSucceeds, ReadFails, Busy
    <1>2. dst' \in Buffer
      <2>1. CASE ReadFails
        BY <2>1 DEF ReadFails, IInv, TypeOK
      <2>2. CASE ReadSucceeds
        <3>1. /\ call.off \in Nat /\ call.len \in Nat /\ call.area \in Areas
              /\ call.off + call.len <= fa_size[call.area] /\ flash \in [Addr -> Byte]
          BY <2>2, CallFacts DEF ReadSucceeds, IInv, CallInv, IsRangeValid, TypeOK, DriverTypeOK
        <3>2. dst' = ReadBytes(call.off, call.len)
          BY <2>2 DEF ReadSucceeds
        <3> QED BY <3>1, <3>2, ReadBytesFacts
      <2> QED BY <2>1, <2>2
    <1>3. /\ pc' = "return" /\ rc' \in Int
          /\ UNCHANGED <<flash, drv, padding, deleted, request>>
      BY DEF ReadSucceeds, ReadFails, Return, drvVars, OK, ERROR, ERROR_PARAMETER
    <1> QED BY <1>1, <1>2, <1>3, EndPreserves

\* The unit being programmed gives the bytes outside the target back, so
\* whatever part of it is programmed leaves them as they were.
LEMMA UnitFacts ==
    ASSUME IInv, Programming
    PROVE  \A a \in UnitAddr : /\ UnitByte(a) \in Byte
                               /\ a \notin Target => UnitByte(a) = pre[a]
    <1>1. /\ drv.op = "program" /\ drv.dst < drv.sz /\ drv.addr \in Nat
          /\ drv.sz \in Nat /\ drv.dst \in Nat /\ drv.data \in Buffer
          /\ Len(drv.data) = drv.sz
          /\ drv.sz % ProgramUnit = 0 /\ drv.dst % ProgramUnit = 0
          /\ Restores(drv.addr, drv.sz, drv.data)
      BY DEF Programming, IInv, TypeOK, DriverTypeOK, DriverInv
    <1>2. ProgramUnit \in Nat \ {0} /\ \A a \in Addr : a \in Int
      BY DriverAssumption DEF Addr
    <1>3. drv.dst + ProgramUnit <= drv.sz
      BY <1>1, <1>2, AlignedStep
    <1> TAKE a \in UnitAddr
    <1>4. a \in Addr /\ drv.addr <= a /\ a < drv.addr + drv.sz
      BY <1>1, <1>2, <1>3 DEF UnitAddr
    <1>5. a - drv.addr + 1 \in 1 .. Len(drv.data)
      BY <1>1, <1>2, <1>4
    <1>6. UnitByte(a) \in Byte
      BY <1>1, <1>5 DEF UnitByte, Buffer
    <1> QED BY <1>1, <1>4, <1>6 DEF UnitByte, Restores

\* Any part of the new bits of a unit being programmed leaves the bytes
\* outside the target as they were.
LEMMA TornProgram ==
    ASSUME IInv, Programming, UNCHANGED <<call, pre>>,
           \E got \in SUBSET NewBits : flash' = WithBits(got)
    PROVE  flash' \in [Addr -> Byte] /\ Confined'
    <1>1. PICK got \in SUBSET NewBits : flash' = WithBits(got)
      OBVIOUS
    <1>2. flash \in [Addr -> Byte]
      BY DEF IInv, TypeOK, DriverTypeOK
    <1>3. flash' \in [Addr -> Byte]
      BY <1>1, <1>2 DEF WithBits, Byte
    <1>4. ASSUME NEW a \in Addr, a \notin Target PROVE flash'[a] = pre[a]
      <2>1. flash[a] = pre[a]
        BY <1>4 DEF IInv, Confined
      <2>2. ASSUME NEW b \in Bits, <<a, b>> \in got PROVE FALSE
        <3>1. a \in UnitAddr /\ b \in UnitByte(a) \ flash[a]
          BY <2>2 DEF NewBits
        <3> QED BY <1>4, <2>1, <3>1, UnitFacts
      <2>3. {b \in Bits : <<a, b>> \in got} = {}
        BY <2>2
      <2> QED BY <1>1, <2>1, <2>3 DEF WithBits
    <1> QED BY <1>3, <1>4, SameCall DEF Confined

\* The sector being erased lies in the target.
LEMMA SectorInTarget ==
    ASSUME IInv, drv.op = "erase"
    PROVE  Sector(drv.addr) \subseteq Target /\ drv.addr \in Nat
    <1>1. /\ pc = "erase" /\ deleted < call.len /\ drv.addr = base + call.off + deleted
          /\ deleted % SectorSize = 0 /\ call.op = "erase"
          /\ IsRangeValid(call.area, call.off, call.len) /\ drv.addr % SectorSize = 0
      BY DEF IInv, DriverInv, CallInv, IsSectorAligned
    <1>2. call.off \in Nat /\ call.len \in Nat /\ base \in Nat /\ fa_size[call.area] \in Nat
      BY CallFacts DEF IInv
    <1>3. SectorSize \in Nat \ {0} /\ \A a \in Addr : a \in Int
      BY DriverAssumption DEF Addr
    <1>4. deleted \in Nat
      BY <1>2 DEF IInv, TypeOK
    <1>5. /\ Ceiling(call.len, SectorSize) \in Nat /\ call.len <= Ceiling(call.len, SectorSize)
          /\ Ceiling(call.len, SectorSize) % SectorSize = 0
      BY <1>2, <1>3, CeilingFacts
    <1>6. deleted + SectorSize <= Ceiling(call.len, SectorSize)
      BY <1>1, <1>2, <1>3, <1>4, <1>5, AlignedStep
    <1>7. IsSectorAligned(call.off)
      <2>1. base % SectorSize = 0
        BY AreaAssumption, CallFacts DEF IInv, base
      <2>2. base + deleted \in Nat /\ (base + deleted) % SectorSize = 0
        <3>1. base \in Nat /\ deleted \in Nat /\ SectorSize \in Nat \ {0} /\ deleted % SectorSize = 0
          BY <1>1, <1>2, <1>3, <1>4
        <3>2. (base + deleted) % SectorSize = 0
          BY <2>1, <3>1, AlignedSum, Zenon
        <3> QED BY <3>1, <3>2
      <2>3. drv.addr \in Nat /\ base + deleted <= drv.addr /\ drv.addr - (base + deleted) = call.off
        BY <1>1, <1>2, <1>4
      <2> QED BY <1>1, <1>3, <2>2, <2>3, AlignedDifference DEF IsSectorAligned
    <1>8. Target = {a \in Addr : /\ base + call.off <= a
                                 /\ a < base + call.off + Ceiling(call.len, SectorSize)}
      BY <1>1, <1>7 DEF Target
    <1> QED BY <1>1, <1>2, <1>3, <1>4, <1>5, <1>6, <1>8 DEF Sector

\* Whatever an erase of a sector leaves in it lies in the target.
LEMMA TornErase ==
    ASSUME IInv, drv.op = "erase", UNCHANGED <<call, pre>>,
           \E image \in [0 .. (SectorSize - 1) -> Byte] : flash' = WithSector(drv.addr, image)
    PROVE  flash' \in [Addr -> Byte] /\ Confined'
    <1>1. PICK image \in [0 .. (SectorSize - 1) -> Byte] : flash' = WithSector(drv.addr, image)
      OBVIOUS
    <1>2. flash \in [Addr -> Byte]
      BY DEF IInv, TypeOK, DriverTypeOK
    <1>3. \A a \in Sector(drv.addr) : a - drv.addr \in 0 .. (SectorSize - 1)
      BY SectorInTarget, DriverAssumption DEF Sector, Addr
    <1>4. flash' \in [Addr -> Byte]
      BY <1>1, <1>2, <1>3 DEF WithSector
    <1>5. \A a \in Addr : a \notin Target => flash'[a] = flash[a]
      BY <1>1, SectorInTarget DEF WithSector
    <1> QED BY <1>4, <1>5, SameCall DEF IInv, Confined

\* Reading the padding gives the bytes that the first and the last unit put back.
LEMMA PaddingReadPreserves ==
    ASSUME IInv, ReadPadding
    PROVE  IInv'
    <1>1. /\ call.off \in Nat /\ call.len \in Nat /\ call.area \in Areas
          /\ base \in Nat /\ fa_size[call.area] \in Nat
      BY CallFacts DEF IInv
    <1>2. /\ pc = "write" /\ ~WriteRejected /\ pc' = AfterPadding
          /\ padding' = [add |-> ReadBytes(AlignedOff, AddPadding),
                         len |-> ReadBytes(call.off + call.len, LenPadding)]
          /\ UNCHANGED <<flash, drv, deleted, rc, dst, call, pre, calls>>
      BY DEF ReadPadding, drvVars, request
    <1>3. drv.op = "idle" /\ call.op = "write" /\ IsRangeValid(call.area, call.off, call.len)
      BY <1>2, NoDriverCall DEF IInv, CallInv, Busy
    <1>4. /\ AddPadding \in Nat /\ AlignedOff \in Nat /\ AlignedOff + AddPadding = call.off
          /\ LenPadding \in Nat /\ LenPadding = AlignedLen - call.len - AddPadding
          /\ AlignedLen \in Nat
      <2>1. FLASH_PROGRAM_UNIT \in Nat \ {0}
        BY AreaAssumption
      <2> QED BY <1>1, <2>1, PaddingFacts
    <1>5. AlignedOff + AlignedLen <= fa_size[call.area]
      BY <1>2 DEF WriteRejected, IsRangeValid
    <1>6. flash \in [Addr -> Byte] /\ pre \in [Addr -> Byte]
      BY DEF IInv, TypeOK, DriverTypeOK
    <1> DEFINE add == ReadBytes(AlignedOff, AddPadding)
               end == ReadBytes(call.off + call.len, LenPadding)
    <1>7. /\ add \in Buffer /\ Len(add) = AddPadding
          /\ \A n \in 1 .. AddPadding : add[n] = flash[base + AlignedOff + n - 1]
      <2>1. AlignedOff + AddPadding <= fa_size[call.area]
        BY <1>1, <1>3, <1>4 DEF IsRangeValid
      <2> QED BY <1>1, <1>4, <1>6, <2>1, ReadBytesFacts
    <1>8. /\ end \in Buffer /\ Len(end) = LenPadding
          /\ \A n \in 1 .. LenPadding : end[n] = flash[base + (call.off + call.len) + n - 1]
      <2> DEFINE o == call.off + call.len
      <2>1. o \in Nat /\ o + LenPadding <= fa_size[call.area]
        BY <1>1, <1>4, <1>5
      <2> HIDE DEF o
      <2>2. /\ ReadBytes(o, LenPadding) \in Buffer /\ Len(ReadBytes(o, LenPadding)) = LenPadding
            /\ \A n \in 1 .. LenPadding : ReadBytes(o, LenPadding)[n] = flash[base + o + n - 1]
        BY <1>1, <1>4, <1>6, <2>1, ReadBytesFacts
      <2> QED BY <2>2 DEF o
    <1> HIDE DEF add, end
    <1>9. padding' = [add |-> add, len |-> end]
      BY <1>2 DEF add, end
    <1>10. \A n \in Nat : n < fa_size[call.area]
              /\ (n < call.off \/ n >= call.off + call.len) => flash[base + n] = pre[base + n]
      <2> SUFFICES ASSUME NEW n \in Nat, n < fa_size[call.area],
                          n < call.off \/ n >= call.off + call.len
                   PROVE  flash[base + n] = pre[base + n]
        OBVIOUS
      <2>1. base + n \in Addr
        BY <1>1, AreaInDevice DEF base
      <2>2. base + n \notin Target
        BY <1>1, <1>3, WriteTarget
      <2> QED BY <2>1, <2>2 DEF IInv, Confined
    <1>11. \A k \in 1 .. AddPadding : padding'.add[k] = pre[base + AlignedOff + k - 1]
      <2> TAKE k \in 1 .. AddPadding
      <2> DEFINE n == AlignedOff + k - 1
      <2>1. n \in Nat /\ n < call.off /\ n < fa_size[call.area] /\ base + AlignedOff + k - 1 = base + n
        BY <1>1, <1>3, <1>4 DEF IsRangeValid
      <2> HIDE DEF n
      <2>2. flash[base + n] = pre[base + n]
        BY <1>10, <2>1
      <2> QED BY <1>7, <1>9, <2>1, <2>2
    <1>12. \A k \in 1 .. LenPadding : padding'.len[k] = pre[base + (call.off + call.len) + k - 1]
      <2> TAKE k \in 1 .. LenPadding
      <2> DEFINE n == call.off + call.len + k - 1
      <2>1. /\ n \in Nat /\ n >= call.off + call.len /\ n < fa_size[call.area]
            /\ base + (call.off + call.len) + k - 1 = base + n
        BY <1>1, <1>4, <1>5
      <2> HIDE DEF n
      <2>2. flash[base + n] = pre[base + n]
        BY <1>10, <2>1
      <2> QED BY <1>8, <1>9, <2>1, <2>2
    <1>13. /\ pc' \in Busy \cup {"return"}
           /\ pc' = "first" => AddPadding > 0
           /\ pc' = "last" => FirstLen < call.len /\ LenPadding > 0
      BY <1>2 DEF AfterPadding, AfterFirst, AfterWhole, Busy
    <1>14. TypeOK'
      BY <1>2, <1>7, <1>8, <1>9, <1>13 DEF IInv, TypeOK, DriverTypeOK, Busy
    <1>15. CallInv'
      BY <1>2, <1>3, <1>13 DEF IInv, CallInv, Busy, IsRangeValid
    <1>16. PaddingInv'
      BY <1>2, <1>5, <1>7, <1>8, <1>9, <1>11, <1>12, <1>13, SameCall DEF PaddingInv
    <1>17. DriverInv' /\ Confined' /\ deleted' % SectorSize = 0
      BY <1>2, <1>3, SameCall DEF IInv, DriverInv, Confined
    <1> QED BY <1>14, <1>15, <1>16, <1>17 DEF IInv

\* A padding read that fails ends the write with nothing programmed.
LEMMA WriteFailurePreserves ==
    ASSUME IInv, ReadPaddingFails
    PROVE  IInv'
    <1>1. drv.op = "idle"
      BY NoDriverCall DEF ReadPaddingFails, Busy
    <1>2. /\ pc' = "return" /\ rc' \in Int /\ dst' \in Buffer
          /\ UNCHANGED <<flash, drv, padding, deleted, request>>
      BY DEF ReadPaddingFails, Return, drvVars, IInv, TypeOK
    <1> QED BY <1>1, <1>2, EndPreserves

\* flash_area_erase returns once deleted_len has reached len.
LEMMA EraseEndsPreserves ==
    ASSUME IInv, EraseEnds
    PROVE  IInv'
    <1>1. drv.op = "idle"
      BY DEF EraseEnds, Idle
    <1>2. /\ pc' = "return" /\ rc' \in Int /\ dst' \in Buffer
          /\ UNCHANGED <<flash, drv, padding, deleted, request>>
      BY DEF EraseEnds, Return, drvVars, IInv, TypeOK, OK
    <1> QED BY <1>1, <1>2, EndPreserves

\* Going back to the caller, or starting again after a loss of power,
\* keeps the invariant.
LEMMA ReturnedPreserves ==
    ASSUME IInv, Returned \/ Restart
    PROVE  IInv'
    <1>1. drv.op = "idle"
      BY NoDriverCall DEF Returned, Restart, Busy
    <1>2. /\ pc' = "idle" /\ rc' \in Int /\ dst' \in Buffer
          /\ UNCHANGED <<flash, drv, padding, deleted, request>>
      BY DEF Returned, Restart, drvVars, local, IInv, TypeOK
    <1> QED BY <1>1, <1>2, EndPreserves

\* A loss of power, in the middle of a command or between two, keeps the
\* invariant.
LEMMA PowerLossPreserves ==
    ASSUME IInv, PowerLoss
    PROVE  IInv'
    <1>0. /\ pc' = "off" /\ drv' = Idle /\ FlashAfterPowerLoss
          /\ padding' = NoPadding /\ deleted' = 0 /\ rc' = OK /\ dst' = NoData
          /\ UNCHANGED <<call, pre, calls>>
      BY DEF PowerLoss, request
    <1>1. flash' \in [Addr -> Byte] /\ Confined'
      <2>1. CASE UNCHANGED flash
        BY <1>0, <2>1, SameCall DEF IInv, TypeOK, DriverTypeOK, Confined
      <2>2. CASE Programming /\ \E got \in SUBSET NewBits : flash' = WithBits(got)
        BY <1>0, <2>2, TornProgram
      <2>3. CASE drv.op = "erase" /\ \E image \in Garbage : flash' = WithSector(drv.addr, image)
        BY <1>0, <2>3, TornErase, DriverAssumption
      <2> QED BY <1>0, <2>1, <2>2, <2>3 DEF FlashAfterPowerLoss
    <1>2. TypeOK'
      <2>1. padding' \in [add : Buffer, len : Buffer] /\ dst' \in Buffer
        BY <1>0 DEF NoPadding, NoData, Buffer
      <2>2. deleted' \in 0 .. fa_size[call.area]
        BY <1>0, CallFacts DEF IInv
      <2> QED BY <1>0, <1>1, <2>1, <2>2, IdleType, DriverAssumption
              DEF IInv, TypeOK, DriverTypeOK, OK
    <1>3. CallInv' /\ DriverInv' /\ PaddingInv'
      BY <1>0 DEF IInv, CallInv, DriverInv, PaddingInv, Busy, Idle
    <1>4. deleted' % SectorSize = 0
      <2>1. SectorSize \in Nat \ {0}
        BY DriverAssumption
      <2> QED BY <1>0, <2>1, DivModFacts
    <1> QED BY <1>1, <1>2, <1>3, <1>4 DEF IInv

\* Handing a part of a write to ProgramData keeps the invariant.
LEMMA ProgramPreserves ==
    ASSUME IInv, Program
    PROVE  IInv'
    <1>1. /\ pc \in Busy /\ drv = Idle
          /\ UNCHANGED <<flash, padding, deleted, dst, request>>
      BY DEF Program, Busy
    <1>2. JobOK
      BY <1>1, JobFacts
    <1>3. UNCHANGED <<pc, rc, call, pre, calls>>
      BY <1>2 DEF Program, JobOK, request
    <1> DEFINE sz == (Job.len \div DataWidth) * DataWidth
    <1>4. sz = Job.len /\ sz \in Nat /\ sz % ProgramUnit = 0
      <2>1. /\ FLASH_PROGRAM_UNIT \in Nat \ {0} /\ DataWidth \in Nat \ {0} /\ ProgramUnit \in Nat \ {0}
            /\ FLASH_PROGRAM_UNIT % DataWidth = 0 /\ FLASH_PROGRAM_UNIT % ProgramUnit = 0
        BY AreaAssumption, DriverAssumption
      <2>2. Job.len \in Nat /\ Job.len % FLASH_PROGRAM_UNIT = 0
        BY <1>2 DEF JobOK
      <2>3. sz = Job.len
        BY <2>1, <2>2, AlignedItems
      <2>4. Job.len % ProgramUnit = 0
        BY <2>1, <2>2, AlignedItems
      <2> QED BY <2>2, <2>3, <2>4
    <1>5. \/ drv' = [op |-> "program", addr |-> Job.addr, sz |-> sz,
                     data |-> Job.data, dst |-> 0, ret |-> OK]
          \/ drv' = Done(ERROR_PARAMETER)
      BY <1>2 DEF Program, ProgramData, JobOK
    <1> HIDE DEF sz
    <1>6. DriverTypeOK'
      BY <1>1, <1>2, <1>4, <1>5, DoneType DEF IInv, TypeOK, DriverTypeOK, JobOK, OK, ERROR_PARAMETER
    <1>7. DriverInv'
      <2>1. CASE drv' = Done(ERROR_PARAMETER)
        <3>1. drv'.op = "done"
          BY <2>1 DEF Done
        <3> QED BY <1>1, <1>3, <3>1 DEF DriverInv
      <2>2. CASE drv' = [op |-> "program", addr |-> Job.addr, sz |-> sz,
                         data |-> Job.data, dst |-> 0, ret |-> OK]
        <3>1. /\ drv'.op = "program" /\ drv'.addr = Job.addr /\ drv'.sz = Job.len
              /\ drv'.data = Job.data /\ drv'.dst = 0
          BY <1>4, <2>2
        <3>2. 0 % ProgramUnit = 0
          BY DriverAssumption, DivModFacts
        <3>3. Restores(drv.addr, drv.sz, drv.data)'
          BY <1>2, <1>3, <3>1, SameCall DEF JobOK, Restores
        <3> QED BY <1>1, <1>2, <1>3, <1>4, <3>1, <3>2, <3>3 DEF DriverInv, JobOK
      <2> QED BY <1>5, <2>1, <2>2
    <1>8. TypeOK' /\ CallInv' /\ PaddingInv' /\ Confined' /\ deleted' % SectorSize = 0
      BY <1>1, <1>3, <1>6, SameCall DEF IInv, TypeOK, CallInv, PaddingInv, Confined
    <1> QED BY <1>7, <1>8 DEF IInv

\* Going on after ProgramData, to the next part or to the return, keeps the
\* invariant.
LEMMA ProgrammedPreserves ==
    ASSUME IInv, Programmed
    PROVE  IInv'
    <1>1. /\ pc \in Busy /\ drv' = Idle
          /\ UNCHANGED <<flash, padding, deleted, dst, call, pre, calls>>
      BY DEF Programmed, Busy, request
    <1>2. CASE pc' = "return" /\ rc' \in Int
      <2>1. UNCHANGED request /\ dst' \in Buffer
        BY <1>1 DEF request, IInv, TypeOK
      <2> QED BY <1>1, <1>2, <2>1, EndPreserves
    <1>3. CASE pc' \in {"whole", "last"} /\ pc' = AfterJob /\ UNCHANGED rc
      <2>1. drv'.op = "idle" /\ DriverTypeOK'
        BY <1>1, IdleType, DriverAssumption DEF IInv, TypeOK, DriverTypeOK, Idle
      <2>2. TypeOK'
        BY <1>1, <1>3, <2>1 DEF IInv, TypeOK
      <2>3. CallInv' /\ DriverInv'
        BY <1>1, <1>3, <2>1, SameCall DEF IInv, CallInv, DriverInv, Busy
      <2>4. pc' = "last" => FirstLen < call.len /\ LenPadding > 0
        BY <1>1, <1>3 DEF AfterJob, AfterFirst, AfterWhole, Busy
      <2>5. PaddingInv'
        BY <1>1, <1>3, <2>4, SameCall DEF IInv, PaddingInv, Busy
      <2>6. Confined' /\ deleted' % SectorSize = 0
        BY <1>1, SameCall DEF IInv, Confined
      <2> QED BY <2>2, <2>3, <2>5, <2>6 DEF IInv
    <1>4. AfterJob \in {"whole", "last", "return"}
      BY <1>1 DEF AfterJob, AfterFirst, AfterWhole, Busy
    <1>5. rc \in Int
      BY DEF IInv, TypeOK
    <1> QED BY <1>2, <1>3, <1>4, <1>5 DEF Programmed, Return

\* Handing a sector to EraseSector keeps the invariant.
LEMMA ErasePreserves ==
    ASSUME IInv, Erase
    PROVE  IInv'
    <1>1. /\ pc = "erase" /\ deleted < call.len
          /\ EraseSector(base + call.off + deleted)
          /\ UNCHANGED <<flash, pc, padding, deleted, rc, dst, call, pre, calls>>
      BY DEF Erase, local, request
    <1> DEFINE at == base + call.off + deleted
    <1>2. at \in Nat
      BY CallFacts DEF IInv, TypeOK
    <1>3. \/ /\ drv' = [op |-> "erase", addr |-> at, sz |-> 0, data |-> NoData, dst |-> 0, ret |-> OK]
             /\ IsSectorAligned(at)
          \/ drv' = Done(ERROR_PARAMETER)
      BY <1>1 DEF EraseSector
    <1> HIDE DEF at
    <1>4. DriverTypeOK'
      <2>1. CASE drv' = Done(ERROR_PARAMETER)
        BY <1>1, <2>1, DoneType DEF IInv, TypeOK, DriverTypeOK, ERROR_PARAMETER
      <2>2. CASE drv' = [op |-> "erase", addr |-> at, sz |-> 0, data |-> NoData, dst |-> 0, ret |-> OK]
        BY <1>1, <1>2, <2>2 DEF IInv, TypeOK, DriverTypeOK, NoData, Buffer, OK
      <2> QED BY <1>3, <2>1, <2>2
    <1>5. DriverInv'
      <2>1. drv'.op = "done" \/ (drv'.op = "erase" /\ drv'.addr = at /\ IsSectorAligned(at))
        BY <1>3 DEF Done
      <2> QED BY <1>1, <2>1, SameCall DEF DriverInv, IsSectorAligned, at
    <1>6. TypeOK' /\ CallInv' /\ PaddingInv' /\ Confined' /\ deleted' % SectorSize = 0
      BY <1>1, <1>4, SameCall DEF IInv, TypeOK, CallInv, PaddingInv, Confined
    <1> QED BY <1>5, <1>6 DEF IInv

\* Counting an erased sector keeps deleted_len within the area.
LEMMA SectorErasedPreserves ==
    ASSUME IInv, SectorErased
    PROVE  IInv'
    <1>1. /\ pc = "erase" /\ drv.op = "done" /\ drv' = Idle
          /\ UNCHANGED <<flash, padding, dst, call, pre, calls>>
      BY DEF SectorErased, request
    <1>2. CASE pc' = "return" /\ rc' = drv.ret /\ UNCHANGED deleted
      <2>1. UNCHANGED request /\ dst' \in Buffer /\ rc' \in Int
        BY <1>1, <1>2 DEF request, IInv, TypeOK, DriverTypeOK
      <2> QED BY <1>1, <1>2, <2>1, EndPreserves
    <1>3. CASE deleted' = deleted + SectorSize /\ UNCHANGED <<pc, rc>>
      <2>1. /\ SectorSize \in Nat \ {0} /\ SectorSize % SectorSize = 0
            /\ fa_size[call.area] \in Nat /\ fa_size[call.area] % SectorSize = 0
            /\ call.off \in Nat /\ call.len \in Nat
        <3>1. SectorSize \in Nat \ {0}
          BY DriverAssumption
        <3>2. SectorSize % SectorSize = 0
          BY <3>1, MultipleFact
        <3> QED BY <3>1, <3>2, CallFacts, AreaAssumption DEF IInv
      <2>2. deleted \in Nat /\ deleted % SectorSize = 0 /\ deleted < fa_size[call.area]
        <3>1. deleted < call.len /\ IsRangeValid(call.area, call.off, call.len)
          BY <1>1 DEF IInv, DriverInv, CallInv, Busy
        <3>2. deleted \in Nat /\ deleted % SectorSize = 0
          BY <2>1 DEF IInv, TypeOK
        <3> QED BY <2>1, <3>1, <3>2 DEF IsRangeValid
      <2>3. deleted + SectorSize <= fa_size[call.area]
        BY <2>1, <2>2, AlignedStep
      <2>4. deleted' \in 0 .. fa_size[call.area] /\ deleted' % SectorSize = 0
        <3>1. (deleted + SectorSize) % SectorSize = 0
          BY <2>1, <2>2, AlignedSum
        <3> QED BY <1>3, <2>1, <2>2, <2>3, <3>1
      <2>5. drv'.op = "idle" /\ DriverTypeOK'
        BY <1>1, IdleType, DriverAssumption DEF IInv, TypeOK, DriverTypeOK, Idle
      <2>6. TypeOK'
        BY <1>1, <1>3, <2>4, <2>5 DEF IInv, TypeOK
      <2>7. CallInv' /\ DriverInv' /\ PaddingInv' /\ Confined'
        BY <1>1, <1>3, <2>5, SameCall DEF IInv, CallInv, DriverInv, PaddingInv, Confined, Busy
      <2> QED BY <2>4, <2>6, <2>7 DEF IInv
    <1> QED BY <1>2, <1>3 DEF SectorErased, Return

\* A driver step that ends its call, or programs a unit of it.
LEMMA DriverCallEnds ==
    ASSUME IInv, drv.op \in {"program", "erase"}, NEW ret \in Int, drv' = Done(ret),
           UNCHANGED <<pc, local, request>>, flash' \in [Addr -> Byte], Confined'
    PROVE  IInv'
    <1>1. UNCHANGED <<pc, padding, deleted, rc, dst, call, pre, calls>>
      BY DEF local, request
    <1>2. DriverTypeOK' /\ drv'.op = "done"
      BY DoneType DEF DriverTypeOK
    <1>3. TypeOK'
      BY <1>1, <1>2 DEF IInv, TypeOK
    <1>4. CallInv' /\ DriverInv' /\ PaddingInv'
      BY <1>1, <1>2, SameCall DEF IInv, CallInv, DriverInv, PaddingInv
    <1> QED BY <1>1, <1>3, <1>4 DEF IInv

\* Each NVMC command, good or failing, keeps the invariant.
LEMMA DriverPreserves ==
    ASSUME IInv, Driver
    PROVE  IInv'
    <1>0. /\ DriverStep /\ UNCHANGED <<pc, local, request>>
          /\ UNCHANGED <<pc, padding, deleted, rc, dst, call, pre, calls>>
      BY DEF Driver, local, request
    <1>1. flash \in [Addr -> Byte] /\ ERROR \in Int /\ OK \in Int
      BY DEF IInv, TypeOK, DriverTypeOK, ERROR, OK
    <1>2. CASE NvmcProgram
      <2>1. /\ Programming /\ drv' = [drv EXCEPT !.dst = @ + ProgramUnit]
            /\ flash' = [a \in Addr |-> IF a \in UnitAddr THEN flash[a] \cup UnitByte(a)
                                                          ELSE flash[a]]
        BY <1>2 DEF NvmcProgram
      <2>2. flash' \in [Addr -> Byte]
        BY <1>1, <2>1, UnitFacts DEF Byte
      <2>3. Confined'
        <3>1. ASSUME NEW a \in Addr, a \notin Target PROVE flash'[a] = pre[a]
          <4>1. flash[a] = pre[a]
            BY <3>1 DEF IInv, Confined
          <4>2. a \in UnitAddr => UnitByte(a) = pre[a]
            BY <2>1, <3>1, UnitFacts
          <4> QED BY <2>1, <4>1, <4>2
        <3> QED BY <1>0, <3>1, SameCall DEF Confined
      <2>4. drv.op = "program" /\ drv.dst \in Nat /\ ProgramUnit \in Nat \ {0}
            /\ drv.dst % ProgramUnit = 0 /\ ProgramUnit % ProgramUnit = 0
        <3>1. ProgramUnit \in Nat \ {0}
          BY DriverAssumption
        <3>2. ProgramUnit % ProgramUnit = 0
          BY <3>1, MultipleFact
        <3> QED BY <2>1, <3>1, <3>2 DEF Programming, IInv, TypeOK, DriverTypeOK, DriverInv
      <2>5. (drv.dst + ProgramUnit) % ProgramUnit = 0
        BY <2>4, AlignedSum
      <2>6. /\ drv' \in [op : {"idle", "program", "erase", "done"}, addr : Nat, sz : Nat,
                         data : Buffer, dst : Nat, ret : Int]
            /\ drv'.op = "program" /\ drv'.dst = drv.dst + ProgramUnit
            /\ drv'.addr = drv.addr /\ drv'.sz = drv.sz /\ drv'.data = drv.data
        BY <2>1, <2>4 DEF IInv, TypeOK, DriverTypeOK
      <2>7. TypeOK'
        BY <1>0, <2>2, <2>6 DEF IInv, TypeOK, DriverTypeOK
      <2>8. Restores(drv.addr, drv.sz, drv.data)'
        BY <1>0, <2>4, <2>6, SameCall DEF IInv, DriverInv, Restores
      <2>9. DriverInv'
        BY <1>0, <2>4, <2>5, <2>6, <2>8 DEF IInv, DriverInv
      <2>10. CallInv' /\ PaddingInv'
        BY <1>0, SameCall DEF IInv, CallInv, PaddingInv
      <2> QED BY <1>0, <2>3, <2>7, <2>9, <2>10 DEF IInv
    <1>3. CASE NvmcProgramFails
      <2>1. /\ Programming /\ drv' = Done(ERROR)
            /\ \E got \in SUBSET NewBits : flash' = WithBits(got)
        BY <1>3 DEF NvmcProgramFails
      <2>2. flash' \in [Addr -> Byte] /\ Confined'
        BY <1>0, <2>1, TornProgram
      <2>3. drv.op = "program"
        BY <2>1 DEF Programming
      <2> QED BY <1>0, <1>1, <2>1, <2>2, <2>3, DriverCallEnds
    <1>4. CASE ProgramReturns
      <2>1. drv.op = "program" /\ UNCHANGED flash /\ drv' = Done(drv.sz \div DataWidth)
        BY <1>4 DEF ProgramReturns
      <2>2. drv.sz \div DataWidth \in Int
        <3>1. drv.sz \in Nat /\ DataWidth \in Nat \ {0}
          BY DriverAssumption DEF IInv, TypeOK, DriverTypeOK
        <3> QED BY <3>1, DivModFacts
      <2>3. flash' \in [Addr -> Byte] /\ Confined'
        BY <1>0, <1>1, <2>1, SameCall DEF IInv, Confined
      <2> QED BY <1>0, <2>1, <2>2, <2>3, DriverCallEnds
    <1>5. CASE NvmcErase
      <2>1. /\ drv.op = "erase" /\ drv' = Done(OK)
            /\ flash' = WithSector(drv.addr, [k \in 0 .. (SectorSize - 1) |-> Erased])
        BY <1>5 DEF NvmcErase
      <2>2. [k \in 0 .. (SectorSize - 1) |-> Erased] \in [0 .. (SectorSize - 1) -> Byte]
        BY DEF Erased, Byte
      <2>3. flash' \in [Addr -> Byte] /\ Confined'
        BY <1>0, <2>1, <2>2, TornErase
      <2> QED BY <1>0, <1>1, <2>1, <2>3, DriverCallEnds
    <1>6. CASE NvmcEraseFails
      <2>1. drv.op = "erase" /\ drv' = Done(ERROR)
        BY <1>6 DEF NvmcEraseFails
      <2>2. flash' \in [Addr -> Byte] /\ Confined'
        <3>1. CASE UNCHANGED flash
          BY <1>0, <1>1, <3>1, SameCall DEF IInv, Confined
        <3>2. CASE \E image \in Garbage : flash' = WithSector(drv.addr, image)
          BY <1>0, <2>1, <3>2, TornErase, DriverAssumption
        <3> QED BY <1>6, <3>1, <3>2 DEF NvmcEraseFails
      <2> QED BY <1>0, <1>1, <2>1, <2>2, DriverCallEnds
    <1> QED BY <1>0, <1>2, <1>3, <1>4, <1>5, <1>6 DEF DriverStep

-----------------------------------------------------------------------------
(* The theorems.                                                           *)

\* The invariant holds before the first call.
LEMMA InitEstablishes == Init => IInv
    <1> SUFFICES ASSUME Init PROVE IInv
      OBVIOUS
    <1>1. PICK area \in Areas : call = [op |-> "read", area |-> area, off |-> 0, len |-> 0,
                                        src |-> NoData]
      BY DEF Init
    <1>2. /\ flash \in [Addr -> Byte] /\ pre = flash /\ drv = Idle /\ pc = "idle"
          /\ padding = NoPadding /\ deleted = 0 /\ rc = OK /\ dst = NoData /\ calls = 0
      BY CallerAssumption DEF Init
    <1>3. TypeOK
      <2>1. fa_size[area] \in Nat /\ MaxCalls \in Nat /\ WordMod \in Nat \ {0}
        <3>1. FlashSize \in Nat
          BY DriverAssumption DEF FlashSize
        <3> QED BY <3>1, AreaInDevice, CallerAssumption, DriverAssumption
      <2>2. /\ call \in [op : {"read", "write", "erase"}, area : Areas, off : Word, len : Word,
                         src : Buffer]
            /\ deleted \in 0 .. fa_size[call.area] /\ calls \in 0 .. MaxCalls
        BY <1>1, <1>2, <2>1 DEF Word, NoData, Buffer
      <2>3. padding \in [add : Buffer, len : Buffer] /\ dst \in Buffer /\ rc \in Int
        BY <1>2 DEF NoPadding, NoData, Buffer, OK
      <2> QED BY <1>2, <2>2, <2>3, IdleType, DriverAssumption DEF TypeOK, DriverTypeOK
    <1>4. CallInv /\ DriverInv /\ PaddingInv /\ Confined
      BY <1>1, <1>2 DEF CallInv, DriverInv, PaddingInv, Confined, Busy, Idle
    <1>5. deleted % SectorSize = 0
      BY <1>2, DriverAssumption, DivModFacts
    <1> QED BY <1>3, <1>4, <1>5 DEF IInv

\* Every step, of the caller, the flash map, the driver or the power supply,
\* keeps the invariant.
LEMMA StepPreserves == IInv /\ [Next]_vars => IInv'
    <1> SUFFICES ASSUME IInv, [Next]_vars PROVE IInv'
      OBVIOUS
    <1>1. CASE CallRead \/ CallErase \/ CallWrite
      BY <1>1, CallsPreserve
    <1>2. CASE ReadSucceeds \/ ReadFails
      BY <1>2, ReadPreserves
    <1>3. CASE ReadPadding
      BY <1>3, PaddingReadPreserves
    <1>4. CASE ReadPaddingFails
      BY <1>4, WriteFailurePreserves
    <1>5. CASE Program
      BY <1>5, ProgramPreserves
    <1>6. CASE Programmed
      BY <1>6, ProgrammedPreserves
    <1>7. CASE Erase
      BY <1>7, ErasePreserves
    <1>8. CASE SectorErased
      BY <1>8, SectorErasedPreserves
    <1>9. CASE EraseEnds
      BY <1>9, EraseEndsPreserves
    <1>10. CASE Driver
      BY <1>10, DriverPreserves
    <1>11. CASE Returned \/ Restart
      BY <1>11, ReturnedPreserves
    <1>12. CASE PowerLoss
      BY <1>12, PowerLossPreserves
    <1>13. CASE UNCHANGED vars
      BY <1>13, SameCall DEF vars, local, request, IInv, TypeOK, DriverTypeOK, CallInv, DriverInv,
            PaddingInv, Confined, Restores, IsSectorAligned
    <1> QED BY <1>1, <1>2, <1>3, <1>4, <1>5, <1>6, <1>7, <1>8, <1>9, <1>10, <1>11, <1>12, <1>13
            DEF Next, Step

\* The inductive invariant holds in every reachable state.
THEOREM Invariance == Spec => []IInv
    BY InitEstablishes, StepPreserves, PTL DEF Spec

\* Type correctness of the flash map and the driver: in particular the erase
\* loop of flash_area_erase never counts past the end of the area.
THEOREM TypeCorrect == Spec => []TypeOK
    <1>1. IInv => TypeOK
      BY DEF IInv
    <1> QED BY <1>1, Invariance, PTL

\* No call of flash_area_write or flash_area_erase changes a byte it was not
\* asked to change, for any alignment, geometry, failure or loss of power.
THEOREM CallsAreConfined == Spec => []Confined
    <1>1. IInv => Confined
      BY DEF IInv
    <1> QED BY <1>1, Invariance, PTL

\* A read that returns 0 has stored what the device holds, and nothing moves the
\* device or the buffer before the caller sees it.
LEMMA ReadStaysExact == IInv /\ ReadExact /\ [Next]_vars => ReadExact'
    <1> SUFFICES ASSUME IInv, ReadExact, [Next]_vars,
                        pc' = "return", rc' = OK, call'.op = "read"
                 PROVE  dst' = [k \in 1 .. call'.len |-> flash'[base' + call'.off + k - 1]]
      BY DEF ReadExact
    <1>1. CASE CallRead \/ CallErase \/ CallWrite
      <2>1. PICK op \in {"read", "write", "erase"} : pc' = op \/ rc' = -1
        BY <1>1 DEF CallRead, CallErase, CallWrite, Call, Return
      <2> QED BY <2>1 DEF OK
    <1>2. CASE ReadSucceeds
      <2>1. dst' = ReadBytes(call.off, call.len) /\ UNCHANGED <<flash, call>>
        BY <1>2 DEF ReadSucceeds, drvVars, request
      <2>2. ReadBytes(call.off, call.len)
              = [k \in 1 .. call.len |-> flash[base + call.off + k - 1]]
        BY ReadBytesExact, CallFacts DEF IInv
      <2>3. base' = base
        BY <2>1, SameCall
      <2> QED BY <2>1, <2>2, <2>3
    <1>3. CASE ReadFails
      BY <1>3 DEF ReadFails, Return, OK, ERROR, ERROR_PARAMETER
    <1>4. CASE ReadPadding \/ ReadPaddingFails \/ Program \/ Programmed
      BY <1>4 DEF ReadPadding, ReadPaddingFails, Program, Programmed, IInv, CallInv, Busy, request
    <1>5. CASE Erase \/ SectorErased \/ EraseEnds
      BY <1>5 DEF Erase, SectorErased, EraseEnds, IInv, CallInv, request
    <1>6. CASE Driver
      BY <1>6, NoDriverCall
         DEF Driver, DriverStep, NvmcProgram, NvmcProgramFails, ProgramReturns, NvmcErase,
             NvmcEraseFails, Programming, Busy
    <1>7. CASE Returned \/ PowerLoss \/ Restart
      BY <1>7 DEF Returned, PowerLoss, Restart
    <1>8. CASE UNCHANGED vars
      BY <1>8, SameCall DEF ReadExact, vars, local, request
    <1> QED BY <1>1, <1>2, <1>3, <1>4, <1>5, <1>6, <1>7, <1>8 DEF Next, Step

\* flash_area_read gives the bytes at off, for any alignment of off and len and any
\* width of the driver's data items.
THEOREM ReadsAreExact == Spec => []ReadExact
    <1>1. Init => ReadExact
      BY DEF Init, ReadExact
    <1> QED BY <1>1, Invariance, ReadStaysExact, PTL DEF Spec

\* A read that was done was of bytes of its area.
ReadInRange ==
    (pc = "return" /\ rc = OK /\ call.op = "read") => IsRangeValid(call.area, call.off, call.len)

LEMMA ReadStaysInRange ==
    ASSUME IInv, ReadInRange, [Next]_vars
    PROVE  ReadInRange'
    <1> SUFFICES ASSUME pc' = "return", rc' = OK, call'.op = "read"
                 PROVE  IsRangeValid(call.area, call.off, call.len)'
      BY DEF ReadInRange
    <1> USE DEF ReadInRange, IsRangeValid
    <1>1. CASE CallRead \/ CallErase \/ CallWrite
      <2>1. PICK op, area, off, len, src : Call(op, area, off, len, src)
        BY <1>1 DEF CallRead, CallErase, CallWrite
      <2>2. call'.area = area /\ call'.off = off /\ call'.len = len
        BY <2>1 DEF Call
      <2>3. CASE IsRangeValid(area, off, len)
        BY <2>2, <2>3
      <2>4. CASE ~IsRangeValid(area, off, len)
        <3>1. rc' = -1
          BY <2>1, <2>4 DEF Call, Return
        <3> QED BY <3>1 DEF OK
      <2> QED BY <2>3, <2>4
    <1>2. CASE ReadSucceeds
      BY <1>2 DEF ReadSucceeds, request, IInv, CallInv
    <1>3. CASE ReadFails
      BY <1>3 DEF ReadFails, Return, OK, ERROR, ERROR_PARAMETER
    <1>4. CASE ReadPadding \/ ReadPaddingFails \/ Program \/ Programmed
      BY <1>4 DEF ReadPadding, ReadPaddingFails, Program, Programmed, IInv, CallInv, Busy, request
    <1>5. CASE Erase \/ SectorErased \/ EraseEnds
      BY <1>5 DEF Erase, SectorErased, EraseEnds, IInv, CallInv, request
    <1>6. CASE Driver
      BY <1>6, NoDriverCall
         DEF Driver, DriverStep, NvmcProgram, NvmcProgramFails, ProgramReturns, NvmcErase,
             NvmcEraseFails, Programming, Busy
    <1>7. CASE Returned \/ PowerLoss \/ Restart
      BY <1>7 DEF Returned, PowerLoss, Restart
    <1>8. CASE UNCHANGED vars
      BY <1>8 DEF vars, local, request
    <1> QED BY <1>1, <1>2, <1>3, <1>4, <1>5, <1>6, <1>7, <1>8 DEF Next, Step

\* The bytes of a read that was done are the ones flash_area_read_is_empty looks at.
LEMMA EmptyReadsErased ==
    ASSUME TypeOK, ReadExact, ReadInRange
    PROVE  EmptyIsErased
    <1> DEFINE bytes == {base + call.off + k : k \in 0 .. call.len - 1}
    <1> SUFFICES ASSUME pc = "return", call.op = "read"
                 PROVE  /\ ReadIsEmpty = 1 => /\ bytes \subseteq AreaAddr(call.area)
                                              /\ \A a \in bytes : flash[a] = Erased
                        /\ ReadIsEmpty = 0 => \E a \in bytes : flash[a] # Erased
      BY DEF EmptyIsErased
    <1>1. /\ call.off \in Nat /\ call.len \in Nat /\ call.area \in Areas
          /\ base \in Nat /\ fa_size[call.area] \in Nat
      BY CallFacts
    <1>2. CASE rc # OK
      BY <1>2 DEF ReadIsEmpty
    <1>3. CASE rc = OK
      <2>1. dst = [k \in 1 .. call.len |-> flash[base + call.off + k - 1]]
        BY <1>3 DEF ReadExact
      <2>2. Len(dst) = call.len /\ \A k \in 1 .. call.len : dst[k] = flash[base + call.off + k - 1]
        BY <2>1, <1>1
      <2>3. \A k \in 1 .. call.len : base + call.off + k - 1 \in bytes
        <3> TAKE k \in 1 .. call.len
        <3>1. k - 1 \in 0 .. call.len - 1 /\ base + call.off + (k - 1) = base + call.off + k - 1
          BY <1>1
        <3> QED BY <3>1
      <2>4. \A a \in bytes : \E k \in 1 .. call.len : a = base + call.off + k - 1
        <3> TAKE a \in bytes
        <3>1. PICK j \in 0 .. call.len - 1 : a = base + call.off + j
          OBVIOUS
        <3>2. j + 1 \in 1 .. call.len /\ a = base + call.off + (j + 1) - 1
          BY <3>1, <1>1
        <3> QED BY <3>2
      <2>5. ASSUME ReadIsEmpty = 1
            PROVE  \A a \in bytes : flash[a] = Erased
        <3>1. \A k \in 1 .. call.len : dst[k] = Erased
          BY <1>3, <2>5, <2>2 DEF ReadIsEmpty
        <3> QED BY <3>1, <2>2, <2>4
      <2>6. ASSUME ReadIsEmpty = 0
            PROVE  \E a \in bytes : flash[a] # Erased
        <3>1. \E k \in 1 .. call.len : dst[k] # Erased
          BY <1>3, <2>6, <2>2 DEF ReadIsEmpty
        <3> QED BY <3>1, <2>2, <2>3
      <2>7. bytes \subseteq AreaAddr(call.area)
        <3>1. call.off + call.len <= fa_size[call.area]
          BY <1>3 DEF ReadInRange, IsRangeValid
        <3> SUFFICES ASSUME NEW a \in bytes PROVE a \in AreaAddr(call.area)
          OBVIOUS
        <3>2. PICK k \in 1 .. call.len : a = base + call.off + k - 1
          BY <2>4
        <3>3. base <= a /\ a < base + fa_size[call.area] /\ a \in Int
          BY <3>1, <3>2, <1>1
        <3>4. a \in Addr
          <4>1. /\ call.off + k - 1 \in Nat /\ call.off + k - 1 < fa_size[call.area]
                /\ a = fa_off[call.area] + (call.off + k - 1)
            BY <3>1, <3>2, <1>1 DEF base
          <4> QED BY <4>1, <1>1, AreaInDevice
        <3> QED BY <3>3, <3>4 DEF AreaAddr, base
      <2> QED BY <2>5, <2>6, <2>7
    <1> QED BY <1>2, <1>3

\* flash_area_read_is_empty never takes bytes outside the area, unread bytes or
\* programmed ones for erased ones, nor erased ones for programmed.
THEOREM EmptyIsTrue == Spec => []EmptyIsErased
    <1>1. Init => ReadExact /\ ReadInRange
      BY DEF Init, ReadExact, ReadInRange
    <1>2. IInv /\ ReadExact /\ ReadInRange => EmptyIsErased
      BY EmptyReadsErased DEF IInv
    <1> QED BY <1>1, <1>2, Invariance, ReadStaysExact, ReadStaysInRange, PTL DEF Spec

\* What a call may change belongs to the area it names.
LEMMA TargetInArea ==
    ASSUME TypeOK
    PROVE  Target \subseteq AreaAddr(call.area)
    <1>1. /\ call.off \in Nat /\ call.len \in Nat /\ call.area \in Areas
          /\ base \in Nat /\ fa_size[call.area] \in Nat
      BY CallFacts
    <1>2. \A a \in Addr : a \in Int
      BY DriverAssumption DEF Addr
    <1> SUFFICES ASSUME NEW a \in Target PROVE a \in AreaAddr(call.area)
      OBVIOUS
    <1>3. a \in Addr /\ base + call.off <= a /\ IsRangeValid(call.area, call.off, call.len)
      BY DEF Target
    <1>4. a < base + fa_size[call.area]
      <2>1. CASE call.op = "read"
        BY <1>1, <1>2, <1>3, <2>1 DEF Target
      <2>2. CASE call.op = "write"
        BY <1>1, <1>2, <1>3, <2>2 DEF Target, IsRangeValid
      <2>3. CASE call.op = "erase"
        <3>1. CASE ~IsSectorAligned(call.off)
          BY <1>1, <1>2, <1>3, <2>3, <3>1 DEF Target
        <3>2. CASE IsSectorAligned(call.off)
          <4> DEFINE top == call.off + Ceiling(call.len, SectorSize)
          <4>1. /\ SectorSize \in Nat \ {0} /\ call.off % SectorSize = 0
                /\ fa_size[call.area] % SectorSize = 0
            BY <1>1, <3>2, DriverAssumption, AreaAssumption DEF IsSectorAligned
          <4>2. /\ Ceiling(call.len, SectorSize) \in Nat
                /\ Ceiling(call.len, SectorSize) < call.len + SectorSize
                /\ Ceiling(call.len, SectorSize) % SectorSize = 0
            BY <1>1, <4>1, CeilingFacts
          <4>3. top \in Nat /\ top % SectorSize = 0
            <5> DEFINE c == Ceiling(call.len, SectorSize)
            <5>1. c \in Nat /\ c % SectorSize = 0 /\ call.off \in Nat
              BY <1>1, <4>2
            <5> HIDE DEF c
            <5>2. (call.off + c) % SectorSize = 0
              BY <4>1, <5>1, AlignedSum, Zenon
            <5> QED BY <5>1, <5>2 DEF c
          <4>4. top < fa_size[call.area] + SectorSize
            BY <1>1, <1>3, <4>1, <4>2 DEF IsRangeValid
          <4>5. a < base + top
            BY <1>1, <1>2, <1>3, <2>3, <3>2, <4>2 DEF Target
          <4> HIDE DEF top
          <4>6. fa_size[call.area] < top => fa_size[call.area] + SectorSize <= top
            BY <1>1, <4>1, <4>3, AlignedStep
          <4> QED BY <1>1, <1>2, <1>3, <4>1, <4>3, <4>4, <4>5, <4>6
        <3> QED BY <3>1, <3>2
      <2> QED BY <2>1, <2>2, <2>3 DEF TypeOK
    <1> QED BY <1>1, <1>2, <1>3, <1>4 DEF AreaAddr, base

\* A step of one call changes no byte of the other areas of the device, though
\* they share its sectors and its driver.
THEOREM AreasAreSeparate == Spec => OtherAreasUntouched
    <1> DEFINE Apart == \A area \in Areas \ {call.area} :
                            \A a \in AreaAddr(area) : flash'[a] = flash[a]
    <1>1. ASSUME IInv, IInv', [Next]_vars PROVE [Apart]_vars
      <2>1. CASE UNCHANGED flash
        BY <2>1
      <2>2. CASE UNCHANGED <<call, pre>>
        <3> SUFFICES ASSUME NEW area \in Areas, area # call.area, NEW a \in AreaAddr(area)
                     PROVE  flash'[a] = flash[a]
          OBVIOUS
        <3>1. TypeOK /\ Confined /\ Confined' /\ call.area \in Areas /\ a \in Addr
          BY <1>1 DEF IInv, TypeOK, AreaAddr
        <3>2. AreaAddr(area) \cap AreaAddr(call.area) = {}
          BY <3>1, AreaAssumption
        <3>3. a \notin Target /\ a \notin Target'
          BY <2>2, <3>1, <3>2, TargetInArea, SameCall
        <3> QED BY <2>2, <3>1, <3>3 DEF Confined
      <2>3. UNCHANGED flash \/ UNCHANGED <<call, pre>>
        BY <1>1 DEF Next, Step, CallRead, CallErase, CallWrite, Call, ReadSucceeds, ReadFails,
              ReadPadding, ReadPaddingFails, Program, Programmed, Erase, SectorErased, EraseEnds,
              Driver, Returned, PowerLoss, Restart, vars, drvVars, local, request
      <2> QED BY <2>1, <2>2, <2>3
    <1> QED BY <1>1, Invariance, PTL DEF Spec, OtherAreasUntouched

-----------------------------------------------------------------------------
(* Arguments that is_range_valid admits are never refused further down:    *)
(* neither by the parameter checks of the driver nor by those that         *)
(* flash_area_write makes of its own arithmetic; for every geometry whose  *)
(* sectors are whole units of FLASH_PROGRAM_UNIT.                          *)

SectorsOfUnits == SectorSize % FLASH_PROGRAM_UNIT = 0

\* Whole units are programmed only when there are some; the driver between two calls
\* has refused nothing.
RefusalInv ==
    /\ NeverRefused
    /\ pc = "whole" => WriteSize > 0
    /\ drv.op = "idle" => drv.ret = OK

-----------------------------------------------------------------------------
(* The range checks.                                                       *)

\* is_range_valid_internal lets every address of the device through.
LEMMA DeviceInRange ==
    ASSUME NEW x \in Nat, MemoryBase <= x, x < MemoryBase + FlashSize
    PROVE  InRange(x)
    <1>1. FlashSize \in Nat /\ MemoryBase \in Nat /\ WordMod \in Nat /\ FlashSize < WordMod
      BY DriverAssumption DEF FlashSize
    <1>2. x - MemoryBase \in Nat /\ x - MemoryBase < FlashSize
      BY <1>1
    <1> DEFINE d == x - MemoryBase
    <1> HIDE DEF d
    <1>3. d \in Nat /\ d < WordMod => d % WordMod = d
      BY <1>1
    <1> QED BY <1>1, <1>2, <1>3 DEF InRange, d

\* The last byte of a range inside an area is inside the device.
LEMMA AreaInRange ==
    ASSUME NEW area \in Areas, NEW off \in Nat, NEW n \in Nat, n > 0,
           off + n <= fa_size[area]
    PROVE  LastByteInRange(fa_off[area] + off, n)
    <1>1. /\ fa_off[area] \in Nat /\ fa_size[area] \in Nat /\ MemoryBase \in Nat
          /\ FlashSize \in Nat /\ MemoryBase <= fa_off[area]
          /\ fa_off[area] + fa_size[area] <= MemoryBase + FlashSize
      BY AreaAssumption, DriverAssumption DEF FlashSize
    <1> DEFINE x == fa_off[area] + off + n - 1
    <1>2. x \in Nat /\ MemoryBase <= x /\ x < MemoryBase + FlashSize
      BY <1>1
    <1> HIDE DEF x
    <1>3. InRange(x)
      BY <1>2, DeviceInRange
    <1> QED BY <1>3 DEF LastByteInRange, x

\* Areas are whole units, and whole data items.
LEMMA WholeAreas ==
    ASSUME SectorsOfUnits, NEW area \in Areas
    PROVE  /\ fa_off[area] \in Nat /\ fa_size[area] \in Nat
           /\ fa_size[area] % FLASH_PROGRAM_UNIT = 0 /\ fa_size[area] % DataWidth = 0
           /\ fa_off[area] % ProgramUnit = 0 /\ fa_off[area] % SectorSize = 0
    <1>1. /\ fa_off[area] \in Nat /\ fa_size[area] \in Nat
          /\ fa_off[area] % SectorSize = 0 /\ fa_size[area] % SectorSize = 0
          /\ FLASH_PROGRAM_UNIT \in Nat \ {0}
          /\ FLASH_PROGRAM_UNIT % DataWidth = 0 /\ FLASH_PROGRAM_UNIT % ProgramUnit = 0
      BY AreaAssumption
    <1>2. SectorSize \in Nat \ {0} /\ DataWidth \in Nat \ {0} /\ ProgramUnit \in Nat \ {0}
      BY DriverAssumption
    <1>3. fa_size[area] % FLASH_PROGRAM_UNIT = 0 /\ fa_off[area] % FLASH_PROGRAM_UNIT = 0
      BY <1>1, <1>2, AlignedItems DEF SectorsOfUnits
    <1>4. fa_size[area] % DataWidth = 0 /\ fa_off[area] % ProgramUnit = 0
      BY <1>1, <1>2, <1>3, AlignedItems
    <1> QED BY <1>1, <1>3, <1>4

\* A data item that begins inside an area ends inside it.
LEMMA ItemInArea ==
    ASSUME SectorsOfUnits, NEW area \in Areas, NEW off \in Nat, off % DataWidth = 0,
           off < fa_size[area]
    PROVE  off + DataWidth <= fa_size[area]
    <1>1. fa_size[area] \in Nat /\ fa_size[area] % DataWidth = 0 /\ DataWidth \in Nat \ {0}
      BY WholeAreas, DriverAssumption
    <1> QED BY <1>1, AlignedStep

\* The driver accepts every ReadData call that flash_area_read makes of a range
\* inside the area: head item, whole items and tail item.
LEMMA ReadAccepted ==
    ASSUME SectorsOfUnits, call.area \in Areas, NEW off \in Nat, NEW len \in Nat,
           off + len <= fa_size[call.area]
    PROVE  ~ReadRejected(off, len)
    <1> DEFINE D == DataWidth
               skip == off % D
               head == HeadLen(off, len)
               items == ItemNumber(off, len) * D
    <1>1. D \in Nat \ {0} /\ skip \in 0 .. (D - 1) /\ fa_size[call.area] \in Nat /\ base \in Nat
      BY DriverAssumption, DivModFacts, WholeAreas DEF base
    <1>2. /\ head \in 0 .. len
          /\ head = IF skip = 0 THEN 0 ELSE IF skip + len >= D THEN D - skip ELSE len
      BY CutOfRead DEF HeadLen
    <1>3. /\ items \in Nat /\ items <= len - head /\ items % D = 0
          /\ ItemNumber(off, len) \in Nat /\ (ItemNumber(off, len) > 0 => items > 0)
      <2> DEFINE n == len - head
                 q == n \div D
      <2>1. n \in Nat
        BY <1>2
      <2> HIDE DEF n
      <2>2. q \in Nat /\ n = D * q + (n % D) /\ n % D \in 0 .. (D - 1)
        BY <1>1, <2>1, DivModFacts
      <2>3. ItemNumber(off, len) = q
        BY DEF ItemNumber, n
      <2> HIDE DEF q
      <2>4. (D * q) % D = 0 /\ D * q \in Nat
        BY <1>1, <2>2, MultipleFact
      <2>5. q * D = D * q /\ (q > 0 => D * q > 0)
        BY <1>1, <2>2
      <2> QED BY <1>2, <2>1, <2>2, <2>3, <2>4, <2>5 DEF n
    <1>4. TailAt(off, len) = head + items
      BY DEF TailAt
    <1> HIDE DEF items
    <1>5. ASSUME skip # 0 PROVE LastByteInRange(base + Floor(off, D), 1 * D)
      <2>1. Floor(off, D) \in Nat /\ Floor(off, D) <= off /\ Floor(off, D) % D = 0
        BY <1>1, FloorFacts
      <2>2. off < fa_size[call.area]
        <3>1. fa_size[call.area] % D = 0
          BY WholeAreas
        <3> QED BY <1>1, <1>5, <3>1
      <2>3. Floor(off, D) + D <= fa_size[call.area]
        BY <1>1, <2>1, <2>2, ItemInArea
      <2>4. LastByteInRange(base + Floor(off, D), D)
        BY <1>1, <2>1, <2>3, AreaInRange DEF base
      <2>5. 1 * D = D
        BY <1>1
      <2> QED BY <2>4, <2>5
    <1>6. ASSUME ItemNumber(off, len) > 0 PROVE LastByteInRange(base + off + head, items)
      <2>1. off + head \in Nat /\ off + head + items <= fa_size[call.area] /\ items > 0
        BY <1>1, <1>2, <1>3, <1>6
      <2>2. LastByteInRange(base + (off + head), items)
        BY <1>3, <2>1, AreaInRange DEF base
      <2>3. base + (off + head) = base + off + head
        BY <1>1, <1>2
      <2> QED BY <2>2, <2>3
    <1>7. ASSUME TailAt(off, len) < len PROVE LastByteInRange(base + off + TailAt(off, len), 1 * D)
      <2>1. head < len
        BY <1>1, <1>2, <1>3, <1>4, <1>7
      <2>2. off + head \in Nat /\ (off + head) % D = 0
        <3>1. CASE skip = 0
          BY <1>1, <1>2, <3>1
        <3>2. CASE skip # 0
          <4>1. head = D - skip
            BY <1>2, <2>1, <3>2
          <4>2. off = D * (off \div D) + skip /\ off \div D \in Nat
            BY <1>1, DivModFacts
          <4>3. off + head = D * (off \div D + 1)
            BY <1>1, <4>1, <4>2
          <4>4. (D * (off \div D + 1)) % D = 0
            BY <1>1, <4>2, MultipleFact
          <4> QED BY <1>1, <1>2, <4>3, <4>4
        <3> QED BY <3>1, <3>2
      <2> DEFINE t == off + head + items
      <2>3. t \in Nat /\ t % D = 0 /\ t < fa_size[call.area]
        <3> DEFINE h == off + head
        <3> HIDE DEF h, head, skip
        <3>1. (h + items) % D = 0
          BY <1>1, <1>3, <2>2, AlignedSum DEF h
        <3> QED BY <1>1, <1>2, <1>3, <1>4, <1>7, <2>2, <3>1 DEF h
      <2>4. base + off + TailAt(off, len) = base + t
        BY <1>1, <1>2, <1>3, <1>4
      <2> HIDE DEF t
      <2>5. t + D <= fa_size[call.area]
        BY <2>3, ItemInArea
      <2>6. LastByteInRange(base + t, D)
        BY <1>1, <2>3, <2>5, AreaInRange DEF base
      <2>7. 1 * D = D
        BY <1>1
      <2> QED BY <2>4, <2>6, <2>7
    <1> SUFFICES ASSUME NEW r \in ReadCalls(off, len) PROVE LastByteInRange(r[1], r[2] * DataWidth)
      BY DEF ReadRejected
    <1>8. /\ r \in {<<base + Floor(off, DataWidth), IF off % DataWidth = 0 THEN 0 ELSE 1>>,
                    <<base + off + head, ItemNumber(off, len)>>,
                    <<base + off + TailAt(off, len), IF TailAt(off, len) < len THEN 1 ELSE 0>>}
          /\ r[2] > 0
      BY DEF ReadCalls
    <1>9. CASE r = <<base + Floor(off, DataWidth), IF off % DataWidth = 0 THEN 0 ELSE 1>>
      <2>1. skip # 0 /\ r[2] = 1 /\ r[1] = base + Floor(off, D)
        BY <1>8, <1>9
      <2> QED BY <1>5, <2>1
    <1>10. CASE r = <<base + off + head, ItemNumber(off, len)>>
      BY <1>6, <1>8, <1>10 DEF items
    <1>11. CASE r = <<base + off + TailAt(off, len), IF TailAt(off, len) < len THEN 1 ELSE 0>>
      <2>1. TailAt(off, len) < len /\ r[2] = 1 /\ r[1] = base + off + TailAt(off, len)
        BY <1>8, <1>11
      <2> QED BY <1>7, <2>1
    <1> QED BY <1>8, <1>9, <1>10, <1>11

-----------------------------------------------------------------------------
(* What flash_area_write asks of the driver.                               *)

\* The aligned range around a write lies in the area when the write does.
LEMMA AlignedRangeFits ==
    ASSUME TypeOK, SectorsOfUnits, IsRangeValid(call.area, call.off, call.len)
    PROVE  /\ AlignedOff + AlignedLen <= fa_size[call.area]
           /\ AlignedOff % FLASH_PROGRAM_UNIT = 0
           /\ AlignedOff + AlignedLen = call.off + call.len + LenPadding
    <1> DEFINE U == FLASH_PROGRAM_UNIT
    <1>1. /\ call.off \in Nat /\ call.len \in Nat /\ call.area \in Areas
          /\ call.off + call.len <= fa_size[call.area]
      BY CallFacts DEF IsRangeValid
    <1>2. U \in Nat \ {0} /\ fa_size[call.area] \in Nat /\ fa_size[call.area] % U = 0
      BY <1>1, AreaAssumption, WholeAreas
    <1> HIDE DEF U
    <1>3. /\ AddPadding \in 0 .. (U - 1)
          /\ AlignedOff \in Nat /\ AlignedOff + AddPadding = call.off
          /\ AlignedLen \in Nat /\ AlignedLen % U = 0
          /\ AlignedLen < call.len + AddPadding + U
          /\ LenPadding = AlignedLen - call.len - AddPadding
      BY <1>1, PaddingFacts DEF U
    <1>4. AlignedOff % U = 0
      BY <1>1, <1>2, FloorFacts DEF AlignedOff, U
    <1> DEFINE e == AlignedOff + AlignedLen
    <1>5. e \in Nat /\ e % U = 0 /\ e < fa_size[call.area] + U
      <2>1. (AlignedOff + AlignedLen) % U = 0
        BY <1>2, <1>3, <1>4, AlignedSum, Zenon
      <2>2. e \in Nat /\ e < fa_size[call.area] + U
        BY <1>1, <1>2, <1>3
      <2> QED BY <2>1, <2>2
    <1>6. e = call.off + call.len + LenPadding
      BY <1>1, <1>3
    <1> HIDE DEF e
    <1>7. e <= fa_size[call.area]
      <2>1. fa_size[call.area] < e => fa_size[call.area] + U <= e
        BY <1>2, <1>5, AlignedStep
      <2> QED BY <1>2, <1>5, <2>1
    <1> QED BY <1>4, <1>6, <1>7 DEF e, U

\* The reads of the padding and the check of the aligned range between them pass.
LEMMA WriteAccepted ==
    ASSUME TypeOK, SectorsOfUnits, IsRangeValid(call.area, call.off, call.len)
    PROVE  ~WriteRejected
    <1>1. /\ call.off \in Nat /\ call.len \in Nat /\ call.area \in Areas
          /\ call.off + call.len <= fa_size[call.area] /\ fa_size[call.area] \in Nat
      BY CallFacts DEF IsRangeValid
    <1>2. /\ AddPadding \in Nat /\ AlignedOff \in Nat /\ AlignedOff + AddPadding = call.off
          /\ LenPadding \in Nat /\ AlignedLen \in Nat
      BY <1>1, PaddingFacts, AreaAssumption
    <1>3. /\ AlignedOff + AlignedLen <= fa_size[call.area]
          /\ AlignedOff + AlignedLen = call.off + call.len + LenPadding
      BY AlignedRangeFits
    <1>4. fa_size[call.area] < WordMod
      BY <1>1, AreaAssumption, DriverAssumption DEF FlashSize
    <1>5. ~ReadRejected(AlignedOff, AddPadding)
      BY <1>1, <1>2, ReadAccepted
    <1>6. ~ReadRejected(call.off + call.len, LenPadding)
      BY <1>1, <1>2, <1>3, ReadAccepted
    <1>7. IsRangeValid(call.area, AlignedOff, AlignedLen)
      BY <1>1, <1>2, <1>3, <1>4, DriverAssumption DEF IsRangeValid
    <1> QED BY <1>5, <1>6, <1>7 DEF WriteRejected

\* The three parts of a write begin on a whole unit, are not empty and end inside
\* the area.
LEMMA JobPlaced ==
    ASSUME IInv, SectorsOfUnits, pc \in Busy, pc = "whole" => WriteSize > 0
    PROVE  \E off \in Nat : /\ Job.addr = base + off /\ off % FLASH_PROGRAM_UNIT = 0
                            /\ Job.len \in Nat \ {0} /\ off + Job.len <= fa_size[call.area]
    <1> DEFINE U == FLASH_PROGRAM_UNIT
    <1>1. /\ call.off \in Nat /\ call.len \in Nat /\ call.area \in Areas /\ base \in Nat
          /\ call.off + call.len <= fa_size[call.area] /\ fa_size[call.area] \in Nat
      BY CallFacts DEF IInv, CallInv, IsRangeValid
    <1>2. U \in Nat \ {0} /\ fa_size[call.area] % U = 0 /\ U % U = 0
      <2>1. FLASH_PROGRAM_UNIT \in Nat \ {0}
        BY AreaAssumption
      <2>2. (FLASH_PROGRAM_UNIT * 1) % FLASH_PROGRAM_UNIT = 0
        BY <2>1, MultipleFact
      <2>3. FLASH_PROGRAM_UNIT * 1 = FLASH_PROGRAM_UNIT
        BY <2>1
      <2> QED BY <1>1, <2>1, <2>2, <2>3, WholeAreas
    <1> HIDE DEF U
    <1>3. /\ AddPadding \in 0 .. (U - 1)
          /\ AlignedOff \in Nat /\ AlignedOff + AddPadding = call.off
          /\ AlignedLen \in Nat /\ AlignedLen % U = 0
          /\ LenPadding = AlignedLen - call.len - AddPadding /\ LenPadding \in Nat
      BY <1>1, PaddingFacts DEF U
    <1>4. /\ FirstLen \in 0 .. call.len
          /\ AddPadding = 0 => FirstLen = 0
          /\ AddPadding > 0 /\ FirstLen < call.len => AddPadding + FirstLen = U
          /\ WriteSize \in Nat /\ WriteSize % U = 0
          /\ LastStart = FirstLen + WriteSize /\ LastStart \in 0 .. call.len
          /\ LastLen = call.len - LastStart /\ LastLen \in 0 .. (U - 1)
      BY <1>1, CutFacts DEF U
    <1>5. AlignedOff % U = 0 /\ AlignedOff + AlignedLen <= fa_size[call.area]
      BY AlignedRangeFits DEF IInv, CallInv, U
    <1>6. FirstLen < call.len => call.off + FirstLen \in Nat /\ (call.off + FirstLen) % U = 0
      <2>1. CASE AddPadding = 0
        BY <1>1, <1>3, <1>4, <1>5, <2>1
      <2>2. CASE AddPadding > 0
        <3>1. (AlignedOff + U) % U = 0
          BY <1>2, <1>3, <1>5, AlignedSum
        <3>2. FirstLen < call.len => call.off + FirstLen = AlignedOff + U
          BY <1>1, <1>2, <1>3, <1>4, <2>2
        <3> QED BY <1>1, <1>4, <3>1, <3>2
      <2> QED BY <1>3, <2>1, <2>2
    <1>7. CASE pc = "first"
      <2>1. AddPadding > 0
        BY <1>7 DEF IInv, PaddingInv, Busy
      <2>2. 0 < AlignedLen /\ 0 % U = 0
        BY <1>1, <1>2, <1>3, <2>1
      <2>3. U <= AlignedLen
        BY <1>2, <1>3, <2>2, AlignedStep
      <2>4. Job.addr = base + AlignedOff /\ Job.len = U
        BY <1>7 DEF Job, FirstUnit, U
      <2>5. AlignedOff + U <= fa_size[call.area]
        BY <1>1, <1>2, <1>3, <1>5, <2>3
      <2> QED BY <1>2, <1>3, <1>5, <2>4, <2>5 DEF U
    <1>8. CASE pc = "whole"
      <2> DEFINE o == call.off + FirstLen
      <2>1. WriteSize > 0 /\ FirstLen < call.len /\ o + WriteSize <= fa_size[call.area]
        BY <1>1, <1>4, <1>8
      <2>2. o \in Nat /\ o % U = 0
        BY <1>6, <2>1
      <2>3. Job.addr = base + o /\ Job.len = WriteSize
        <3>1. Job.addr = base + call.off + FirstLen /\ Job.len = WriteSize
          BY <1>8 DEF Job, WholeUnits
        <3> QED BY <1>1, <1>4, <3>1
      <2> HIDE DEF o
      <2> QED BY <1>4, <2>1, <2>2, <2>3 DEF U
    <1>9. CASE pc = "last"
      <2> DEFINE o == (call.off + FirstLen) + WriteSize
      <2>1. FirstLen < call.len /\ LenPadding > 0
        BY <1>9 DEF IInv, PaddingInv, Busy
      <2>2. o \in Nat /\ o % U = 0
        <3> DEFINE f == call.off + FirstLen
        <3>1. f \in Nat /\ f % U = 0
          BY <1>6, <2>1
        <3> HIDE DEF f
        <3>2. (f + WriteSize) % U = 0
          BY <1>2, <1>4, <3>1, AlignedSum, Zenon
        <3>3. f + WriteSize \in Nat
          BY <1>4, <3>1
        <3> QED BY <3>2, <3>3 DEF f
      <2>3. o < fa_size[call.area]
        <3>1. AlignedOff + AlignedLen = call.off + call.len + LenPadding
          BY <1>1, <1>3
        <3>2. o <= call.off + call.len
          BY <1>1, <1>4
        <3> QED BY <1>1, <1>3, <1>4, <1>5, <2>1, <2>2, <3>1, <3>2
      <2>4. o + U <= fa_size[call.area]
        <3> HIDE DEF o
        <3> QED BY <1>1, <1>2, <2>2, <2>3, AlignedStep
      <2>5. Job.addr = base + o /\ Job.len = U
        <3>1. Job.addr = base + call.off + LastStart /\ Job.len = FLASH_PROGRAM_UNIT
          BY <1>9 DEF Job, LastUnit
        <3> QED BY <1>1, <1>4, <3>1 DEF U
      <2> HIDE DEF o
      <2> QED BY <1>2, <2>2, <2>4, <2>5 DEF U
    <1> QED BY <1>7, <1>8, <1>9 DEF Busy

\* ProgramData takes them.
LEMMA ProgramAccepted ==
    ASSUME IInv, SectorsOfUnits, pc \in Busy, pc = "whole" => WriteSize > 0,
           ProgramData(Job.addr, Job.data, Job.len \div DataWidth)
    PROVE  drv'.ret = OK
    <1>1. PICK off \in Nat : /\ Job.addr = base + off /\ off % FLASH_PROGRAM_UNIT = 0
                             /\ Job.len \in Nat \ {0} /\ off + Job.len <= fa_size[call.area]
      BY JobPlaced
    <1>2. Job.len % FLASH_PROGRAM_UNIT = 0
      BY JobFacts DEF JobOK
    <1>3. /\ FLASH_PROGRAM_UNIT \in Nat \ {0} /\ DataWidth \in Nat \ {0}
          /\ ProgramUnit \in Nat \ {0} /\ FLASH_PROGRAM_UNIT % DataWidth = 0
          /\ FLASH_PROGRAM_UNIT % ProgramUnit = 0
      BY AreaAssumption, DriverAssumption
    <1>4. (Job.len \div DataWidth) * DataWidth = Job.len /\ Job.len % ProgramUnit = 0
      BY <1>1, <1>2, <1>3, AlignedItems
    <1>5. call.area \in Areas
      BY CallFacts DEF IInv
    <1>6. LastByteInRange(Job.addr, Job.len)
      BY <1>1, <1>5, AreaInRange DEF base
    <1>7. (base + off) % ProgramUnit = 0
      <2>1. base \in Nat /\ base % ProgramUnit = 0
        BY <1>5, WholeAreas DEF base
      <2>2. off % ProgramUnit = 0
        BY <1>1, <1>3, AlignedItems
      <2> HIDE DEF base
      <2> QED BY <1>1, <1>3, <2>1, <2>2, AlignedSum
    <1> QED BY <1>1, <1>4, <1>6, <1>7 DEF ProgramData, IsWriteAligned

\* EraseSector takes every sector of an erase that begins on one.
LEMMA EraseAccepted ==
    ASSUME IInv, SectorsOfUnits, pc = "erase", IsSectorAligned(call.off), deleted < call.len,
           EraseSector(base + call.off + deleted)
    PROVE  drv'.ret = OK
    <1>1. /\ call.off \in Nat /\ call.len \in Nat /\ call.area \in Areas /\ base \in Nat
          /\ call.off + call.len <= fa_size[call.area] /\ fa_size[call.area] \in Nat
      BY CallFacts DEF IInv, CallInv, IsRangeValid
    <1>2. SectorSize \in Nat \ {0} /\ deleted \in Nat /\ deleted % SectorSize = 0
      BY DriverAssumption DEF IInv, TypeOK
    <1>3. base % SectorSize = 0 /\ call.off % SectorSize = 0
      BY <1>1, WholeAreas DEF base, IsSectorAligned
    <1>4. (base + call.off) % SectorSize = 0
      BY <1>1, <1>2, <1>3, AlignedSum
    <1>5. (base + call.off + deleted) % SectorSize = 0
      <2> DEFINE b == base + call.off
      <2>1. b \in Nat /\ b % SectorSize = 0
        BY <1>1, <1>4
      <2> HIDE DEF b
      <2>2. (b + deleted) % SectorSize = 0
        BY <1>2, <2>1, AlignedSum
      <2> QED BY <2>2 DEF b
    <1>6. InRange(base + call.off + deleted)
      <2>1. /\ MemoryBase \in Nat /\ FlashSize \in Nat /\ MemoryBase <= base
            /\ base + fa_size[call.area] <= MemoryBase + FlashSize
        BY <1>1, AreaAssumption, DriverAssumption DEF base, FlashSize
      <2> QED BY <1>1, <1>2, <2>1, DeviceInRange
    <1> QED BY <1>5, <1>6 DEF EraseSector, IsSectorAligned

-----------------------------------------------------------------------------
(* The invariant.                                                          *)

\* The cuts of a write are the same as long as its arguments are.
LEMMA SameCuts ==
    ASSUME UNCHANGED call
    PROVE  WriteSize' = WriteSize /\ WriteRejected' = WriteRejected
    BY DEF WriteSize, FirstLen, AddPadding, WriteRejected, ReadRejected, ReadCalls, AlignedOff,
           AlignedLen, LenPadding, IsRangeValid, base, HeadLen, TailAt, ItemNumber,
           LastByteInRange, InRange

\* What is_range_valid admits passes the checks that follow.
LEMMA RangeAccepted ==
    ASSUME SectorsOfUnits
    PROVE  TypeOK /\ IsRangeValid(call.area, call.off, call.len)
             => ~ReadRejected(call.off, call.len) /\ ~WriteRejected
    <1> SUFFICES ASSUME TypeOK, IsRangeValid(call.area, call.off, call.len)
                 PROVE  ~ReadRejected(call.off, call.len) /\ ~WriteRejected
      OBVIOUS
    <1>1. ~WriteRejected
      BY WriteAccepted
    <1>2. ~ReadRejected(call.off, call.len)
      BY CallFacts, ReadAccepted DEF IsRangeValid
    <1> QED BY <1>1, <1>2

\* The units of a write are full.
LEMMA JobIsFilled == IInv /\ pc \in Busy => Job.filled
    BY JobFacts DEF JobOK

\* Every step keeps the promise that nothing is refused.
LEMMA RefusalStep ==
    ASSUME SectorsOfUnits, IInv, IInv', RefusalInv, [Next]_vars
    PROVE  RefusalInv'
    <1>r. ASSUME pc' = "read" PROVE ~ReadRejected(call.off, call.len)'
      <2>1. (TypeOK /\ IsRangeValid(call.area, call.off, call.len))'
        BY <1>r DEF IInv, CallInv
      <2>2. (TypeOK /\ IsRangeValid(call.area, call.off, call.len)
              => ~ReadRejected(call.off, call.len))'
        BY RangeAccepted, PTL
      <2> QED BY <2>1, <2>2
    <1>w. ASSUME pc' = "write" PROVE ~WriteRejected'
      <2>1. (TypeOK /\ IsRangeValid(call.area, call.off, call.len))'
        BY <1>w DEF IInv, CallInv
      <2>2. (TypeOK /\ IsRangeValid(call.area, call.off, call.len) => ~WriteRejected)'
        BY RangeAccepted, PTL
      <2> QED BY <2>1, <2>2
    <1>f. ASSUME pc' \in {"first", "whole", "last"} PROVE Job'.filled
      <2>1. (IInv /\ pc \in Busy => Job.filled)'
        BY JobIsFilled, PTL
      <2> QED BY <1>f, <2>1 DEF Busy
    <1> SUFFICES /\ pc' \in {"first", "whole", "last"} => drv'.ret # ERROR_PARAMETER
                 /\ pc' = "erase" /\ IsSectorAligned(call'.off) => drv'.ret # ERROR_PARAMETER
                 /\ pc' = "whole" => WriteSize' > 0
                 /\ drv'.op = "idle" => drv'.ret = OK
      BY <1>r, <1>w, <1>f DEF RefusalInv, NeverRefused
    <1>1. CASE CallRead \/ CallErase \/ CallWrite
      <2>1. drv.op = "idle" /\ drv' = drv /\ pc' \notin {"first", "whole", "last"}
        BY <1>1, NoDriverCall DEF CallRead, CallErase, CallWrite, Call, Return, drvVars, Busy
      <2> QED BY <2>1 DEF RefusalInv, OK, ERROR_PARAMETER
    <1>2. CASE ReadSucceeds \/ ReadFails \/ ReadPaddingFails \/ EraseEnds
      BY <1>2 DEF ReadSucceeds, ReadFails, ReadPaddingFails, EraseEnds, Return, drvVars, RefusalInv
    <1>3. CASE ReadPadding
      <2>1. pc = "write" /\ pc' = AfterPadding /\ UNCHANGED <<drv, call>>
        BY <1>3 DEF ReadPadding, drvVars, request
      <2>2. pc' \in {"first", "whole", "last", "return"} /\ (pc' = "whole" => WriteSize > 0)
        BY <2>1 DEF AfterPadding, AfterFirst, AfterWhole
      <2>3. drv.op = "idle"
        BY <2>1, NoDriverCall DEF Busy
      <2> QED BY <2>1, <2>2, <2>3, SameCuts DEF RefusalInv, OK, ERROR_PARAMETER
    <1>4. CASE Program
      <2>1. /\ pc \in Busy /\ UNCHANGED <<pc, call>>
            /\ ProgramData(Job.addr, Job.data, Job.len \div DataWidth)
        BY <1>4, JobFacts DEF Program, Busy, JobOK, request
      <2>2. drv'.ret = OK
        BY <2>1, ProgramAccepted DEF RefusalInv
      <2> QED BY <2>1, <2>2, SameCuts DEF RefusalInv, Busy, OK, ERROR_PARAMETER
    <1>5. CASE Programmed
      <2>1. pc \in Busy /\ drv' = Idle /\ UNCHANGED call /\ pc' \in {"return", AfterJob}
        BY <1>5 DEF Programmed, Return, Busy, request
      <2>2. pc' \in {"whole", "last", "return"} /\ (pc' = "whole" => WriteSize > 0)
        BY <2>1 DEF AfterJob, AfterFirst, AfterWhole, Busy
      <2> QED BY <2>1, <2>2, SameCuts DEF Idle, OK, ERROR_PARAMETER
    <1>6. CASE Erase
      <2>1. /\ pc = "erase" /\ deleted < call.len /\ UNCHANGED <<pc, call>>
            /\ EraseSector(base + call.off + deleted)
        BY <1>6 DEF Erase, request
      <2>2. drv'.op # "idle"
        BY <2>1 DEF EraseSector, Done
      <2>3. IsSectorAligned(call.off) => drv'.ret = OK
        BY <2>1, EraseAccepted
      <2> QED BY <2>1, <2>2, <2>3 DEF OK, ERROR_PARAMETER
    <1>7. CASE SectorErased
      BY <1>7 DEF SectorErased, Return, Idle, OK, ERROR_PARAMETER
    <1>8. CASE Driver
      <2>1. UNCHANGED <<pc, call>>
        BY <1>8 DEF Driver, request
      <2>2. /\ drv'.ret # ERROR_PARAMETER \/ drv'.ret = drv.ret
            /\ drv'.op # "idle"
        <3>1. drv.sz \div DataWidth # -5
          <4>1. drv.sz \in Nat /\ DataWidth \in Nat \ {0}
            BY DriverAssumption DEF IInv, TypeOK, DriverTypeOK
          <4> QED BY <4>1, DivModFacts
        <3>2. CASE NvmcProgram
          BY <3>2 DEF NvmcProgram, Programming, IInv, TypeOK, DriverTypeOK
        <3>3. CASE NvmcProgramFails \/ ProgramReturns \/ NvmcErase \/ NvmcEraseFails
          BY <3>1, <3>3 DEF NvmcProgramFails, ProgramReturns, NvmcErase, NvmcEraseFails, Done,
                ERROR, OK, ERROR_PARAMETER
        <3> QED BY <1>8, <3>2, <3>3 DEF Driver, DriverStep
      <2> QED BY <2>1, <2>2, SameCuts DEF RefusalInv, NeverRefused
    <1>9. CASE Returned \/ PowerLoss \/ Restart
      BY <1>9 DEF Returned, PowerLoss, Restart, drvVars, Idle, RefusalInv
    <1>10. CASE UNCHANGED vars
      <2>1. UNCHANGED <<pc, call, drv>>
        BY <1>10 DEF vars, request
      <2> QED BY <2>1, SameCuts DEF RefusalInv, NeverRefused
    <1> QED BY <1>1, <1>2, <1>3, <1>4, <1>5, <1>6, <1>7, <1>8, <1>9, <1>10 DEF Next, Step

\* Arguments that flash_area_read, _write and _erase have let through are refused by
\* no later check: not by the driver, not by flash_area_write's own.
THEOREM NothingIsRefused == SectorsOfUnits => (Spec => []NeverRefused)
    <1>1. Init => IInv /\ RefusalInv
      BY InitEstablishes DEF Init, RefusalInv, NeverRefused, Idle
    <1>2. ASSUME SectorsOfUnits PROVE IInv /\ RefusalInv /\ [Next]_vars => IInv' /\ RefusalInv'
      BY <1>2, StepPreserves, RefusalStep
    <1>3. RefusalInv => NeverRefused
      BY DEF RefusalInv
    <1>4. ASSUME SectorsOfUnits PROVE Spec => []NeverRefused
      BY <1>1, <1>2, <1>3, <1>4, PTL DEF Spec
    <1> QED BY <1>4
=============================================================================
