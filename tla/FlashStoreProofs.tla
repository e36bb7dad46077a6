-------------------------- MODULE FlashStoreProofs --------------------------
(***************************************************************************)
(* The calls of FlashMap implement FlashStore, for every device geometry,  *)
(* set of areas and number of calls, as long as writes begin on a whole    *)
(* unit (one that does not stores the wrong bytes): every byte of a call   *)
(* that returns 0 is as it was asked to be.                                *)
(***************************************************************************)
EXTENDS FlashMapProofs

WholeUnitStarts == \A off \in WriteOffs : off % FLASH_PROGRAM_UNIT = 0

\* ProgramData has what it was given, and does not run past its end.
JobInv ==
    pc \in Busy /\ drv.op = "program" =>
        /\ drv.addr = Job.addr /\ drv.sz = Job.len /\ drv.data = Job.data
        /\ drv.dst <= drv.sz /\ drv.addr % ProgramUnit = 0

\* The address a write has got to.
Frontier ==
    Job.addr + (IF drv.op = "program" THEN drv.dst ELSE IF drv.op = "done" THEN Job.len ELSE 0)

\* As long as nothing has failed, a write is done below its frontier and has touched
\* nothing above.
WriteInv ==
    /\ pc = "write" => \A a \in Target : flash[a] = pre[a]
    /\ pc \in Busy /\ (drv.op = "done" => drv.ret >= 0) =>
           \A a \in Target : flash[a] = IF a < Frontier THEN Wanted(a) ELSE pre[a]

\* The address an erase has got to, and the same of it.
ErasedTo == base + call.off + deleted + (IF drv.op = "done" THEN SectorSize ELSE 0)

EraseInv ==
    pc = "erase" /\ (drv.op = "done" => drv.ret = OK) =>
        \A a \in Target : flash[a] = IF a < ErasedTo THEN Erased ELSE pre[a]

StoreInv ==
    /\ call.op = "write" => AddPadding = 0
    /\ JobInv /\ WriteInv /\ EraseInv
    /\ Complete /\ InOrder /\ OnlySourceBits

-----------------------------------------------------------------------------
(* The arithmetic of a write that begins on a whole unit.                  *)

\* The addresses of a call's target are numbers from its offset on.
LEMMA TargetBounds ==
    ASSUME TypeOK
    PROVE  \A a \in Target : a \in Addr /\ a \in Nat /\ MemoryBase <= a /\ base + call.off <= a
    BY DriverAssumption DEF Target, Addr

\* Units behind a frontier that lies on a unit's start: whoever is in a lower unit
\* than one below the next unit's start is below the frontier.
LEMMA LowerChunk ==
    ASSUME NEW u \in Nat \ {0}, NEW m \in Nat, NEW f \in Nat, m <= f, m % u = 0, f % u = 0,
           NEW a \in Nat, NEW b \in Nat, m <= a, m <= b,
           (a - m) \div u < (b - m) \div u, b < f + u
    PROVE  a < f
    <1> SUFFICES ASSUME f <= a PROVE FALSE
      OBVIOUS
    <1>1. (f - m) % u = 0
      BY AlignedDifference
    <1> DEFINE q == (f - m) \div u
               x == (a - m) \div u
               y == (b - m) \div u
    <1>2. f - m = u * q /\ q \in Nat
      BY <1>1, DivModFacts
    <1>3. x \in Nat /\ a - m < u * x + u /\ x < y
      <2> DEFINE d == a - m
      <2>1. d \in Nat
        OBVIOUS
      <2> HIDE DEF d
      <2>2. d \div u \in Nat /\ d % u \in 0 .. (u - 1) /\ d = u * (d \div u) + (d % u)
        BY <2>1, DivModFacts
      <2>3. u * (d \div u) \in Int
        BY <2>2
      <2>4. d < u * (d \div u) + u
        BY <2>1, <2>2, <2>3
      <2> QED BY <2>2, <2>4 DEF d
    <1>4. y \in Nat /\ u * y <= b - m
      BY DivModFacts
    <1> HIDE DEF q, x, y
    <1>5. u * y < u * (q + 1) /\ u * q < u * (x + 1)
      BY <1>2, <1>3, <1>4
    <1>6. y < q + 1
      <2> SUFFICES ASSUME q + 1 <= y PROVE FALSE
        BY <1>2, <1>4
      <2>1. u * (q + 1) <= u * y
        BY <1>2, <1>4
      <2> QED BY <1>2, <1>4, <1>5, <2>1
    <1>7. q < x + 1
      <2> SUFFICES ASSUME x + 1 <= q PROVE FALSE
        BY <1>2, <1>3
      <2>1. u * (x + 1) <= u * q
        BY <1>2, <1>3
      <2> QED BY <1>2, <1>3, <1>5, <2>1
    <1> QED BY <1>2, <1>3, <1>4, <1>6, <1>7

\* There is no first unit, and the last unit begins where the whole units end; when
\* there is none either, the whole units are all.
LEMMA CutsOfWhole ==
    ASSUME TypeOK, AddPadding = 0
    PROVE  /\ FirstLen = 0 /\ LastStart = WriteSize
           /\ WriteSize \in 0 .. call.len
           /\ LastLen = call.len - WriteSize /\ LastLen < FLASH_PROGRAM_UNIT
           /\ FLASH_PROGRAM_UNIT \in Nat
           /\ AfterWhole = "return" => WriteSize = call.len
           /\ AfterWhole \in {"last", "return"}
           /\ AfterPadding = IF WriteSize > 0 THEN "whole" ELSE AfterWhole
    <1>1. call.off \in Nat /\ call.len \in Nat /\ FLASH_PROGRAM_UNIT \in Nat \ {0}
      BY CallFacts, AreaAssumption
    <1>2. /\ FirstLen = 0 /\ LastStart = WriteSize /\ WriteSize \in 0 .. call.len
          /\ LastLen = call.len - WriteSize /\ LastLen < FLASH_PROGRAM_UNIT
      <2>1. /\ FirstLen = 0 /\ WriteSize \in Nat /\ LastStart = FirstLen + WriteSize
            /\ LastStart \in 0 .. call.len
            /\ LastLen = call.len - LastStart /\ LastLen \in 0 .. (FLASH_PROGRAM_UNIT - 1)
        BY <1>1, CutFacts
      <2> QED BY <1>1, <2>1
    <1>3. AfterWhole = "return" => WriteSize = call.len
      <2> SUFFICES ASSUME AfterWhole = "return" PROVE WriteSize = call.len
        OBVIOUS
      <2>1. call.len = 0 \/ LenPadding = 0
        BY <1>1, <1>2, PaddingFacts DEF AfterWhole
      <2>2. CASE LenPadding = 0
        <3>1. call.len % FLASH_PROGRAM_UNIT = 0
          BY <1>1, <2>2, PaddingFacts
        <3>2. WriteSize = Floor(call.len, FLASH_PROGRAM_UNIT)
          BY <1>1, <1>2 DEF WriteSize
        <3> QED BY <1>1, <3>1, <3>2 DEF Floor
      <2> QED BY <1>2, <2>1, <2>2
    <1>4. AfterPadding = IF WriteSize > 0 THEN "whole" ELSE AfterWhole
      BY DEF AfterPadding, AfterFirst
    <1> QED BY <1>1, <1>2, <1>3, <1>4 DEF AfterWhole

\* The two parts of such a write.
LEMMA JobOfWhole ==
    ASSUME IInv, pc \in Busy, AddPadding = 0
    PROVE  \/ pc = "whole" /\ Job.addr = base + call.off /\ Job.len = WriteSize
              /\ Job.data = SubSeq(call.src, 1, WriteSize)
           \/ pc = "last" /\ Job.addr = base + call.off + WriteSize
              /\ Job.len = FLASH_PROGRAM_UNIT
              /\ Job.data = SubSeq(call.src, WriteSize + 1, WriteSize + LastLen) \o padding.len
    <1>1. pc \in {"whole", "last"}
      BY DEF IInv, PaddingInv, Busy
    <1>2. FirstLen = 0 /\ LastStart = WriteSize /\ base + call.off \in Nat
      BY CutsOfWhole, CallFacts DEF IInv
    <1>3. CASE pc = "whole"
      BY <1>2, <1>3 DEF Job, WholeUnits
    <1>4. CASE pc = "last"
      BY <1>2, <1>4 DEF Job, LastUnit
    <1> QED BY <1>1, <1>3, <1>4

\* Byte by byte, a stretch of a buffer is the buffer's.
LEMMA PartBytes ==
    ASSUME NEW s \in Seq(Byte), NEW m \in Nat, NEW n \in Nat, m + n <= Len(s), NEW i \in 1 .. n
    PROVE  SubSeq(s, m + 1, m + n)[i] = s[m + i]
    <1>1. Len(s) \in Nat /\ \A j \in (m + 1) .. (m + n) : s[j] \in Byte
      OBVIOUS
    <1>2. SubSeq(s, m + 1, m + n)[i] = s[(m + 1) + i - 1]
      BY <1>1, SubSeqProperties
    <1> QED BY <1>2

\* ProgramData gets, for every byte of the target in its range, the byte of the
\* caller's buffer that belongs there.
LEMMA JobBytes ==
    ASSUME IInv, pc \in Busy, AddPadding = 0,
           NEW a \in Target, Job.addr <= a, a < Job.addr + Job.len
    PROVE  Job.data[a - Job.addr + 1] = call.src[a - (base + call.off) + 1]
    <1>1. /\ base + call.off \in Nat /\ call.len \in Nat /\ a \in Nat
          /\ base + call.off <= a /\ a < base + call.off + call.len
      <2>1. call.op = "write" /\ IsRangeValid(call.area, call.off, call.len)
        BY DEF IInv, CallInv, Busy
      <2> QED BY <2>1, WriteTarget, TargetBounds, CallFacts DEF IInv
    <1>2. WriteSize \in 0 .. call.len /\ LastLen = call.len - WriteSize
      BY CutsOfWhole DEF IInv
    <1>3. call.src \in Seq(Byte)
      BY DEF IInv, TypeOK, Buffer
    <1>4. call.len <= Len(call.src) /\ Len(call.src) \in Nat
      <2>1. Len(call.src) >= FlashSize /\ call.off + call.len <= fa_size[call.area]
        BY DEF IInv, CallInv, Busy, IsRangeValid
      <2>2. /\ fa_off[call.area] \in Nat /\ fa_size[call.area] \in Nat /\ MemoryBase \in Nat
            /\ FlashSize \in Nat /\ MemoryBase <= fa_off[call.area] /\ call.off \in Nat
            /\ fa_off[call.area] + fa_size[call.area] <= MemoryBase + FlashSize
        BY CallFacts, AreaAssumption, DriverAssumption DEF FlashSize, IInv
      <2>3. Len(call.src) \in Nat
        BY <1>3
      <2>4. fa_size[call.area] <= FlashSize
        BY <2>2
      <2> QED BY <1>1, <2>1, <2>2, <2>3, <2>4
    <1> DEFINE n == a - (base + call.off)
    <1>5. n \in 0 .. (call.len - 1) /\ a = base + call.off + n
      BY <1>1
    <1>6. CASE pc = "whole"
      <2>1. Job.addr = base + call.off /\ Job.len = WriteSize /\ Job.data = SubSeq(call.src, 1, WriteSize)
        BY <1>6, JobOfWhole
      <2>2. n + 1 \in 1 .. WriteSize
        BY <1>1, <1>2, <2>1
      <2>3. SubSeq(call.src, 1, WriteSize)[n + 1] = call.src[n + 1]
        BY <1>2, <1>3, <1>4, <2>2
      <2> QED BY <2>1, <2>3
    <1>7. CASE pc = "last"
      <2> DEFINE s == SubSeq(call.src, WriteSize + 1, WriteSize + LastLen)
      <2>1. Job.addr = base + call.off + WriteSize /\ Job.data = s \o padding.len
        BY <1>7, JobOfWhole
      <2>2. a - Job.addr + 1 = n + 1 - WriteSize /\ n + 1 - WriteSize \in 1 .. LastLen
        <3>1. Job.addr = base + call.off + WriteSize /\ Job.addr <= a
          BY <2>1
        <3> HIDE DEF n, s
        <3> QED BY <1>1, <1>2, <1>5, <3>1
      <2>3. s \in Seq(Byte) /\ Len(s) = LastLen
        <3>1. WriteSize \in Nat /\ LastLen \in Nat /\ WriteSize + LastLen <= Len(call.src)
          BY <1>1, <1>2, <1>4
        <3>2. call.src \in Buffer
          BY <1>3 DEF Buffer
        <3>3. s \in Buffer /\ Len(s) = LastLen
          BY <3>1, <3>2, PartOfBuffer
        <3> QED BY <3>3 DEF Buffer
      <2>4. s[n + 1 - WriteSize] = call.src[n + 1]
        <3>1. WriteSize \in Nat /\ LastLen \in Nat /\ WriteSize + LastLen <= Len(call.src)
          BY <1>1, <1>2, <1>4
        <3> DEFINE i == n + 1 - WriteSize
        <3>2. WriteSize + i = n + 1
          BY <1>5, <3>1
        <3> HIDE DEF n
        <3>3. i \in 1 .. LastLen
          BY <2>2
        <3> HIDE DEF i
        <3>4. SubSeq(call.src, WriteSize + 1, WriteSize + LastLen)[i] = call.src[WriteSize + i]
          BY <1>3, <3>1, <3>3, PartBytes
        <3> QED BY <3>2, <3>4 DEF i
      <2>5. padding.len \in Seq(Byte)
        BY DEF IInv, TypeOK, Buffer
      <2> HIDE DEF s
      <2>6. (s \o padding.len)[n + 1 - WriteSize] = s[n + 1 - WriteSize]
        BY <1>2, <2>2, <2>3, <2>5
      <2> QED BY <2>1, <2>2, <2>4, <2>6
    <1>8. pc \in {"whole", "last"}
      BY JobOfWhole
    <1> QED BY <1>6, <1>7, <1>8

-----------------------------------------------------------------------------
(* Every action preserves it.                                              *)

\* What a call is to leave behind stays as long as its arguments do.
LEMMA SameStore ==
    ASSUME UNCHANGED <<call, pre>>
    PROVE  /\ base' = base /\ Target' = Target /\ AddPadding' = AddPadding
           /\ \A a : Wanted(a)' = Wanted(a)
           /\ \A a : Chunk(a)' = Chunk(a)
    BY DEF base, Target, IsRangeValid, AddPadding, Wanted, Chunk

\* The part of a write being programmed is the same as long as the call is there.
LEMMA SameJob ==
    ASSUME UNCHANGED <<pc, call, padding>>
    PROVE  Job' = Job
    BY DEF Job, FirstUnit, WholeUnits, LastUnit, AddPadding, AlignedOff, AlignedLen, LenPadding,
           FirstLen, WriteSize, LastStart, LastLen, base

\* A step that moves no byte and leaves the request alone keeps what is said of
\* the bytes and the request only.
LEMMA SameBytes ==
    ASSUME StoreInv, UNCHANGED <<flash, call, pre>>
    PROVE  InOrder' /\ OnlySourceBits' /\ (call'.op = "write" => AddPadding' = 0)
    <1>1. /\ base' = base /\ Target' = Target /\ AddPadding' = AddPadding
          /\ \A a : Wanted(a)' = Wanted(a)
          /\ \A a : Chunk(a)' = Chunk(a)
      BY SameStore
    <1>2. InOrder' /\ OnlySourceBits'
      BY <1>1 DEF StoreInv, InOrder, OnlySourceBits
    <1> QED BY <1>1, <1>2 DEF StoreInv

\* A step that moves no byte and ends the call, without success, keeps it.
LEMMA FailureKeeps ==
    ASSUME StoreInv, UNCHANGED <<flash, call, pre>>,
           pc' \in {"idle", "off"} \/ (pc' = "return" /\ rc' # OK)
    PROVE  StoreInv'
    BY SameBytes DEF StoreInv, JobInv, WriteInv, EraseInv, Complete, Busy

\* A call begins with nothing done.
LEMMA CallKeeps ==
    ASSUME IInv', WholeUnitStarts, NEW op \in {"read", "write", "erase"}, NEW area \in Areas,
           NEW off, op = "write" => off \in WriteOffs, NEW len, NEW src,
           drv.op = "idle", Call(op, area, off, len, src)
    PROVE  StoreInv'
    <1>1. /\ call' = [op |-> op, area |-> area, off |-> off, len |-> len, src |-> src]
          /\ pre' = flash /\ flash' = flash /\ drv' = drv /\ deleted' = 0
          /\ (pc' = op \/ (pc' = "return" /\ rc' = -1))
      BY DEF Call, Return, drvVars
    <1>2. call'.op = "write" => AddPadding' = 0
      BY <1>1 DEF WholeUnitStarts, AddPadding
    <1>3. JobInv' /\ WriteInv' /\ Complete' /\ InOrder'
      BY <1>1 DEF JobInv, WriteInv, Complete, InOrder, Busy, OK
    <1>4. EraseInv'
      <2>1. ErasedTo' = base' + call'.off /\ base' + call'.off \in Nat
        <3>1. call'.off \in Nat /\ call'.area \in Areas /\ WordMod \in Nat
          BY DriverAssumption DEF IInv, TypeOK, Word
        <3>2. base' \in Nat
          BY <3>1, AreaInDevice DEF base
        <3> QED BY <1>1, <3>1, <3>2 DEF ErasedTo
      <2>2. \A a \in Target' : base' + call'.off <= a /\ a \in Nat
        BY DriverAssumption DEF Target, Addr
      <2> QED BY <1>1, <2>1, <2>2 DEF EraseInv
    <1>5. OnlySourceBits'
      BY <1>1 DEF OnlySourceBits, Wanted
    <1> QED BY <1>2, <1>3, <1>4, <1>5 DEF StoreInv

\* A read has nothing to leave on the device.
LEMMA ReadKeeps ==
    ASSUME IInv, StoreInv, ReadSucceeds \/ ReadFails
    PROVE  StoreInv'
    <1>1. pc' = "return" /\ call'.op = "read" /\ UNCHANGED <<flash, call, pre>>
      BY DEF ReadSucceeds, ReadFails, Return, drvVars, request, IInv, CallInv
    <1> QED BY <1>1, SameBytes DEF StoreInv, JobInv, WriteInv, EraseInv, Complete, Busy

\* Where the part of a write begins that the step goes on to.
LEMMA NextJob ==
    ASSUME TypeOK, AddPadding = 0, UNCHANGED call
    PROVE  /\ pc' = "whole" => Job'.addr = base + call.off
           /\ pc' = "last" => Job'.addr = base + call.off + WriteSize
    <1>1. FirstLen = 0 /\ LastStart = WriteSize /\ base + call.off \in Nat
      BY CutsOfWhole, CallFacts
    <1>2. FirstLen' = FirstLen /\ LastStart' = LastStart /\ base' = base
      BY DEF FirstLen, LastStart, WriteSize, AddPadding, base
    <1>3. CASE pc' = "whole"
      <2>1. Job'.addr = base' + call'.off + FirstLen'
        BY <1>3 DEF Job, WholeUnits
      <2> QED BY <1>1, <1>2, <1>3, <2>1
    <1>4. CASE pc' = "last"
      <2>1. Job'.addr = base' + call'.off + LastStart'
        BY <1>4 DEF Job, LastUnit
      <2> QED BY <1>1, <1>2, <1>4, <2>1
    <1> QED BY <1>3, <1>4

\* A write goes on to its first part with nothing programmed yet, or it is empty.
LEMMA PaddingKeeps ==
    ASSUME IInv, StoreInv, ReadPadding
    PROVE  StoreInv'
    <1>1. /\ pc = "write" /\ pc' = AfterPadding
          /\ UNCHANGED <<flash, drv, deleted, rc, dst, call, pre>>
      BY DEF ReadPadding, drvVars, request
    <1>2. /\ drv.op = "idle" /\ call.op = "write" /\ AddPadding = 0
          /\ IsRangeValid(call.area, call.off, call.len)
      BY <1>1, NoDriverCall DEF IInv, CallInv, Busy, StoreInv
    <1>3. /\ WriteSize \in 0 .. call.len
          /\ AfterWhole = "return" => WriteSize = call.len
          /\ AfterWhole \in {"last", "return"}
          /\ AfterPadding = IF WriteSize > 0 THEN "whole" ELSE AfterWhole
      BY <1>2, CutsOfWhole DEF IInv
    <1>4. \A a \in Target : flash[a] = pre[a] /\ a \in Nat /\ base + call.off <= a
      BY <1>1, TargetBounds DEF StoreInv, WriteInv, IInv
    <1>5. base + call.off \in Nat /\ call.len \in Nat
      BY CallFacts DEF IInv
    <1>6. Target' = Target /\ base' = base
      BY <1>1, SameStore
    <1>7. WriteInv'
      <2> SUFFICES ASSUME pc' \in {"whole", "last"}
                   PROVE  \A a \in Target : flash[a] = pre[a] /\ ~(a < Frontier')
        BY <1>1, <1>3, <1>6 DEF WriteInv, Busy
      <2>1. Job'.addr = base + call.off
        BY <1>1, <1>2, <1>3, <1>5, NextJob DEF IInv
      <2>2. Frontier' = base + call.off
        BY <1>1, <1>2, <1>5, <2>1 DEF Frontier
      <2> QED BY <1>4, <1>5, <2>2
    <1>8. Complete'
      <2> SUFFICES ASSUME pc' = "return" PROVE Target = {}
        BY <1>6 DEF Complete
      <2>1. call.len = 0
        BY <1>1, <1>3, <1>5
      <2> QED BY <1>2, <1>4, <1>5, <2>1, WriteTarget
    <1>9. JobInv' /\ EraseInv'
      BY <1>1, <1>2, <1>3 DEF JobInv, EraseInv
    <1> QED BY <1>1, <1>7, <1>8, <1>9, SameBytes DEF StoreInv

\* ProgramData starts at the frontier.
LEMMA ProgramKeeps ==
    ASSUME IInv, StoreInv, Program
    PROVE  StoreInv'
    <1>1. /\ pc \in Busy /\ drv = Idle /\ UNCHANGED <<flash, padding, deleted, call, pre>>
      BY DEF Program, Busy, request
    <1>2. JobOK
      BY <1>1, JobFacts
    <1>3. UNCHANGED <<pc, rc>> /\ ProgramData(Job.addr, Job.data, Job.len \div DataWidth)
      BY <1>2 DEF Program, JobOK
    <1>4. (Job.len \div DataWidth) * DataWidth = Job.len
      <2>1. /\ FLASH_PROGRAM_UNIT \in Nat \ {0} /\ DataWidth \in Nat \ {0}
            /\ FLASH_PROGRAM_UNIT % DataWidth = 0
        BY AreaAssumption, DriverAssumption
      <2> QED BY <1>2, <2>1, AlignedItems DEF JobOK
    <1>5. \/ /\ drv'.op = "program" /\ drv'.addr = Job.addr /\ drv'.sz = Job.len
             /\ drv'.data = Job.data /\ drv'.dst = 0 /\ Job.addr % ProgramUnit = 0
          \/ drv'.op = "done" /\ drv'.ret = ERROR_PARAMETER
      BY <1>3, <1>4 DEF ProgramData, Done, IsWriteAligned
    <1>6. Job' = Job
      BY <1>1, <1>3, SameJob
    <1>7. JobInv'
      BY <1>2, <1>5, <1>6 DEF JobInv, JobOK
    <1>8. WriteInv'
      <2>1. pc' \in Busy /\ pc' # "write"
        BY <1>1, <1>3 DEF Busy
      <2>2. Frontier = Job.addr
        BY <1>1, <1>2 DEF Frontier, Idle, JobOK
      <2>3. drv'.op = "program" => Frontier' = Job.addr
        BY <1>2, <1>5, <1>6 DEF Frontier, JobOK
      <2>4. \A a \in Target : flash[a] = IF a < Job.addr THEN Wanted(a) ELSE pre[a]
        BY <1>1, <2>2 DEF StoreInv, WriteInv, Idle
      <2>5. Target' = Target /\ \A a : Wanted(a)' = Wanted(a)
        BY <1>1, SameStore
      <2>6. CASE drv'.op = "program"
        BY <1>1, <2>1, <2>3, <2>4, <2>5, <2>6 DEF WriteInv
      <2>7. CASE drv'.op = "done" /\ drv'.ret = ERROR_PARAMETER
        BY <2>1, <2>7 DEF WriteInv, ERROR_PARAMETER
      <2> QED BY <1>5, <2>6, <2>7
    <1>9. EraseInv' /\ Complete'
      BY <1>1, <1>3 DEF EraseInv, Complete, Busy
    <1> QED BY <1>1, <1>7, <1>8, <1>9, SameBytes DEF StoreInv

\* The next part of a write begins where the one before ended; after the last one
\* the whole target is behind the frontier.
LEMMA ProgrammedKeeps ==
    ASSUME IInv, StoreInv, Programmed
    PROVE  StoreInv'
    <1>1. /\ pc \in Busy /\ drv.op = "done" /\ drv' = Idle
          /\ UNCHANGED <<flash, padding, deleted, call, pre>>
      BY DEF Programmed, Busy, request
    <1>2. CASE drv.ret < 0
      <2>1. pc' = "return" /\ rc' = -1
        BY <1>2 DEF Programmed, Return
      <2> QED BY <1>1, <2>1, FailureKeeps DEF OK
    <1>3. CASE ~(drv.ret < 0)
      <2>1. pc' = AfterJob /\ drv.ret >= 0
        BY <1>3 DEF Programmed, IInv, TypeOK, DriverTypeOK
      <2>2. /\ call.op = "write" /\ AddPadding = 0
            /\ IsRangeValid(call.area, call.off, call.len)
        BY <1>1 DEF IInv, CallInv, StoreInv
      <2>3. /\ WriteSize \in 0 .. call.len /\ FLASH_PROGRAM_UNIT \in Nat
            /\ LastLen = call.len - WriteSize /\ LastLen < FLASH_PROGRAM_UNIT
            /\ AfterWhole = "return" => WriteSize = call.len
            /\ AfterWhole \in {"last", "return"}
        BY <2>2, CutsOfWhole DEF IInv
      <2>4. base + call.off \in Nat /\ call.len \in Nat
        BY CallFacts DEF IInv
      <2> DEFINE top == Job.addr + Job.len
      <2>t. top \in Nat
        BY <1>1, JobFacts DEF JobOK
      <2>5. \/ pc = "whole" /\ top = base + call.off + WriteSize
                /\ pc' = AfterWhole
            \/ pc = "last" /\ top > base + call.off + call.len /\ pc' = "return"
        <3>1. CASE pc = "whole"
          BY <1>1, <2>1, <2>2, <3>1, JobOfWhole DEF AfterJob
        <3>2. CASE pc = "last"
          <4>1. pc' = "return"
            BY <2>1, <3>2 DEF AfterJob
          <4>2. Job.addr = base + call.off + WriteSize /\ Job.len = FLASH_PROGRAM_UNIT
            BY <1>1, <2>2, <3>2, JobOfWhole
          <4> QED BY <2>3, <2>4, <3>2, <4>1, <4>2
        <3> QED BY <1>1, <2>2, <3>1, <3>2, JobOfWhole
      <2>6. \A a \in Target : /\ flash[a] = IF a < top THEN Wanted(a) ELSE pre[a]
                              /\ a \in Nat /\ a < base + call.off + call.len
        <3>1. Frontier = top
          BY <1>1 DEF Frontier
        <3>2. \A a \in Target : a \in Nat /\ a < base + call.off + call.len
          BY <2>2, WriteTarget, TargetBounds DEF IInv
        <3> HIDE DEF top
        <3>3. \A a \in Target : flash[a] = IF a < Frontier THEN Wanted(a) ELSE pre[a]
          BY <1>1, <2>1 DEF StoreInv, WriteInv
        <3> QED BY <3>1, <3>2, <3>3
      <2> HIDE DEF top
      <2>7. Target' = Target /\ \A a : Wanted(a)' = Wanted(a)
        BY <1>1, SameStore
      <2>8. Complete'
        <3> SUFFICES ASSUME pc' = "return", NEW a \in Target PROVE flash[a] = Wanted(a)
          BY <1>1, <2>7 DEF Complete
        <3>1. a < top
          BY <2>3, <2>4, <2>5, <2>6, <2>t
        <3> QED BY <2>6, <3>1
      <2>9. WriteInv'
        <3>1. pc' = "last" \/ pc' = "return"
          BY <2>3, <2>5
        <3> SUFFICES ASSUME pc' = "last"
                     PROVE  \A a \in Target : flash[a] = IF a < Frontier' THEN Wanted(a) ELSE pre[a]
          BY <1>1, <2>7, <3>1 DEF WriteInv, Busy
        <3>2. Frontier' = Job'.addr + 0
          BY <1>1 DEF Frontier, Idle
        <3>3. Job'.addr = base + call.off + WriteSize
          BY <1>1, <2>2, NextJob DEF IInv
        <3>4. Frontier' = top
          BY <2>3, <2>4, <2>5, <2>t, <3>2, <3>3
        <3> QED BY <2>6, <3>4
      <2>10. JobInv' /\ EraseInv'
        <3>1. pc' = "last" \/ pc' = "return"
          BY <2>3, <2>5
        <3> QED BY <1>1, <3>1 DEF JobInv, EraseInv, Idle
      <2> QED BY <1>1, <2>8, <2>9, <2>10, SameBytes DEF StoreInv
    <1> QED BY <1>2, <1>3

\* EraseSector starts at the sector the erase has got to.
LEMMA EraseKeeps ==
    ASSUME IInv, StoreInv, Erase
    PROVE  StoreInv'
    <1>1. /\ pc = "erase" /\ drv = Idle /\ UNCHANGED <<flash, pc, deleted, rc, call, pre>>
          /\ EraseSector(base + call.off + deleted)
      BY DEF Erase, local, request
    <1>2. drv'.op = "erase" \/ (drv'.op = "done" /\ drv'.ret = ERROR_PARAMETER)
      BY <1>1 DEF EraseSector, Done
    <1>3. Target' = Target /\ base' = base
      BY <1>1, SameStore
    <1>4. drv'.op = "erase" => ErasedTo' = ErasedTo
      BY <1>1, <1>3 DEF ErasedTo, Idle
    <1>5. EraseInv'
      <2>1. \A a \in Target : flash[a] = IF a < ErasedTo THEN Erased ELSE pre[a]
        BY <1>1 DEF StoreInv, EraseInv, Idle
      <2>2. CASE drv'.op = "erase"
        BY <1>1, <1>3, <1>4, <2>1, <2>2 DEF EraseInv
      <2>3. CASE drv'.op = "done" /\ drv'.ret = ERROR_PARAMETER
        BY <2>3 DEF EraseInv, OK, ERROR_PARAMETER
      <2> QED BY <1>2, <2>2, <2>3
    <1>6. JobInv' /\ WriteInv' /\ Complete'
      BY <1>1 DEF JobInv, WriteInv, Complete, Busy
    <1> QED BY <1>1, <1>5, <1>6, SameBytes DEF StoreInv

\* The next sector begins where the erased one ended.
LEMMA SectorErasedKeeps ==
    ASSUME IInv, StoreInv, SectorErased
    PROVE  StoreInv'
    <1>1. /\ pc = "erase" /\ drv.op = "done" /\ drv' = Idle /\ UNCHANGED <<flash, call, pre>>
      BY DEF SectorErased, request
    <1>2. CASE drv.ret # 0
      <2>1. pc' = "return" /\ rc' # OK
        BY <1>2 DEF SectorErased, Return, OK
      <2> QED BY <1>1, <2>1, FailureKeeps
    <1>3. CASE drv.ret = 0
      <2>1. deleted' = deleted + SectorSize /\ UNCHANGED <<pc, rc>>
        BY <1>3 DEF SectorErased
      <2>2. Target' = Target /\ base' = base
        BY <1>1, SameStore
      <2>3. ErasedTo' = ErasedTo
        <3>1. base + call.off \in Nat /\ deleted \in Nat /\ SectorSize \in Nat
          BY CallFacts, DriverAssumption DEF IInv, TypeOK
        <3> QED BY <1>1, <2>1, <2>2, <3>1 DEF ErasedTo, Idle
      <2>4. EraseInv'
        BY <1>1, <1>3, <2>1, <2>2, <2>3 DEF StoreInv, EraseInv, OK, Idle
      <2>5. JobInv' /\ WriteInv' /\ Complete'
        BY <1>1, <2>1 DEF JobInv, WriteInv, Complete, Busy
      <2> QED BY <1>1, <2>4, <2>5, SameBytes DEF StoreInv
    <1> QED BY <1>2, <1>3

\* When deleted_len has reached len, every sector the call names is erased.
LEMMA EraseEndsKeeps ==
    ASSUME IInv, StoreInv, EraseEnds
    PROVE  StoreInv'
    <1>1. /\ pc = "erase" /\ drv = Idle /\ deleted >= call.len /\ pc' = "return"
          /\ UNCHANGED <<flash, call, pre>>
      BY DEF EraseEnds, Return, drvVars, request
    <1>2. /\ call.off \in Nat /\ call.len \in Nat /\ base \in Nat
          /\ deleted \in Nat /\ deleted % SectorSize = 0 /\ SectorSize \in Nat \ {0}
      BY CallFacts, DriverAssumption DEF IInv, TypeOK
    <1>3. call.op = "erase"
      BY <1>1 DEF IInv, CallInv
    <1>4. \A a \in Target : flash[a] = Erased
      <2> SUFFICES ASSUME NEW a \in Target PROVE a < ErasedTo
        BY <1>1 DEF StoreInv, EraseInv, Idle
      <2> DEFINE c == Ceiling(call.len, SectorSize)
      <2>1. c \in Nat /\ c % SectorSize = 0 /\ c < call.len + SectorSize
        BY <1>2, CeilingFacts
      <2>2. a \in Nat /\ a < base + call.off + c
        <3>1. /\ a < base + call.off + (IF IsSectorAligned(call.off) THEN c ELSE 0)
              /\ a \in Nat /\ base + call.off <= a
          BY <1>3, TargetBounds DEF Target, IInv
        <3> QED BY <1>2, <3>1
      <2> HIDE DEF c
      <2>3. c <= deleted
        <3>1. deleted < c => deleted + SectorSize <= c
          BY <1>2, <2>1, AlignedStep
        <3> QED BY <1>1, <1>2, <2>1, <3>1
      <2>4. ErasedTo = base + call.off + deleted
        BY <1>1, <1>2 DEF ErasedTo, Idle
      <2> QED BY <1>2, <2>1, <2>2, <2>3, <2>4
    <1>5. Complete'
      <2>1. Target' = Target /\ \A a : Wanted(a)' = Wanted(a)
        BY <1>1, SameStore
      <2> QED BY <1>1, <1>3, <1>4, <2>1 DEF Complete, Wanted
    <1>6. JobInv' /\ WriteInv' /\ EraseInv'
      BY <1>1 DEF JobInv, WriteInv, EraseInv, Busy
    <1> QED BY <1>1, <1>5, <1>6, SameBytes DEF StoreInv

-----------------------------------------------------------------------------
(* The driver's commands, whole and torn.                                  *)

\* The unit being programmed lies at the frontier of the write, and gets the bytes
\* that belong there.
LEMMA ProgrammingFacts ==
    ASSUME IInv, StoreInv, Programming
    PROVE  /\ pc \in Busy /\ call.op = "write" /\ Frontier = drv.addr + drv.dst
           /\ ProgramUnit \in Nat \ {0} /\ drv.dst + ProgramUnit <= drv.sz
           /\ Frontier \in Nat /\ MemoryBase <= Frontier
           /\ Frontier % ProgramUnit = 0 /\ MemoryBase % ProgramUnit = 0
           /\ \A a \in Target : flash[a] = IF a < Frontier THEN Wanted(a) ELSE pre[a]
           /\ UnitAddr = {a \in Addr : Frontier <= a /\ a < Frontier + ProgramUnit}
           /\ \A a \in Target \cap UnitAddr : Wanted(a) = pre[a] \cup UnitByte(a)
    <1>1. /\ drv.op = "program" /\ drv.dst < drv.sz /\ pc \in Busy /\ call.op = "write"
          /\ drv.sz % ProgramUnit = 0 /\ drv.dst % ProgramUnit = 0
          /\ drv.addr \in Nat /\ drv.sz \in Nat /\ drv.dst \in Nat
      BY DEF Programming, IInv, TypeOK, DriverTypeOK, DriverInv, CallInv
    <1>2. /\ drv.addr = Job.addr /\ drv.sz = Job.len /\ drv.data = Job.data
          /\ drv.addr % ProgramUnit = 0 /\ AddPadding = 0
      BY <1>1 DEF StoreInv, JobInv
    <1>3. ProgramUnit \in Nat \ {0} /\ MemoryBase \in Nat /\ MemoryBase % ProgramUnit = 0
      BY DriverAssumption
    <1>4. drv.dst + ProgramUnit <= drv.sz
      BY <1>1, <1>3, AlignedStep
    <1>5. Frontier = drv.addr + drv.dst
      BY <1>1, <1>2 DEF Frontier
    <1>6. (drv.addr + drv.dst) % ProgramUnit = 0
      BY <1>1, <1>2, <1>3, AlignedSum
    <1>7. base \in Nat /\ MemoryBase <= base /\ call.off \in Nat
      BY CallFacts, AreaAssumption DEF IInv, base
    <1>8. MemoryBase <= drv.addr
      <2>1. WriteSize \in Nat
        BY <1>2, CutsOfWhole, CallFacts DEF IInv
      <2>2. Job.addr = base + call.off \/ Job.addr = base + call.off + WriteSize
        BY <1>1, <1>2, JobOfWhole
      <2> QED BY <1>2, <1>3, <1>7, <2>1, <2>2
    <1>9. \A a \in Target : flash[a] = IF a < Frontier THEN Wanted(a) ELSE pre[a]
      BY <1>1 DEF StoreInv, WriteInv
    <1>10. UnitAddr = {a \in Addr : Frontier <= a /\ a < Frontier + ProgramUnit}
      BY <1>5 DEF UnitAddr
    <1>11. ASSUME NEW a \in Target \cap UnitAddr PROVE Wanted(a) = pre[a] \cup UnitByte(a)
      <2>1. a \in Nat
        BY <1>11, TargetBounds DEF IInv
      <2>2. Job.addr <= a /\ a < Job.addr + Job.len
        <3>1. drv.addr <= a /\ a < drv.addr + drv.sz
          BY <1>1, <1>3, <1>4, <1>5, <1>10, <2>1
        <3> QED BY <1>2, <3>1
      <2>3. Job.data[a - Job.addr + 1] = call.src[a - (base + call.off) + 1]
        BY <1>1, <1>2, <2>2, JobBytes
      <2> QED BY <1>1, <1>2, <2>3 DEF Wanted, UnitByte
    <1> QED BY <1>1, <1>3, <1>4, <1>5, <1>6, <1>8, <1>9, <1>10, <1>11

\* However much of a unit is programmed, the write stays in order and adds bits of
\* its own source only.
LEMMA TornWrite ==
    ASSUME IInv, StoreInv, Programming, UNCHANGED <<call, pre>>,
           \A a \in Addr : /\ flash[a] \subseteq flash'[a]
                           /\ flash'[a] \subseteq flash[a] \cup (IF a \in UnitAddr THEN UnitByte(a) ELSE {})
    PROVE  InOrder' /\ OnlySourceBits'
    <1>1. /\ Target' = Target /\ \A a : Wanted(a)' = Wanted(a)
          /\ \A a : Chunk(a)' = Chunk(a)
      BY SameStore
    <1>2. \A a \in Target : a \in Addr /\ a \in Nat /\ MemoryBase <= a
      BY TargetBounds DEF IInv
    <1>3. ASSUME NEW a \in Target, a \notin UnitAddr PROVE flash'[a] = flash[a]
      BY <1>2, <1>3
    <1>4. InOrder'
      <2> SUFFICES ASSUME NEW a \in Target, NEW b \in Target,
                          Chunk(a) < Chunk(b), flash'[b] # pre[b]
                   PROVE  flash'[a] = Wanted(a)
        BY <1>1 DEF InOrder
      <2>1. b < Frontier + ProgramUnit
        <3>1. b < Frontier \/ b \in UnitAddr
          BY <1>3, ProgrammingFacts
        <3> QED BY <1>2, <3>1, ProgrammingFacts
      <2>2. Chunk(a) = (a - MemoryBase) \div ProgramUnit /\ Chunk(b) = (b - MemoryBase) \div ProgramUnit
        BY ProgrammingFacts DEF Chunk
      <2>3. /\ ProgramUnit \in Nat \ {0} /\ MemoryBase \in Nat /\ Frontier \in Nat
            /\ MemoryBase <= Frontier /\ MemoryBase % ProgramUnit = 0 /\ Frontier % ProgramUnit = 0
        BY ProgrammingFacts, DriverAssumption
      <2>4. a < Frontier
        BY <1>2, <2>1, <2>2, <2>3, LowerChunk
      <2>5. a \notin UnitAddr
        BY <1>2, <2>3, <2>4, ProgrammingFacts
      <2> QED BY <1>3, <2>4, <2>5, ProgrammingFacts
    <1>5. OnlySourceBits'
      <2> SUFFICES ASSUME NEW a \in Target
                   PROVE  pre[a] \subseteq flash'[a] /\ flash'[a] \subseteq Wanted(a)
        BY <1>1 DEF OnlySourceBits
      <2>1. pre[a] \subseteq flash[a] /\ flash[a] \subseteq Wanted(a)
        BY ProgrammingFacts DEF StoreInv, OnlySourceBits
      <2>2. a \in UnitAddr => UnitByte(a) \subseteq Wanted(a)
        BY ProgrammingFacts
      <2> QED BY <1>2, <2>1, <2>2
    <1> QED BY <1>4, <1>5

\* Whatever an erase leaves in its sector, it stays in order.
LEMMA TornSector ==
    ASSUME IInv, StoreInv, drv.op = "erase", UNCHANGED <<call, pre>>,
           \A a \in Addr : a \notin Sector(drv.addr) => flash'[a] = flash[a]
    PROVE  /\ InOrder' /\ OnlySourceBits' /\ ErasedTo = drv.addr
           /\ \A a \in Target : flash[a] = IF a < drv.addr THEN Erased ELSE pre[a]
    <1>1. /\ Target' = Target /\ \A a : Wanted(a)' = Wanted(a)
          /\ \A a : Chunk(a)' = Chunk(a)
      BY SameStore
    <1>2. \A a \in Target : a \in Addr /\ a \in Nat /\ MemoryBase <= a
      BY TargetBounds DEF IInv
    <1>3. /\ pc = "erase" /\ call.op = "erase" /\ drv.addr = base + call.off + deleted
          /\ drv.addr % SectorSize = 0 /\ deleted \in Nat
      BY DEF IInv, DriverInv, CallInv, IsSectorAligned, TypeOK
    <1>4. /\ base \in Nat /\ MemoryBase <= base /\ call.off \in Nat /\ MemoryBase \in Nat
          /\ SectorSize \in Nat \ {0} /\ MemoryBase % SectorSize = 0
      BY CallFacts, AreaAssumption, DriverAssumption DEF IInv, base
    <1>5. drv.addr \in Nat /\ MemoryBase <= drv.addr /\ ErasedTo = drv.addr
      BY <1>3, <1>4 DEF ErasedTo
    <1>6. \A a \in Target : flash[a] = IF a < drv.addr THEN Erased ELSE pre[a]
      BY <1>3, <1>5 DEF StoreInv, EraseInv
    <1>7. InOrder'
      <2> SUFFICES ASSUME NEW a \in Target, NEW b \in Target,
                          Chunk(a) < Chunk(b), flash'[b] # pre[b]
                   PROVE  flash'[a] = Wanted(a)
        BY <1>1 DEF InOrder
      <2>1. b < drv.addr + SectorSize
        <3>1. b \in Sector(drv.addr) => b < drv.addr + SectorSize
          BY DEF Sector
        <3>2. b < drv.addr \/ b \in Sector(drv.addr)
          BY <1>2, <1>6
        <3> QED BY <1>2, <1>4, <1>5, <3>1, <3>2
      <2>2. Chunk(a) = (a - MemoryBase) \div SectorSize /\ Chunk(b) = (b - MemoryBase) \div SectorSize
        BY <1>3 DEF Chunk
      <2>3. a < drv.addr
        BY <1>2, <1>3, <1>4, <1>5, <2>1, <2>2, LowerChunk
      <2>4. a \notin Sector(drv.addr)
        BY <1>2, <1>5, <2>3 DEF Sector
      <2> QED BY <1>2, <1>3, <1>6, <2>3, <2>4 DEF Wanted
    <1>8. OnlySourceBits'
      BY <1>3 DEF OnlySourceBits
    <1> QED BY <1>5, <1>6, <1>7, <1>8

\* A program command cut short adds bits of its unit's bytes only.
LEMMA TornBits ==
    ASSUME \E got \in SUBSET NewBits : flash' = WithBits(got)
    PROVE  \A a \in Addr : /\ flash[a] \subseteq flash'[a]
                           /\ flash'[a] \subseteq flash[a] \cup (IF a \in UnitAddr THEN UnitByte(a) ELSE {})
    <1> PICK got \in SUBSET NewBits : flash' = WithBits(got)
      OBVIOUS
    <1> SUFFICES ASSUME NEW a \in Addr
                 PROVE  /\ flash[a] \subseteq flash'[a]
                        /\ flash'[a] \subseteq flash[a] \cup (IF a \in UnitAddr THEN UnitByte(a) ELSE {})
      OBVIOUS
    <1>1. flash'[a] = flash[a] \cup {b \in Bits : <<a, b>> \in got}
      BY DEF WithBits
    <1>2. ASSUME NEW b \in Bits, <<a, b>> \in got PROVE a \in UnitAddr /\ b \in UnitByte(a)
      <2>1. <<a, b>> \in NewBits
        BY <1>2
      <2> QED BY <2>1 DEF NewBits
    <1> QED BY <1>1, <1>2

\* When power is lost only what is said of the bytes remains.
LEMMA OffKeeps ==
    ASSUME StoreInv, UNCHANGED <<call, pre>>, pc' = "off", InOrder', OnlySourceBits'
    PROVE  StoreInv'
    <1>1. AddPadding' = AddPadding
      BY SameStore
    <1> QED BY <1>1 DEF StoreInv, JobInv, WriteInv, EraseInv, Complete, Busy

\* Each NVMC command, good or failing, takes the call one unit or sector further.
LEMMA DriverKeeps ==
    ASSUME IInv, StoreInv, Driver
    PROVE  StoreInv'
    <1>1. UNCHANGED <<pc, padding, deleted, rc, call, pre>>
      BY DEF Driver, local, request
    <1>2. /\ Target' = Target /\ base' = base /\ AddPadding' = AddPadding
          /\ \A a : Wanted(a)' = Wanted(a)
      BY <1>1, SameStore
    <1>3. Job' = Job
      BY <1>1, SameJob
    <1>4. call'.op = "write" => AddPadding' = 0
      BY <1>1, <1>2 DEF StoreInv
    <1>5. drv.op \in {"program", "erase"} /\ pc \in Busy \cup {"erase"}
      BY DEF Driver, DriverStep, NvmcProgram, NvmcProgramFails, ProgramReturns, NvmcErase,
             NvmcEraseFails, Programming, IInv, DriverInv
    <1>6. Complete'
      BY <1>1, <1>5 DEF Complete, Busy
    <1>7. CASE NvmcProgram
      <2>1. /\ Programming /\ drv' = [drv EXCEPT !.dst = @ + ProgramUnit]
            /\ flash' = [a \in Addr |-> IF a \in UnitAddr THEN flash[a] \cup UnitByte(a)
                                                          ELSE flash[a]]
        BY <1>7 DEF NvmcProgram
      <2>2. /\ drv'.op = "program" /\ drv'.addr = drv.addr /\ drv'.sz = drv.sz
            /\ drv'.data = drv.data /\ drv'.dst = drv.dst + ProgramUnit
        BY <2>1 DEF Programming, IInv, TypeOK, DriverTypeOK
      <2>3. InOrder' /\ OnlySourceBits'
        <3>1. \A a \in Addr : flash'[a] = IF a \in UnitAddr THEN flash[a] \cup UnitByte(a)
                                                            ELSE flash[a]
          BY <2>1
        <3> QED BY <1>1, <2>1, <3>1, TornWrite
      <2>4. JobInv'
        <3>1. /\ drv.addr = Job.addr /\ drv.sz = Job.len /\ drv.data = Job.data
              /\ drv.addr % ProgramUnit = 0
          BY <2>1, ProgrammingFacts DEF Programming, StoreInv, JobInv
        <3>2. drv.dst + ProgramUnit <= drv.sz
          BY <2>1, ProgrammingFacts
        <3> QED BY <1>3, <2>2, <3>1, <3>2 DEF JobInv
      <2>5. Frontier' = Frontier + ProgramUnit
        <3>1. drv.addr = Job.addr /\ Frontier = drv.addr + drv.dst
          BY <2>1, ProgrammingFacts DEF Programming, StoreInv, JobInv
        <3>2. drv.addr \in Nat /\ drv.dst \in Nat /\ ProgramUnit \in Nat
          BY DriverAssumption DEF IInv, TypeOK, DriverTypeOK
        <3> QED BY <1>3, <2>2, <3>1, <3>2 DEF Frontier
      <2>6. \A a \in Target : flash'[a] = IF a < Frontier + ProgramUnit THEN Wanted(a) ELSE pre[a]
        <3> SUFFICES ASSUME NEW a \in Target
                     PROVE  flash'[a] = IF a < Frontier + ProgramUnit THEN Wanted(a) ELSE pre[a]
          OBVIOUS
        <3>1. a \in Addr /\ a \in Nat /\ Frontier \in Nat /\ ProgramUnit \in Nat
          BY <2>1, TargetBounds, ProgrammingFacts DEF IInv
        <3>2. flash[a] = IF a < Frontier THEN Wanted(a) ELSE pre[a]
          BY <2>1, ProgrammingFacts
        <3>3. a \in UnitAddr <=> (Frontier <= a /\ a < Frontier + ProgramUnit)
          BY <2>1, <3>1, ProgrammingFacts
        <3>4. CASE a \in UnitAddr
          <4>1. Wanted(a) = pre[a] \cup UnitByte(a)
            BY <2>1, <3>4, ProgrammingFacts
          <4>2. flash'[a] = flash[a] \cup UnitByte(a)
            BY <2>1, <3>1, <3>4
          <4>3. flash[a] = pre[a]
            BY <3>1, <3>2, <3>3, <3>4
          <4> QED BY <3>1, <3>3, <3>4, <4>1, <4>2, <4>3
        <3>5. CASE a \notin UnitAddr
          <4>1. flash'[a] = flash[a]
            BY <2>1, <3>1, <3>5
          <4>2. a < Frontier <=> a < Frontier + ProgramUnit
            BY <3>1, <3>3, <3>5
          <4> QED BY <3>2, <4>1, <4>2
        <3> QED BY <3>4, <3>5
      <2>7. WriteInv'
        <3>1. pc' # "write"
          BY <1>1, <1>5 DEF Busy
        <3> QED BY <1>1, <1>2, <2>5, <2>6, <3>1 DEF WriteInv
      <2>8. EraseInv'
        BY <1>1, <2>1, ProgrammingFacts DEF EraseInv, Busy
      <2> QED BY <1>4, <1>6, <2>3, <2>4, <2>7, <2>8 DEF StoreInv
    <1>8. CASE NvmcProgramFails
      <2>1. /\ Programming /\ drv' = Done(ERROR)
            /\ \E got \in SUBSET NewBits : flash' = WithBits(got)
        BY <1>8 DEF NvmcProgramFails
      <2>2. drv'.op = "done" /\ drv'.ret = -1 /\ pc' \in Busy
        BY <1>1, <2>1, ProgrammingFacts DEF Done, ERROR
      <2>3. InOrder' /\ OnlySourceBits'
        BY <1>1, <2>1, TornBits, TornWrite
      <2>4. JobInv' /\ WriteInv' /\ EraseInv'
        BY <2>2 DEF JobInv, WriteInv, EraseInv, Busy
      <2> QED BY <1>4, <1>6, <2>3, <2>4 DEF StoreInv
    <1>9. CASE ProgramReturns
      <2>1. /\ drv.op = "program" /\ drv.dst >= drv.sz /\ UNCHANGED flash
            /\ drv' = Done(drv.sz \div DataWidth)
        BY <1>9 DEF ProgramReturns
      <2>2. drv'.op = "done" /\ pc \in Busy
        BY <2>1 DEF Done, IInv, DriverInv
      <2>3. Frontier' = Frontier
        <3>1. drv.sz = Job.len /\ drv.dst <= drv.sz /\ drv.dst \in Nat /\ drv.sz \in Nat
          BY <2>1, <2>2 DEF StoreInv, JobInv, IInv, TypeOK, DriverTypeOK
        <3>2. drv.dst = Job.len
          BY <2>1, <3>1
        <3> QED BY <1>3, <2>1, <2>2, <3>2 DEF Frontier
      <2>4. WriteInv'
        <3>1. \A a \in Target : flash[a] = IF a < Frontier THEN Wanted(a) ELSE pre[a]
          BY <2>1, <2>2 DEF StoreInv, WriteInv
        <3>2. pc' # "write"
          BY <1>1, <2>2 DEF Busy
        <3> QED BY <1>1, <1>2, <2>1, <2>3, <3>1, <3>2 DEF WriteInv
      <2>5. JobInv' /\ EraseInv'
        BY <1>1, <2>2 DEF JobInv, EraseInv, Busy
      <2> QED BY <1>1, <1>6, <2>1, <2>4, <2>5, SameBytes DEF StoreInv
    <1>10. CASE NvmcErase
      <2>1. /\ drv.op = "erase" /\ drv' = Done(OK)
            /\ flash' = WithSector(drv.addr, [k \in 0 .. (SectorSize - 1) |-> Erased])
        BY <1>10 DEF NvmcErase
      <2>2. drv'.op = "done" /\ drv'.ret = OK /\ pc = "erase" /\ deleted \in Nat
        BY <2>1 DEF Done, IInv, DriverInv, TypeOK
      <2>3. \A a \in Addr : a \notin Sector(drv.addr) => flash'[a] = flash[a]
        BY <2>1 DEF WithSector
      <2>4. /\ InOrder' /\ OnlySourceBits' /\ ErasedTo = drv.addr
            /\ \A a \in Target : flash[a] = IF a < drv.addr THEN Erased ELSE pre[a]
        BY <1>1, <2>1, <2>3, TornSector
      <2>5. ErasedTo' = drv.addr + SectorSize
        <3>1. ErasedTo = base + call.off + deleted + 0
          BY <2>1 DEF ErasedTo
        <3>2. ErasedTo' = base + call.off + deleted + SectorSize
          BY <1>1, <1>2, <2>2 DEF ErasedTo
        <3>3. base + call.off \in Nat /\ SectorSize \in Nat
          BY CallFacts, DriverAssumption DEF IInv
        <3> QED BY <2>2, <2>4, <3>1, <3>2, <3>3
      <2>6. EraseInv'
        <3> SUFFICES ASSUME NEW a \in Target
                     PROVE  flash'[a] = IF a < drv.addr + SectorSize THEN Erased ELSE pre[a]
          BY <1>1, <1>2, <2>5 DEF EraseInv
        <3>1. a \in Addr /\ a \in Nat /\ drv.addr \in Nat /\ SectorSize \in Nat
          BY <2>1, TargetBounds, SectorInTarget, DriverAssumption DEF IInv
        <3>2. CASE a \in Sector(drv.addr)
          <4>1. drv.addr <= a /\ a < drv.addr + SectorSize
            BY <3>2 DEF Sector
          <4>2. a - drv.addr \in 0 .. (SectorSize - 1)
            BY <3>1, <4>1
          <4>3. flash'[a] = Erased
            BY <2>1, <3>1, <3>2, <4>2 DEF WithSector
          <4> QED BY <4>1, <4>3
        <3>3. CASE a \notin Sector(drv.addr)
          <4>1. a < drv.addr <=> a < drv.addr + SectorSize
            BY <3>1, <3>3 DEF Sector
          <4> QED BY <2>3, <2>4, <3>1, <3>3, <4>1
        <3> QED BY <3>2, <3>3
      <2>7. JobInv' /\ WriteInv'
        BY <1>1, <2>2 DEF JobInv, WriteInv, Busy
      <2> QED BY <1>4, <1>6, <2>4, <2>6, <2>7 DEF StoreInv
    <1>11. CASE NvmcEraseFails
      <2>1. drv.op = "erase" /\ drv' = Done(ERROR)
        BY <1>11 DEF NvmcEraseFails
      <2>2. drv'.op = "done" /\ drv'.ret # OK /\ pc = "erase"
        BY <2>1 DEF Done, ERROR, OK, IInv, DriverInv
      <2>3. \A a \in Addr : a \notin Sector(drv.addr) => flash'[a] = flash[a]
        BY <1>11 DEF NvmcEraseFails, WithSector
      <2>4. InOrder' /\ OnlySourceBits'
        BY <1>1, <2>1, <2>3, TornSector
      <2>5. JobInv' /\ WriteInv' /\ EraseInv'
        BY <1>1, <2>2 DEF JobInv, WriteInv, EraseInv, Busy
      <2> QED BY <1>4, <1>6, <2>4, <2>5 DEF StoreInv
    <1> QED BY <1>7, <1>8, <1>9, <1>10, <1>11 DEF Driver, DriverStep

\* What a loss of power leaves is in order, whether it cut a command short or fell
\* between two.
LEMMA PowerLossKeeps ==
    ASSUME IInv, StoreInv, PowerLoss
    PROVE  StoreInv'
    <1>1. pc' = "off" /\ UNCHANGED <<call, pre>> /\ FlashAfterPowerLoss
      BY DEF PowerLoss, request
    <1>2. CASE UNCHANGED flash
      BY <1>1, <1>2, FailureKeeps
    <1>3. CASE Programming /\ \E got \in SUBSET NewBits : flash' = WithBits(got)
      <2>1. InOrder' /\ OnlySourceBits'
        BY <1>1, <1>3, TornBits, TornWrite
      <2> QED BY <1>1, <2>1, OffKeeps
    <1>4. CASE drv.op = "erase" /\ \E image \in Garbage : flash' = WithSector(drv.addr, image)
      <2>1. \A a \in Addr : a \notin Sector(drv.addr) => flash'[a] = flash[a]
        BY <1>4 DEF WithSector
      <2>2. InOrder' /\ OnlySourceBits'
        BY <1>1, <1>4, <2>1, TornSector
      <2> QED BY <1>1, <2>2, OffKeeps
    <1> QED BY <1>1, <1>2, <1>3, <1>4 DEF FlashAfterPowerLoss

\* Nothing has been asked for at first.
LEMMA InitEstablishesStore == Init => StoreInv
    <1> SUFFICES ASSUME Init PROVE StoreInv
      OBVIOUS
    <1>1. call.op = "read" /\ call.len = 0 /\ pc = "idle"
      BY DEF Init
    <1>2. Target = {}
      <2>1. base + call.off \in Nat
        BY InitEstablishes, CallFacts DEF IInv
      <2>2. \A a \in Addr : ~(base + call.off <= a /\ a < base + call.off + 0)
        BY <2>1, DriverAssumption DEF Addr
      <2> QED BY <1>1, <2>2 DEF Target
    <1> QED BY <1>1, <1>2 DEF StoreInv, JobInv, WriteInv, EraseInv, Complete, InOrder,
                              OnlySourceBits, Busy

\* Every step keeps it: the calls, the steps of a call, the driver's commands and
\* the loss of power.
LEMMA StoreStepPreserves ==
    ASSUME WholeUnitStarts, IInv, IInv', StoreInv, [Next]_vars
    PROVE  StoreInv'
    <1>1. CASE CallRead \/ CallErase \/ CallWrite
      <2>1. drv.op = "idle"
        BY <1>1, NoDriverCall DEF CallRead, CallErase, CallWrite, Call, Busy
      <2>2. CASE CallRead
        <3>1. PICK area \in Areas, off \in Offs, len \in Lens : Call("read", area, off, len, NoData)
          BY <2>2 DEF CallRead
        <3> QED BY <2>1, <3>1, CallKeeps
      <2>3. CASE CallErase
        <3>1. PICK area \in Areas, off \in Offs, len \in Lens : Call("erase", area, off, len, NoData)
          BY <2>3 DEF CallErase
        <3> QED BY <2>1, <3>1, CallKeeps
      <2>4. CASE CallWrite
        <3>1. PICK area \in Areas, off \in WriteOffs, len \in Lens, src \in Srcs :
                  Call("write", area, off, len, src)
          BY <2>4 DEF CallWrite
        <3> QED BY <2>1, <3>1, CallKeeps
      <2> QED BY <1>1, <2>2, <2>3, <2>4
    <1>2. CASE ReadSucceeds \/ ReadFails
      BY <1>2, ReadKeeps
    <1>3. CASE ReadPaddingFails
      <2>1. UNCHANGED <<flash, call, pre>> /\ pc' = "return" /\ rc' # OK
        BY <1>3 DEF ReadPaddingFails, Return, drvVars, request, OK
      <2> QED BY <2>1, FailureKeeps
    <1>4. CASE ReadPadding
      BY <1>4, PaddingKeeps
    <1>5. CASE Program
      BY <1>5, ProgramKeeps
    <1>6. CASE Programmed
      BY <1>6, ProgrammedKeeps
    <1>7. CASE Erase
      BY <1>7, EraseKeeps
    <1>8. CASE SectorErased
      BY <1>8, SectorErasedKeeps
    <1>9. CASE EraseEnds
      BY <1>9, EraseEndsKeeps
    <1>10. CASE Driver
      BY <1>10, DriverKeeps
    <1>11. CASE Returned \/ Restart
      <2>1. UNCHANGED <<flash, call, pre>> /\ pc' = "idle"
        BY <1>11 DEF Returned, Restart, drvVars, request
      <2> QED BY <2>1, FailureKeeps
    <1>12. CASE PowerLoss
      BY <1>12, PowerLossKeeps
    <1>13. CASE UNCHANGED vars
      <2>1. UNCHANGED <<flash, drv, pc, padding, deleted, rc, call, pre>>
        BY <1>13 DEF vars, local, request
      <2>2. /\ base' = base /\ Target' = Target /\ AddPadding' = AddPadding
            /\ \A a : Wanted(a)' = Wanted(a)
        BY <2>1, SameStore
      <2>3. Job' = Job
        BY <2>1, SameJob
      <2>4. Frontier' = Frontier /\ ErasedTo' = ErasedTo
        BY <2>1, <2>2, <2>3 DEF Frontier, ErasedTo
      <2>5. JobInv' /\ Complete'
        BY <2>1, <2>2, <2>3 DEF StoreInv, JobInv, Complete
      <2>6. WriteInv'
        BY <2>1, <2>2, <2>4 DEF StoreInv, WriteInv
      <2>7. EraseInv'
        BY <2>1, <2>2, <2>4 DEF StoreInv, EraseInv
      <2> QED BY <2>1, <2>5, <2>6, <2>7, SameBytes DEF StoreInv
    <1> QED BY <1>1, <1>2, <1>3, <1>4, <1>5, <1>6, <1>7, <1>8, <1>9, <1>10, <1>11, <1>12, <1>13
            DEF Next, Step

-----------------------------------------------------------------------------
(* The theorems.                                                           *)

\* The store's invariant holds throughout, when writes begin on whole units.
THEOREM StoreInvariance == WholeUnitStarts => (Spec => []StoreInv)
    <1>1. Init => IInv /\ StoreInv
      BY InitEstablishes, InitEstablishesStore
    <1>2. ASSUME WholeUnitStarts PROVE IInv /\ StoreInv /\ [Next]_vars => IInv' /\ StoreInv'
      BY <1>2, StepPreserves, StoreStepPreserves
    <1>3. ASSUME WholeUnitStarts PROVE Spec => []StoreInv
      BY <1>1, <1>2, <1>3, PTL DEF Spec
    <1> QED BY <1>3

\* flash_area_write and flash_area_erase work upwards: what an error or a loss of
\* power leaves is a finished part, one torn unit or sector, and an untouched part.
THEOREM CallsWorkUpwards == WholeUnitStarts => (Spec => []InOrder)
    <1>1. StoreInv => InOrder
      BY DEF StoreInv
    <1> QED BY <1>1, StoreInvariance, PTL

\* flash_area_write adds bits of its own source only, in whatever state it ends.
THEOREM WritesAddTheirBits == WholeUnitStarts => (Spec => []OnlySourceBits)
    <1>1. StoreInv => OnlySourceBits
      BY DEF StoreInv
    <1> QED BY <1>1, StoreInvariance, PTL

\* A write or an erase that returns 0 has done all of it.
THEOREM SuccessIsComplete == WholeUnitStarts => (Spec => []Complete)
    <1>1. StoreInv => Complete
      BY DEF StoreInv
    <1> QED BY <1>1, StoreInvariance, PTL

-----------------------------------------------------------------------------
(* The refinement: every step of FlashMap is a step of FlashStore, or none. *)

Goal == [a \in Target |-> Wanted(a)]
Status == CASE pc = "idle"   -> "none"
            [] pc = "off"    -> "lost"
            [] pc = "return" -> IF rc = OK THEN "done" ELSE "failed"
            [] OTHER         -> "busy"

\* The state of a call, as the store has it.
LEMMA StatusCases ==
    /\ pc = "idle" => Status = "none"
    /\ pc = "off" => Status = "lost"
    /\ pc = "return" /\ rc = OK => Status = "done"
    /\ pc = "return" /\ rc # OK => Status = "failed"
    /\ pc \notin {"idle", "off", "return"} => Status = "busy"
    BY DEF Status

\* The same after the step.
LEMMA StatusCasesNext ==
    /\ pc' = "idle" => Status' = "none"
    /\ pc' = "off" => Status' = "lost"
    /\ pc' = "return" /\ rc' = OK => Status' = "done"
    /\ pc' = "return" /\ rc' # OK => Status' = "failed"
    /\ pc' \notin {"idle", "off", "return"} => Status' = "busy"
    BY DEF Status

\* What a call asks for is bytes, for addresses of the device.
GoalOK == Target \subseteq Addr /\ \A a \in Target : Wanted(a) \in Byte

\* It is, for every call the invariant allows.
LEMMA GoalBytes == IInv => GoalOK
    <1> SUFFICES ASSUME IInv PROVE Target \subseteq Addr /\ \A a \in Target : Wanted(a) \in Byte
      BY DEF GoalOK
    <1>1. Target \subseteq Addr
      BY DEF Target
    <1>2. CASE call.op # "write"
      BY <1>1, <1>2 DEF Wanted, Erased, Byte
    <1>3. CASE call.op = "write"
      <2> SUFFICES ASSUME NEW a \in Target PROVE Wanted(a) \in Byte
        BY <1>1
      <2>1. IsRangeValid(call.area, call.off, call.len)
        BY DEF Target
      <2>2. /\ base + call.off \in Nat /\ call.len \in Nat /\ a \in Nat
            /\ base + call.off <= a /\ a < base + call.off + call.len
        BY <1>3, <2>1, WriteTarget, TargetBounds, CallFacts DEF IInv
      <2>3. call.src \in Seq(Byte) /\ Len(call.src) >= FlashSize /\ Len(call.src) \in Nat
        BY <1>3 DEF IInv, TypeOK, CallInv, Buffer
      <2>4. /\ fa_off[call.area] \in Nat /\ fa_size[call.area] \in Nat /\ MemoryBase \in Nat
            /\ FlashSize \in Nat /\ MemoryBase <= fa_off[call.area] /\ call.off \in Nat
            /\ fa_off[call.area] + fa_size[call.area] <= MemoryBase + FlashSize
        BY CallFacts, AreaAssumption, DriverAssumption DEF FlashSize, IInv
      <2>5. call.len <= Len(call.src)
        <3>1. call.off + call.len <= fa_size[call.area]
          BY <2>1 DEF IsRangeValid
        <3>2. fa_size[call.area] <= FlashSize
          BY <2>4
        <3> QED BY <2>2, <2>3, <2>4, <3>1, <3>2
      <2>6. a - (base + call.off) + 1 \in 1 .. Len(call.src)
        BY <2>2, <2>3, <2>5
      <2>7. call.src[a - (base + call.off) + 1] \in Byte
        BY <2>3, <2>6
      <2>8. pre[a] \in Byte
        BY <1>1 DEF IInv, TypeOK
      <2> QED BY <1>3, <2>7, <2>8 DEF Wanted, Byte
    <1> QED BY <1>2, <1>3

\* The goal of a call stays while its arguments do.
LEMMA SameGoal ==
    ASSUME UNCHANGED <<call, pre>>
    PROVE  Goal' = Goal
    BY SameStore DEF Goal

\* Whatever the driver does for a call moves bytes of its target only.
LEMMA ProgressStep ==
    ASSUME IInv, IInv', UNCHANGED <<call, pre>>
    PROVE  \A a \in Addr \ Target : flash'[a] = flash[a]
    <1>1. Target' = Target
      BY SameStore
    <1> QED BY <1>1 DEF IInv, Confined

\* The steps of the store, in the words of FlashMap.
StoreRequest ==
    /\ Status = "none" /\ Status' \in {"busy", "failed"}
    /\ DOMAIN Goal' \subseteq Addr /\ \A a \in DOMAIN Goal' : Goal'[a] \in Byte
    /\ UNCHANGED flash
StoreProgress == \A a \in Addr \ DOMAIN Goal : flash'[a] = flash[a]
StoreWork == Status = "busy" /\ StoreProgress /\ UNCHANGED <<Goal, Status>>
StoreSucceed ==
    /\ Status = "busy" /\ Status' = "done"
    /\ \A a \in DOMAIN Goal : flash[a] = Goal[a]
    /\ UNCHANGED <<flash, Goal>>
StoreFail == Status = "busy" /\ Status' = "failed" /\ UNCHANGED <<flash, Goal>>
StoreLose == Status # "none" /\ Status' = "lost" /\ StoreProgress /\ UNCHANGED Goal
StoreForget == Status # "none" /\ Status' = "none" /\ UNCHANGED <<flash, Goal>>
StoreNext ==
    \/ StoreRequest \/ StoreWork \/ StoreSucceed \/ StoreFail \/ StoreLose \/ StoreForget
    \/ UNCHANGED <<flash, Goal, Status>>

\* They are those of FlashStore.
LEMMA StoreStepIs == StoreNext => [Store!Next]_(Store!vars)
    BY DEF StoreNext, StoreRequest, StoreProgress, StoreWork, StoreSucceed, StoreFail, StoreLose,
           StoreForget, Goal, Status, Store!Next, Store!Request, Store!Progress, Store!Work,
           Store!Succeed, Store!Fail, Store!Lose, Store!Forget, Store!vars

\* A call that goes on, does nothing or moves bytes of its target.
LEMMA GoingOn ==
    ASSUME IInv, IInv', UNCHANGED <<call, pre>>,
           pc \notin {"idle", "off", "return"}, pc' \notin {"idle", "off", "return"}
    PROVE  StoreWork
    <1>1. Status = "busy" /\ Status' = "busy"
      BY StatusCases, StatusCasesNext
    <1> QED BY <1>1, SameGoal, ProgressStep DEF StoreWork, StoreProgress, Goal

\* A call that returns has succeeded, and then all of it is done, or failed.
LEMMA Ending ==
    ASSUME UNCHANGED <<flash, call, pre>>, Complete', call.op = "read" => Target = {},
           pc \notin {"idle", "off", "return"}, pc' = "return"
    PROVE  StoreSucceed \/ StoreFail
    <1>1. Status = "busy"
      BY StatusCases
    <1>2. CASE rc' = OK
      <2>1. \A a \in Target : flash[a] = Wanted(a)
        <3>1. Target' = Target /\ \A a : Wanted(a)' = Wanted(a)
          BY SameStore
        <3> QED BY <1>2, <3>1 DEF Complete
      <2> QED BY <1>1, <1>2, <2>1, SameGoal, StatusCasesNext DEF StoreSucceed, Goal
    <1>3. CASE rc' # OK
      BY <1>1, <1>3, SameGoal, StatusCasesNext DEF StoreFail
    <1> QED BY <1>2, <1>3

\* A read is to change nothing.
LEMMA ReadTarget ==
    ASSUME TypeOK, call.op = "read"
    PROVE  Target = {}
    <1>1. \A a \in Target : base + call.off <= a /\ a < base + call.off + 0 /\ a \in Nat
      BY TargetBounds DEF Target
    <1>2. base + call.off \in Nat
      BY CallFacts
    <1> QED BY <1>1, <1>2

\* The entry of a call is a request of the store.
LEMMA CallRefines ==
    ASSUME IInv', NEW op, NEW area, NEW off, NEW len, NEW src, op \in {"read", "write", "erase"},
           Call(op, area, off, len, src)
    PROVE  StoreRequest
    <1>1. /\ pc = "idle" /\ UNCHANGED flash
          /\ pc' \in {"read", "write", "erase"} \/ (pc' = "return" /\ rc' = -1)
      BY DEF Call, Return, drvVars
    <1>2. Status = "none"
      BY <1>1, StatusCases
    <1>3. Status' \in {"busy", "failed"}
      BY <1>1, StatusCasesNext DEF OK
    <1>4. Target' \subseteq Addr /\ \A a \in Target' : Wanted(a)' \in Byte
      <2>1. GoalOK'
        BY GoalBytes, PTL
      <2> QED BY <2>1 DEF GoalOK
    <1>5. DOMAIN Goal' = Target' /\ \A a \in Target' : Goal'[a] = Wanted(a)'
      BY DEF Goal
    <1> QED BY <1>1, <1>2, <1>3, <1>4, <1>5 DEF StoreRequest

\* Every step of FlashMap is a step of the store or leaves it alone.
LEMMA StepRefines ==
    ASSUME IInv, IInv', Complete', [Next]_vars
    PROVE  StoreNext
    <1>1. CASE CallRead \/ CallErase \/ CallWrite
      <2>1. PICK op \in {"read", "write", "erase"} :
                \E area, off, len, src : Call(op, area, off, len, src)
        BY <1>1 DEF CallRead, CallErase, CallWrite
      <2> QED BY <2>1, CallRefines DEF StoreNext
    <1>2. CASE ReadSucceeds \/ ReadFails \/ ReadPaddingFails \/ EraseEnds
      <2>1. /\ UNCHANGED <<flash, call, pre>> /\ pc' = "return"
            /\ pc \notin {"idle", "off", "return"}
        BY <1>2 DEF ReadSucceeds, ReadFails, ReadPaddingFails, EraseEnds, Return, drvVars, request
      <2>2. call.op = "read" => Target = {}
        BY ReadTarget DEF IInv
      <2> QED BY <2>1, <2>2, Ending DEF StoreNext
    <1>3. CASE ReadPadding \/ Program \/ Programmed \/ Erase \/ SectorErased
      <2>1. UNCHANGED <<flash, call, pre>> /\ pc \notin {"idle", "off", "return"}
        BY <1>3 DEF ReadPadding, Program, Programmed, Erase, SectorErased, drvVars, request
      <2>2. pc' \notin {"idle", "off"}
        BY <1>3, <2>1 DEF ReadPadding, Program, Programmed, Erase, SectorErased, Return, local,
              AfterPadding, AfterFirst, AfterWhole, AfterJob
      <2>3. CASE pc' = "return"
        <3>1. call.op = "read" => Target = {}
          BY ReadTarget DEF IInv
        <3> QED BY <2>1, <2>3, <3>1, Ending DEF StoreNext
      <2>4. CASE pc' # "return"
        BY <2>1, <2>2, <2>4, GoingOn DEF StoreNext
      <2> QED BY <2>3, <2>4
    <1>4. CASE Driver
      <2>1. UNCHANGED <<pc, call, pre>>
        BY <1>4 DEF Driver, request
      <2>2. pc \in Busy \cup {"erase"}
        BY <1>4, NoDriverCall
           DEF Driver, DriverStep, NvmcProgram, NvmcProgramFails, ProgramReturns, NvmcErase,
               NvmcEraseFails, Programming
      <2> QED BY <2>1, <2>2, GoingOn DEF StoreNext, Busy
    <1>5. CASE Returned \/ Restart
      <2>1. UNCHANGED <<flash, call, pre>> /\ pc \in {"return", "off"} /\ pc' = "idle"
        BY <1>5 DEF Returned, Restart, drvVars, request
      <2>2. Status # "none" /\ Status' = "none"
        BY <2>1, StatusCases, StatusCasesNext
      <2> QED BY <2>1, <2>2, SameGoal DEF StoreNext, StoreForget
    <1>6. CASE PowerLoss
      <2>1. UNCHANGED <<call, pre>> /\ pc \notin {"idle", "off"} /\ pc' = "off"
        BY <1>6 DEF PowerLoss, request
      <2>2. Status # "none" /\ Status' = "lost"
        BY <2>1, StatusCases, StatusCasesNext
      <2> QED BY <2>1, <2>2, SameGoal, ProgressStep DEF StoreNext, StoreLose, StoreProgress, Goal
    <1>7. CASE UNCHANGED vars
      <2>1. UNCHANGED <<flash, call, pre, pc, rc>>
        BY <1>7 DEF vars, local, request
      <2> QED BY <2>1, SameGoal DEF StoreNext, Status
    <1> QED BY <1>1, <1>2, <1>3, <1>4, <1>5, <1>6, <1>7 DEF Next, Step

\* The calls of flash_map.c implement the store: a call in flight moves bytes of
\* its own target only, it succeeds only when all of them are as asked, and a loss
\* of power ends it anywhere; for any geometry, areas and arguments, as long as
\* writes begin on whole units.
THEOREM CallsImplementStore == WholeUnitStarts => (Spec => ImplementsStore)
    <1>1. Init => Store!Init
      <2> SUFFICES ASSUME Init PROVE Store!Init
        OBVIOUS
      <2>1. flash \in [Addr -> Byte] /\ Target = {} /\ pc = "idle"
        <3>1. IInv /\ call.op = "read" /\ pc = "idle"
          BY InitEstablishes DEF Init
        <3> QED BY <3>1, ReadTarget DEF IInv, TypeOK, DriverTypeOK
      <2>2. Goal = [a \in {} |-> {}]
        BY <2>1 DEF Goal
      <2>3. Status = "none"
        BY <2>1, StatusCases
      <2> QED BY <2>1, <2>2, <2>3 DEF Store!Init, Goal, Status
    <1>2. IInv /\ IInv' /\ StoreInv' /\ [Next]_vars => [Store!Next]_(Store!vars)
      <2>1. StoreInv' => Complete'
        BY DEF StoreInv
      <2> QED BY <2>1, StepRefines, StoreStepIs
    <1>3. ASSUME WholeUnitStarts PROVE Spec => ImplementsStore
      <2>1. Spec => []IInv
        BY Invariance
      <2>2. Spec => []StoreInv
        BY <1>3, StoreInvariance
      <2> QED BY <1>1, <1>2, <2>1, <2>2, PTL DEF Spec, ImplementsStore, Store!Spec
    <1> QED BY <1>3
=============================================================================
