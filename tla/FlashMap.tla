------------------------------ MODULE FlashMap ------------------------------
(***************************************************************************)
(* The flash map access functions of flash_map.c over one CMSIS device:    *)
(* flash_area_read, flash_area_write and flash_area_erase on the areas of  *)
(* the device.  There is one caller (the boot loader runs one thread and   *)
(* polls), so one call runs at a time; but a call is many driver calls,    *)
(* any of which can fail and between any two of which power can be lost.   *)
(***************************************************************************)
EXTENDS CmsisFlash

CONSTANTS
    FLASH_PROGRAM_UNIT,   \* TFM_HAL_FLASH_PROGRAM_UNIT of flash_layout.h: 8
    Areas,                \* the areas of the flash map on this device
    fa_off, fa_size,      \* their place, [Areas -> Nat]
    WriteOffs, Offs,      \* offsets the caller passes to write, to read and erase
    Lens,                 \* lengths it passes
    Srcs,                 \* the buffers it writes from
    Images,               \* what the device may hold at first
    MaxCalls              \* bound: calls made

AreaAddr(area) == {a \in Addr : fa_off[area] <= a /\ a < fa_off[area] + fa_size[area]}

ASSUME AreaAssumption ==
    /\ FLASH_PROGRAM_UNIT \in Nat \ {0}
    /\ FLASH_PROGRAM_UNIT % DataWidth = 0
    /\ FLASH_PROGRAM_UNIT % ProgramUnit = 0
    /\ fa_off \in [Areas -> Nat] /\ fa_size \in [Areas -> Nat \ {0}]
    /\ \A area \in Areas :
          /\ MemoryBase <= fa_off[area]
          /\ fa_off[area] + fa_size[area] <= MemoryBase + FlashSize
          /\ fa_off[area] % SectorSize = 0 /\ fa_size[area] % SectorSize = 0
    /\ \A a, b \in Areas : a # b => AreaAddr(a) \cap AreaAddr(b) = {}

ASSUME CallerAssumption ==
    /\ Offs \subseteq Word /\ WriteOffs \subseteq Word /\ Lens \subseteq Word
    /\ \A src \in Srcs : src \in Buffer /\ Len(src) >= FlashSize
    /\ Images \subseteq [Addr -> Byte]
    /\ MaxCalls \in Nat

VARIABLES
    pc,        \* where the call is
    call,      \* the arguments of the call being made, or made last
    padding,   \* add_padding and len_padding of a write
    deleted,   \* deleted_len of an erase
    rc,        \* what the call returns
    dst,       \* what a read has put into the caller's buffer
    pre,       \* history: the device when the call was made
    calls      \* calls made so far

local == <<padding, deleted, rc, dst>>
request == <<call, pre, calls>>
vars == <<flash, drv, pc, local, request>>

Floor(n, u) == n - (n % u)                 \* FLOOR_ALIGN
Ceiling(n, u) == Floor(n + (u - 1), u)     \* CEILING_ALIGN
Least(m, n) == IF m <= n THEN m ELSE n

base == fa_off[call.area]

\* boot_u32_safe_add fails when the sum does not fit a uint32_t.
IsRangeValid(area, off, len) == off + len < WordMod /\ off + len <= fa_size[area]

-----------------------------------------------------------------------------
(* flash_area_read: the data item that holds an unaligned head, whole      *)
(* items, the data item that holds the tail.                               *)

HeadLen(off, len) ==
    LET skip == off % DataWidth
    IN  IF skip = 0 THEN 0
        ELSE IF skip + len >= DataWidth THEN DataWidth - skip ELSE len
ItemNumber(off, len) == (len - HeadLen(off, len)) \div DataWidth
TailAt(off, len) == HeadLen(off, len) + ItemNumber(off, len) * DataWidth

\* The ReadData calls it makes: address and number of items.
ReadCalls(off, len) ==
    {r \in {<<base + Floor(off, DataWidth), IF off % DataWidth = 0 THEN 0 ELSE 1>>,
            <<base + off + HeadLen(off, len), ItemNumber(off, len)>>,
            <<base + off + TailAt(off, len), IF TailAt(off, len) < len THEN 1 ELSE 0>>} :
        r[2] > 0}
ReadRejected(off, len) ==
    \E r \in ReadCalls(off, len) : ~LastByteInRange(r[1], r[2] * DataWidth)

\* What it copies to the caller's buffer: from the head item past the bytes
\* skipped, from the whole items, from the tail item.
\* Mutant: the head item is copied from its start, not from the byte at off.
ReadBytesFromItemStart(off, len) ==
    [n \in 1 .. len |-> IF n - 1 < HeadLen(off, len)
                        THEN flash[base + Floor(off, DataWidth) + (n - 1)]
                        ELSE flash[base + off + (n - 1)]]

ReadBytes(off, len) ==
    LET byte(k) ==
          IF k < HeadLen(off, len)
          THEN flash[base + Floor(off, DataWidth) + (k + (off - Floor(off, DataWidth)))]
          ELSE IF k < TailAt(off, len)
          THEN flash[(base + off + HeadLen(off, len)) + (k - HeadLen(off, len))]
          ELSE flash[(base + off + TailAt(off, len)) + (k - TailAt(off, len))]
    IN  [n \in 1 .. len |-> byte(n - 1)]

\* flash_area_read_is_empty calls flash_area_read and then compares each byte
\* with the erased value.
\* Mutant: the comparison is the wrong way round: the first byte that is erased
\* ends the loop with 0.
ReadIsEmptySwapped ==
    IF rc # OK THEN -1 ELSE IF \A k \in 1 .. Len(dst) : dst[k] # Erased THEN 1 ELSE 0

ReadIsEmpty ==
    IF rc # OK THEN -1 ELSE IF \A k \in 1 .. Len(dst) : dst[k] = Erased THEN 1 ELSE 0

-----------------------------------------------------------------------------
(* flash_area_write cuts the bytes into a first unit, shared with bytes    *)
(* below off, whole units, and a last unit, shared with bytes above.       *)

AddPadding == call.off % FLASH_PROGRAM_UNIT
AlignedOff == Floor(call.off, FLASH_PROGRAM_UNIT)
AlignedLen == Ceiling(call.len + AddPadding, FLASH_PROGRAM_UNIT)
LenPadding == AlignedLen - call.len - AddPadding

\* src_written_idx after the first unit, and where the last unit starts.
FirstLen == IF AddPadding = 0 THEN 0 ELSE Least(FLASH_PROGRAM_UNIT - AddPadding, call.len)
WriteSize == Floor(call.len - FirstLen, FLASH_PROGRAM_UNIT)
LastStart == FirstLen + WriteSize
LastLen == Least(FLASH_PROGRAM_UNIT, call.len - LastStart)

FirstUnit ==
    [addr |-> base + AlignedOff, len |-> FLASH_PROGRAM_UNIT,
     data |-> padding.add \o SubSeq(call.src, 1, FirstLen)
                \o (IF FirstLen = call.len THEN padding.len ELSE NoData),
     filled |-> AddPadding + FirstLen + (IF FirstLen = call.len THEN LenPadding ELSE 0)
                  = FLASH_PROGRAM_UNIT]

\* The address is that of src_written_idx, the data that of src itself.
WholeUnits ==
    [addr |-> base + call.off + FirstLen, len |-> WriteSize,
     data |-> SubSeq(call.src, 1, WriteSize), filled |-> TRUE]

\* Mutant: the last unit is filled from the start of src.
LastUnitFromSrcStart ==
    [addr |-> base + call.off + LastStart, len |-> FLASH_PROGRAM_UNIT,
     data |-> SubSeq(call.src, 1, LastLen) \o padding.len, filled |-> TRUE]

LastUnit ==
    [addr |-> base + call.off + LastStart, len |-> FLASH_PROGRAM_UNIT,
     data |-> SubSeq(call.src, LastStart + 1, LastStart + LastLen) \o padding.len,
     filled |-> /\ LastStart + LastLen = call.len
                /\ LastLen + LenPadding = FLASH_PROGRAM_UNIT
                /\ AlignedLen = AddPadding + LastStart + FLASH_PROGRAM_UNIT]

Job == CASE pc = "first" -> FirstUnit [] pc = "whole" -> WholeUnits [] pc = "last" -> LastUnit

AfterWhole == IF FirstLen < call.len /\ LenPadding > 0 THEN "last" ELSE "return"
AfterFirst == IF WriteSize > 0 THEN "whole" ELSE AfterWhole
AfterPadding == IF AddPadding > 0 THEN "first" ELSE AfterFirst
AfterJob == CASE pc = "first" -> AfterFirst [] pc = "whole" -> AfterWhole [] pc = "last" -> "return"

NoPadding == [add |-> NoData, len |-> NoData]

-----------------------------------------------------------------------------
Return(ret) == pc' = "return" /\ rc' = ret

Call(op, area, off, len, src) ==
    /\ pc = "idle" /\ calls < MaxCalls
    /\ call' = [op |-> op, area |-> area, off |-> off, len |-> len, src |-> src]
    /\ pre' = flash /\ calls' = calls + 1
    /\ padding' = NoPadding /\ deleted' = 0 /\ dst' = NoData
    /\ IF IsRangeValid(area, off, len) THEN pc' = op /\ rc' = OK ELSE Return(-1)
    /\ UNCHANGED drvVars

CallRead == \E area \in Areas, off \in Offs, len \in Lens : Call("read", area, off, len, NoData)
CallErase == \E area \in Areas, off \in Offs, len \in Lens : Call("erase", area, off, len, NoData)
CallWrite == \E area \in Areas, off \in WriteOffs, len \in Lens, src \in Srcs :
                Call("write", area, off, len, src)

(* flash_area_read; nothing else moves while it runs, so its driver calls  *)
(* are one step.                                                           *)

ReadSucceeds ==
    /\ pc = "read" /\ ~ReadRejected(call.off, call.len)
    /\ dst' = ReadBytes(call.off, call.len)
    /\ Return(OK)
    /\ UNCHANGED <<drvVars, padding, deleted, request>>

ReadFails ==
    /\ pc = "read"
    /\ \/ ReadRejected(call.off, call.len) /\ Return(ERROR_PARAMETER)
       \/ ReadCalls(call.off, call.len) # {} /\ Return(ERROR)
    /\ UNCHANGED <<drvVars, padding, deleted, dst, request>>

(* flash_area_write: both padding reads and the check of the aligned range *)
(* between them, then the three ProgramData calls.                         *)

WriteRejected ==
    \/ ReadRejected(AlignedOff, AddPadding)
    \/ ~IsRangeValid(call.area, AlignedOff, AlignedLen)
    \/ ReadRejected(call.off + call.len, LenPadding)

\* Mutant: the bytes above the write are taken from its start.
ReadPaddingAtOff ==
    /\ pc = "write" /\ ~WriteRejected
    /\ padding' = [add |-> ReadBytes(AlignedOff, AddPadding),
                   len |-> ReadBytes(AlignedOff, LenPadding)]
    /\ pc' = AfterPadding
    /\ UNCHANGED <<drvVars, deleted, rc, dst, request>>

ReadPadding ==
    /\ pc = "write" /\ ~WriteRejected
    /\ padding' = [add |-> ReadBytes(AlignedOff, AddPadding),
                   len |-> ReadBytes(call.off + call.len, LenPadding)]
    /\ pc' = AfterPadding
    /\ UNCHANGED <<drvVars, deleted, rc, dst, request>>

ReadPaddingFails ==
    /\ pc = "write"
    /\ WriteRejected \/ AddPadding > 0 \/ LenPadding > 0
    /\ Return(-1)
    /\ UNCHANGED <<drvVars, padding, deleted, dst, request>>

Program ==
    /\ pc \in {"first", "whole", "last"} /\ drv = Idle
    /\ IF Job.filled
       THEN /\ ProgramData(Job.addr, Job.data, Job.len \div DataWidth)
            /\ UNCHANGED <<pc, rc>>
       ELSE Return(-1) /\ UNCHANGED drv
    /\ UNCHANGED <<flash, padding, deleted, dst, request>>

\* Mutant: a failed ProgramData is not noticed.
ProgrammedUnchecked ==
    /\ pc \in {"first", "whole", "last"} /\ drv.op = "done"
    /\ drv' = Idle
    /\ pc' = AfterJob
    /\ UNCHANGED <<flash, padding, deleted, rc, dst, request>>

Programmed ==
    /\ pc \in {"first", "whole", "last"} /\ drv.op = "done"
    /\ drv' = Idle
    /\ IF drv.ret < 0 THEN Return(-1) ELSE pc' = AfterJob /\ UNCHANGED rc
    /\ UNCHANGED <<flash, padding, deleted, dst, request>>

(* flash_area_erase: the loop over the sectors.                            *)

\* Mutant: the loop erases once more when the length is reached.
EraseOnceMore ==
    /\ pc = "erase" /\ drv = Idle /\ deleted <= call.len
    /\ EraseSector(base + call.off + deleted)
    /\ UNCHANGED <<flash, pc, local, request>>

Erase ==
    /\ pc = "erase" /\ drv = Idle /\ deleted < call.len
    /\ EraseSector(base + call.off + deleted)
    /\ UNCHANGED <<flash, pc, local, request>>

\* Mutants: the loop does not advance; it goes on after an error.
SectorErasedStays ==
    /\ pc = "erase" /\ drv.op = "done"
    /\ drv' = Idle
    /\ IF drv.ret # 0 THEN Return(drv.ret) ELSE UNCHANGED <<pc, rc>>
    /\ UNCHANGED <<flash, padding, deleted, dst, request>>
SectorErasedUnchecked ==
    /\ pc = "erase" /\ drv.op = "done"
    /\ drv' = Idle
    /\ deleted' = deleted + SectorSize
    /\ UNCHANGED <<flash, pc, rc, padding, dst, request>>

SectorErased ==
    /\ pc = "erase" /\ drv.op = "done"
    /\ drv' = Idle
    /\ IF drv.ret # 0 THEN Return(drv.ret) /\ UNCHANGED deleted
                      ELSE deleted' = deleted + SectorSize /\ UNCHANGED <<pc, rc>>
    /\ UNCHANGED <<flash, padding, dst, request>>

EraseEnds ==
    /\ pc = "erase" /\ drv = Idle /\ deleted >= call.len
    /\ Return(OK)
    /\ UNCHANGED <<drvVars, padding, deleted, dst, request>>

Driver == DriverStep /\ UNCHANGED <<pc, local, request>>

Returned == pc = "return" /\ pc' = "idle" /\ UNCHANGED <<drvVars, local, request>>

(* Power is lost in the middle of a call: the device keeps what it has,    *)
(* the rest is gone.                                                       *)

PowerLoss ==
    /\ pc \notin {"idle", "off"}
    /\ FlashAfterPowerLoss
    /\ pc' = "off" /\ drv' = Idle
    /\ padding' = NoPadding /\ deleted' = 0 /\ rc' = OK /\ dst' = NoData
    /\ UNCHANGED request

Restart == pc = "off" /\ pc' = "idle" /\ UNCHANGED <<drvVars, local, request>>

Step == \/ ReadSucceeds \/ ReadFails
        \/ ReadPadding \/ ReadPaddingFails \/ Program \/ Programmed
        \/ Erase \/ SectorErased \/ EraseEnds
        \/ Driver \/ Returned

Init ==
    /\ flash \in Images
    /\ drv = Idle /\ pc = "idle"
    /\ call \in {[op |-> "read", area |-> area, off |-> 0, len |-> 0, src |-> NoData] :
                    area \in Areas}
    /\ padding = NoPadding /\ deleted = 0 /\ rc = OK /\ dst = NoData
    /\ pre = flash /\ calls = 0

Next == CallRead \/ CallErase \/ CallWrite \/ Step \/ PowerLoss \/ Restart

Spec == Init /\ [][Next]_vars

\* The code runs on: a call that has begun takes its next step.
FairSpec == Spec /\ WF_vars(Step)

-----------------------------------------------------------------------------
(* What the functions promise.                                             *)

\* The bytes a call may change, and what it is to leave there.
Target ==
    LET bytes == CASE call.op = "read"  -> 0
                   [] call.op = "write" -> call.len
                   [] call.op = "erase" -> IF IsSectorAligned(call.off)
                                           THEN Ceiling(call.len, SectorSize) ELSE 0
    IN  IF IsRangeValid(call.area, call.off, call.len)
        THEN {a \in Addr : base + call.off <= a /\ a < base + call.off + bytes}
        ELSE {}
Wanted(a) == IF call.op = "write" THEN pre[a] \cup call.src[a - (base + call.off) + 1]
                                  ELSE Erased

\* The unit or sector the driver handles in one command.
Chunk(a) == (a - MemoryBase) \div (IF call.op = "write" THEN ProgramUnit ELSE SectorSize)

TypeOK ==
    /\ DriverTypeOK
    /\ pc \in {"idle", "read", "write", "first", "whole", "last", "erase", "return", "off"}
    /\ call \in [op : {"read", "write", "erase"}, area : Areas, off : Word, len : Word,
                 src : Buffer]
    /\ padding \in [add : Buffer, len : Buffer]
    /\ deleted \in 0 .. fa_size[call.area]
    /\ rc \in Int /\ dst \in Buffer
    /\ pre \in [Addr -> Byte]
    /\ calls \in 0 .. MaxCalls

\* A call changes no byte it was not asked to change: a write that reads,
\* completes and programs whole units gives the bytes around its own back as
\* they were, an erase stays in the sectors it was given; whether the call
\* succeeds, fails or is cut short by a loss of power (flash_area_write,
\* flash_area_erase).
Confined == \A a \in Addr : a \notin Target => flash[a] = pre[a]

\* A write or an erase that returns 0 has done all of it: every byte of the
\* source programmed over what was there, every sector erased.
Complete ==
    (pc = "return" /\ rc = OK /\ call.op # "read") => \A a \in Target : flash[a] = Wanted(a)

\* A write works upwards, unit by unit, and an erase sector by sector: once a
\* byte has changed, everything in lower units or sectors is finished, so what
\* an error or a loss of power leaves is a finished part, one torn unit or
\* sector, and an untouched part.
InOrder ==
    \A a, b \in Target : Chunk(a) < Chunk(b) /\ flash[b] # pre[b] => flash[a] = Wanted(a)

\* A write only adds bits of its own source, even when it fails.
OnlySourceBits ==
    call.op = "write" =>
        \A a \in Target : pre[a] \subseteq flash[a] /\ flash[a] \subseteq Wanted(a)

\* flash_area_read gives the bytes at off, whatever the alignment of off and
\* len and however the read is cut into data items.
ReadExact ==
    (pc = "return" /\ rc = OK /\ call.op = "read") =>
        dst = [k \in 1 .. call.len |-> flash[base + call.off + k - 1]]

\* flash_area_read_is_empty says 1 only of bytes that lie in the area and are all
\* erased, and 0 only if one of them is not: a range that cannot be read, or
\* was not, is never taken for an empty one.
EmptyIsErased ==
    LET bytes == {base + call.off + k : k \in 0 .. call.len - 1}
    IN  pc = "return" /\ call.op = "read" =>
            /\ ReadIsEmpty = 1 => /\ bytes \subseteq AreaAddr(call.area)
                                 /\ \A a \in bytes : flash[a] = Erased
            /\ ReadIsEmpty = 0 => \E a \in bytes : flash[a] # Erased

\* Arguments the area admits are never refused later: the driver's parameter
\* checks and the checks flash_area_write makes of its own arithmetic pass.
NeverRefused ==
    /\ pc = "read" => ~ReadRejected(call.off, call.len)
    /\ pc = "write" => ~WriteRejected
    /\ pc \in {"first", "whole", "last"} => Job.filled /\ drv.ret # ERROR_PARAMETER
    /\ pc = "erase" /\ IsSectorAligned(call.off) => drv.ret # ERROR_PARAMETER

\* No step changes a byte of an area other than the one the call names: the
\* image slots and the scratch area share a device and its erase sectors.
OtherAreasUntouched ==
    [][\A area \in Areas \ {call.area} : \A a \in AreaAddr(area) : flash'[a] = flash[a]]_vars

\* Every call comes back, unless power is lost: no loop of the read, the
\* write, the erase or of the driver runs for ever.
CallReturns == pc \notin {"idle", "off"} ~> pc \in {"idle", "off"}

\* The calls implement the store: a call in flight is a busy request for the
\* bytes of its target, and only its own driver calls and the loss of power
\* move bytes of the device.
Store == INSTANCE FlashStore WITH
    store <- flash,
    goal <- [a \in Target |-> Wanted(a)],
    status <- CASE pc = "idle"   -> "none"
                [] pc = "off"    -> "lost"
                [] pc = "return" -> IF rc = OK THEN "done" ELSE "failed"
                [] OTHER         -> "busy"
ImplementsStore == Store!Spec
=============================================================================
