----------------------------- MODULE CmsisFlash -----------------------------
(***************************************************************************)
(* The CMSIS driver of one on-chip flash device (Driver_FLASH0, the APROM, *)
(* or Driver_FLASH1, the LDROM, of Driver_Flash.c) over the NVMC           *)
(* controller.  A driver call is begun by its caller and then moves one    *)
(* NVMC command at a time: ProgramData programs one program unit per step, *)
(* so a failing command or a loss of power can fall between any two units. *)
(*                                                                         *)
(* A byte is the set of its bits that are programmed: the erased byte 0xFF *)
(* is {}, and programming can only add bits.                               *)
(***************************************************************************)
EXTENDS Integers, Sequences

CONSTANTS
    WordMod,       \* 2^32: addresses and lengths are uint32_t
    MemoryBase,    \* memory_base of the device
    SectorSize,    \* sector_size: the bytes one erase command erases
    SectorCount,   \* sector_count
    ProgramUnit,   \* program_unit: 8 bytes on FMC parts, 4 on RMC parts
    DataWidth,     \* bytes of a data item (data_width_byte[data_width])
    Bits,          \* the bits of a byte
    Garbage        \* what a sector may hold when its erase is cut short

Byte == SUBSET Bits
Erased == {}
FlashSize == SectorCount * SectorSize
Addr == MemoryBase .. (MemoryBase + FlashSize - 1)
Word == 0 .. (WordMod - 1)
Buffer == Seq(Byte)            \* b[k] in C is b[k + 1] here

ASSUME DriverAssumption ==
    /\ WordMod \in Nat /\ MemoryBase \in Nat
    /\ SectorSize \in Nat \ {0} /\ SectorCount \in Nat \ {0}
    /\ ProgramUnit \in Nat \ {0} /\ DataWidth \in Nat \ {0}
    /\ MemoryBase + FlashSize < WordMod
    /\ MemoryBase % SectorSize = 0 /\ MemoryBase % ProgramUnit = 0
    /\ Garbage \subseteq [0 .. (SectorSize - 1) -> Byte]

VARIABLES
    flash,   \* the contents of the device, which survive a loss of power
    drv      \* the driver call in progress

drvVars == <<flash, drv>>

OK == 0
ERROR == -1             \* ARM_DRIVER_ERROR
ERROR_PARAMETER == -5   \* ARM_DRIVER_ERROR_PARAMETER

NoData == <<>>

Idle == [op |-> "idle", addr |-> 0, sz |-> 0, data |-> NoData, dst |-> 0, ret |-> OK]
Done(ret) == [op |-> "done", addr |-> 0, sz |-> 0, data |-> NoData, dst |-> 0, ret |-> ret]

\* is_range_valid_internal: the difference wraps as a uint32_t does.
InRange(addr) == (addr - MemoryBase) % WordMod < FlashSize

IsWriteAligned(n) == n % ProgramUnit = 0
IsSectorAligned(addr) == addr % SectorSize = 0

\* The boundary check of ReadData and ProgramData looks at the last byte only.
\* Mutant: off by one at the end of the device.
LastByteInRangePast(addr, sz) == InRange(addr + sz)

LastByteInRange(addr, sz) == InRange(addr + sz - 1)

-----------------------------------------------------------------------------
(* ProgramData: the parameter checks, then one NVMC command per unit.      *)

ProgramData(addr, data, cnt) ==
    LET sz == cnt * DataWidth
    IN  IF LastByteInRange(addr, sz) /\ IsWriteAligned(addr) /\ IsWriteAligned(sz)
        THEN drv' = [op |-> "program", addr |-> addr, sz |-> sz,
                     data |-> data, dst |-> 0, ret |-> OK]
        ELSE drv' = Done(ERROR_PARAMETER)

Programming == drv.op = "program" /\ drv.dst < drv.sz

\* The addresses of the unit the loop is at, and the byte of the buffer each gets.
UnitAddr == {a \in Addr : /\ drv.addr + drv.dst <= a
                          /\ a < drv.addr + drv.dst + ProgramUnit}
UnitByte(a) == drv.data[a - drv.addr + 1]

\* A program command that is cut short sets some of the bits it had to set.
NewBits == {p \in UnitAddr \X Bits : p[2] \in UnitByte(p[1]) \ flash[p[1]]}
WithBits(got) == [a \in Addr |-> flash[a] \cup {b \in Bits : <<a, b>> \in got}]

NvmcProgram ==
    /\ Programming
    /\ flash' = [a \in Addr |-> IF a \in UnitAddr THEN flash[a] \cup UnitByte(a)
                                                  ELSE flash[a]]
    /\ drv' = [drv EXCEPT !.dst = @ + ProgramUnit]

NvmcProgramFails ==
    /\ Programming
    /\ \E got \in SUBSET NewBits : flash' = WithBits(got)
    /\ drv' = Done(ERROR)

ProgramReturns ==
    /\ drv.op = "program" /\ drv.dst >= drv.sz
    /\ drv' = Done(drv.sz \div DataWidth)
    /\ UNCHANGED flash

-----------------------------------------------------------------------------
(* EraseSector: the parameter checks, then one NVMC command.               *)

EraseSector(addr) ==
    IF InRange(addr) /\ IsSectorAligned(addr)
    THEN drv' = [op |-> "erase", addr |-> addr, sz |-> 0, data |-> NoData, dst |-> 0, ret |-> OK]
    ELSE drv' = Done(ERROR_PARAMETER)

Sector(addr) == {a \in Addr : addr <= a /\ a < addr + SectorSize}
WithSector(addr, image) ==
    [a \in Addr |-> IF a \in Sector(addr) THEN image[a - addr] ELSE flash[a]]

NvmcErase ==
    /\ drv.op = "erase"
    /\ flash' = WithSector(drv.addr, [k \in 0 .. (SectorSize - 1) |-> Erased])
    /\ drv' = Done(OK)

\* A refused command leaves the sector alone, one cut short leaves garbage.
NvmcEraseFails ==
    /\ drv.op = "erase"
    /\ \/ UNCHANGED flash
       \/ \E image \in Garbage : flash' = WithSector(drv.addr, image)
    /\ drv' = Done(ERROR)

DriverStep ==
    \/ NvmcProgram \/ NvmcProgramFails \/ ProgramReturns
    \/ NvmcErase \/ NvmcEraseFails

-----------------------------------------------------------------------------
(* What a loss of power leaves in the device.                              *)

FlashAfterPowerLoss ==
    \/ UNCHANGED flash
    \/ Programming /\ \E got \in SUBSET NewBits : flash' = WithBits(got)
    \/ drv.op = "erase" /\ \E image \in Garbage : flash' = WithSector(drv.addr, image)

DriverTypeOK ==
    /\ flash \in [Addr -> Byte]
    /\ drv \in [op : {"idle", "program", "erase", "done"}, addr : Nat, sz : Nat,
                data : Buffer, dst : Nat, ret : Int]
=============================================================================
