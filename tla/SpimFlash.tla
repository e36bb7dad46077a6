----------------------------- MODULE SpimFlash ------------------------------
(***************************************************************************)
(* Driver_FLASH2 of Driver_Flash.c with the SPIM driver (spim_drv.c), the  *)
(* flash map's erase above it and the NOR flash chip below it.             *)
(*                                                                         *)
(* Each driver function is one or more frames on the bus: select the chip, *)
(* send bytes, turn the direction and take bytes in, deselect.  The SPIM   *)
(* controller has no FIFO: the driver waits for each byte, or for each DMA *)
(* transfer, so a byte on the bus is one step.  What runs beside it is the *)
(* chip.  The driver polls the chip's status without a limit, in one       *)
(* frame; and the processor may be reset at any point, while the chip      *)
(* goes on with what it was doing.                                         *)
(***************************************************************************)
EXTENDS NorFlash

CONSTANTS
    FlashSize,    \* SPIM_DMM_SIZE, which is also sector_count * sector_size
    SectorSize,   \* NVT_NVSPIM_SECTOR_SIZE: 256, less than what the chip erases
    DataWidth,    \* bytes of a data item
    WordMod,      \* 2^32
    Source,       \* the bytes callers program
    Addrs, Counts,\* the addresses and item counts callers pass
    MaxCalls,     \* bound: calls made after Initialize
    MaxResets     \* bound: resets and losses of power

\* Callers come from flash_area_read and _write, whose own range check fails when
\* the end of a range does not fit a word.
ASSUME SpimAssumption ==
    /\ FlashSize \in Nat \ {0} /\ FlashSize <= ChipSize
    /\ SectorSize \in Nat \ {0} /\ EraseSize % SectorSize = 0
    /\ DataWidth \in Nat \ {0}
    /\ WordMod \in Nat /\ FlashSize < WordMod
    /\ Source \in Seq(Byte) /\ Len(Source) >= FlashSize
    /\ Addrs \subseteq Nat /\ Counts \subseteq Nat
    /\ \A addr \in Addrs, cnt \in Counts : addr + cnt * DataWidth < WordMod
    /\ MaxCalls \in Nat /\ MaxResets \in Nat
    /\ PageSize + 4 <= MaxFrame

VARIABLES
    stage,   \* the frame the driver is at, or about to send
    phase,   \* where in the frame
    sent,    \* bytes of the frame sent
    done,    \* bytes of the call dealt with: what addr and sz of the loops have moved
    status,  \* u8Status
    bytes,   \* the bytes received
    call,    \* the call being made, or made last, and what it returned
    calls,   \* calls made after Initialize
    mode,    \* OPMODE and QDIODIR of CTL0
    pre,     \* history: mem when the call was made
    owed,    \* history: the cells that the call, or what it found under way, may change
    resets

place == <<stage, phase, sent, done>>
request == <<call, calls, pre, owed, resets>>
vars == <<place, status, bytes, mode, chip, mem, request>>

OK == 0
ERROR == -1
ERROR_PARAMETER == -5

WIP == 1
WEL == 2

-----------------------------------------------------------------------------
(* The frames.                                                             *)

\* Mutant: the address stays at the first piece.
AddrStays == call.addr

\* ReadData and ProgramData go on in pieces of a page counted from addr,
\* flash_area_erase in steps of sector_size.
Addr == call.addr + done
Piece == IF call.op = "erase" THEN SectorSize
         ELSE IF call.len - done > PageSize THEN PageSize ELSE call.len - done

\* SPIFLASH_CheckStatus is called in three places.
Polling == stage \in {"Enabled", "Programmed", "Erased"}

\* Mutant: the digits of the address go out lowest first.
OutLowFirst ==
    CASE stage = "ReadID"      -> <<JEDEC_ID>>
      [] stage = "Read"        -> <<READ>> \o Digits(Addr)
      [] stage = "WriteEnable" -> <<WRITE_ENABLE>>
      [] Polling               -> <<READ_STATUS>>
      [] stage = "Program"     -> <<PAGE_PROGRAM>> \o Digits(Addr)
                                    \o SubSeq(Source, done + 1, done + Piece)
      [] stage = "Erase"       -> <<SECTOR_ERASE, Digits(Addr)[3], Digits(Addr)[2],
                                    Digits(Addr)[1]>>

\* What the driver, or the controller's DMA, sends in the frame.
Out ==
    CASE stage = "ReadID"      -> <<JEDEC_ID>>
      [] stage = "Read"        -> <<READ>> \o Digits(Addr)
      [] stage = "WriteEnable" -> <<WRITE_ENABLE>>
      [] Polling               -> <<READ_STATUS>>
      [] stage = "Program"     -> <<PAGE_PROGRAM>> \o Digits(Addr)
                                    \o SubSeq(Source, done + 1, done + Piece)
      [] stage = "Erase"       -> <<SECTOR_ERASE>> \o Digits(Addr)

\* Mutant: ReadID takes one byte too many.
InFour == CASE stage = "ReadID" -> 4 [] stage = "Read" -> Piece [] OTHER -> 0

\* How many bytes it takes in, when it is not polling.
In == CASE stage = "ReadID" -> 3 [] stage = "Read" -> Piece [] OTHER -> 0

\* The DMA frames are sent and received in page mode.
ModeOut == IF stage \in {"Read", "Program"} THEN "page" ELSE "out"
ModeIn == IF stage = "Read" THEN "page" ELSE "in"

\* Mutant: one look at the status is enough.
SeenAny(value) == TRUE

\* The status that ends the polling: write enabled and not busy, or not busy.
Seen(value) == IF stage = "Enabled" THEN BitAnd(value, WEL + WIP) = WEL
                                    ELSE BitAnd(value, WIP) = 0

-----------------------------------------------------------------------------
(* The calls.                                                              *)

Begins(op) == CASE op = "init" -> "ReadID" [] op = "read" -> "Read" [] OTHER -> "WriteEnable"

InRange(addr, len) == (addr + len) % WordMod <= FlashSize
Span(addr, len) == {a \in Cell : addr <= a /\ a < addr + len}

Begin(op, addr, len, accepted, cells) ==
    /\ call' = [op |-> op, addr |-> addr, len |-> len,
                at |-> IF accepted THEN "running" ELSE "returned",
                ret |-> IF accepted THEN OK ELSE ERROR_PARAMETER]
    /\ stage' = IF accepted /\ (len > 0 \/ op = "init") THEN Begins(op) ELSE "end"
    /\ phase' = "select" /\ sent' = 0 /\ done' = 0 /\ status' = 0 /\ bytes' = <<>>
    /\ pre' = mem
    /\ owed' = (IF accepted THEN cells ELSE {}) \cup (IF Busy THEN owed ELSE {})
    /\ UNCHANGED <<chip, mem, resets>>

\* ARM_Flash_Initialize_SPIM, NVT_NVSPIM_Init: the controller is reset and the
\* chip's id read.
Initialize ==
    /\ call.op = "none"
    /\ Begin("init", 0, 0, TRUE, {})
    /\ mode' = "out"
    /\ UNCHANGED calls

\* A call after Initialize has returned OK; when it has not, the boot stops.
Up == call.at = "returned" /\ (call.op = "init" => call.ret = OK)

CallRead(addr, len) == Begin("read", addr, len, InRange(addr, len), {})
CallProgram(addr, len) ==
    Begin("program", addr, len, InRange(addr, len), UNION {Page(a) : a \in Span(addr, len)})

\* flash_area_erase refuses what is not in its area; the area is the device.  The
\* check of EraseSector, which lets one address more through, then always passes.
CallErase(addr, len) ==
    Begin("erase", addr, len, addr + len <= FlashSize, UNION {Sector(a) : a \in Span(addr, len)})

Call ==
    /\ Up /\ calls < MaxCalls /\ calls' = calls + 1
    /\ \E addr \in Addrs, cnt \in Counts :
          LET len == cnt * DataWidth
          IN  CallRead(addr, len) \/ CallProgram(addr, len) \/ CallErase(addr, len)
    /\ UNCHANGED mode

-----------------------------------------------------------------------------
(* A frame.                                                                *)

Select ==
    /\ stage # "end" /\ phase = "select"
    /\ phase' = "send" /\ sent' = 0
    /\ mode' = ModeOut
    /\ UNCHANGED <<stage, done, status, bytes, chip, mem, request>>

\* A byte on the bus; SPIM_WAIT_FREE is over when it has been sent.
Transfer(b, m) == chip' = [chip EXCEPT !.frame = Heard(b, mode = m)]
Got(m) == Answer(Heard(0, mode = m))

SendByte ==
    /\ phase = "send" /\ sent < Len(Out)
    /\ Transfer(Out[sent + 1], ModeOut)
    /\ sent' = sent + 1
    /\ UNCHANGED <<stage, phase, done, status, bytes, mode, mem, request>>

Turn ==
    /\ phase = "send" /\ sent = Len(Out)
    /\ IF Polling \/ In > 0 THEN phase' = "receive" /\ mode' = ModeIn
                            ELSE phase' = "release" /\ UNCHANGED mode
    /\ UNCHANGED <<stage, sent, done, status, bytes, chip, mem, request>>

GetByte ==
    /\ phase = "receive" /\ ~Polling
    /\ Transfer(0, ModeIn)
    /\ bytes' = Append(bytes, Got(ModeIn))
    /\ phase' = IF Len(bytes) + 1 = done + In THEN "release" ELSE "receive"
    /\ UNCHANGED <<stage, sent, done, status, mode, mem, request>>

Poll ==
    /\ phase = "receive" /\ Polling
    /\ Transfer(0, ModeIn)
    /\ status' = Got(ModeIn)
    /\ phase' = IF Seen(status') THEN "release" ELSE "receive"
    /\ UNCHANGED <<stage, sent, done, bytes, mode, mem, request>>

Release ==
    /\ phase = "release"
    /\ chip' \in Deselected(chip.frame)
    /\ phase' = "next"
    /\ UNCHANGED <<stage, sent, done, status, bytes, mode, mem, request>>

-----------------------------------------------------------------------------
(* Between frames.                                                         *)

Go(next) == stage' = next /\ phase' = "select" /\ UNCHANGED <<sent, done, call>>
Leave(ret) ==
    /\ stage' = "end" /\ phase' = "select"
    /\ call' = [call EXCEPT !.ret = ret]
    /\ UNCHANGED <<sent, done>>

NextPiece ==
    /\ done' = done + Piece
    /\ stage' = IF done' < call.len THEN Begins(call.op) ELSE "end"
    /\ phase' = "select"
    /\ UNCHANGED <<sent, call>>

\* Mutant: only an id of zeroes is refused.
IsIdNonZero(id) == id # <<0, 0, 0>>

IsId(id) == id # <<0, 0, 0>> /\ id # <<255, 255, 255>>

Between == phase = "next" /\ UNCHANGED <<status, bytes, mode, chip, mem, calls, pre, owed, resets>>

CheckId ==
    /\ Between /\ stage = "ReadID"
    /\ Leave(IF IsId(bytes) THEN OK ELSE ERROR)

PieceRead == Between /\ stage = "Read" /\ NextPiece

CheckEnabled == Between /\ stage = "WriteEnable" /\ Go("Enabled")

\* The write enable latch is tested once more.
Enabled ==
    /\ Between /\ stage = "Enabled"
    /\ IF BitAnd(status, WEL) = 0 THEN Leave(ERROR)
       ELSE Go(IF call.op = "program" THEN "Program" ELSE "Erase")

\* Mutant: the end of the erase is not waited for.
CheckDoneUnwaited ==
    \/ Between /\ stage = "Program" /\ Go("Programmed")
    \/ Between /\ stage = "Erase" /\ NextPiece

CheckDone ==
    \/ Between /\ stage = "Program" /\ Go("Programmed")
    \/ Between /\ stage = "Erase" /\ Go("Erased")

\* Mutant: the status after the program is not looked at.
PieceProgrammedUnchecked == Between /\ stage = "Programmed" /\ NextPiece

\* Any status bit left is an error.
PieceProgrammed ==
    /\ Between /\ stage = "Programmed"
    /\ IF status # 0 THEN Leave(ERROR) ELSE NextPiece

\* The status after an erase is waited for and not looked at.
PieceErased == Between /\ stage = "Erased" /\ NextPiece

Return ==
    /\ stage = "end" /\ call.at = "running"
    /\ call' = [call EXCEPT !.at = "returned"]
    /\ UNCHANGED <<place, status, bytes, mode, chip, mem, calls, pre, owed, resets>>

DriverStep ==
    \/ Select \/ SendByte \/ Turn \/ GetByte \/ Poll \/ Release
    \/ CheckId \/ PieceRead \/ CheckEnabled \/ Enabled \/ CheckDone
    \/ PieceProgrammed \/ PieceErased \/ Return

-----------------------------------------------------------------------------
NoCall == [op |-> "none", addr |-> 0, len |-> 0, at |-> "none", ret |-> OK]

\* The processor and its controller start anew.  When only they are reset, the chip
\* is deselected, which may start a program that had not all its data, and goes on
\* with what it is doing.
Restart ==
    /\ resets < MaxResets /\ resets' = resets + 1
    /\ stage' = "end" /\ phase' = "select" /\ sent' = 0 /\ done' = 0
    /\ status' = 0 /\ bytes' = <<>> /\ mode' = "out" /\ call' = NoCall
    /\ UNCHANGED <<calls, pre, owed>>
Reset == Restart /\ chip' \in Deselected(chip.frame) /\ UNCHANGED mem
PowerLoss == Restart /\ ChipLosesPower

ChipStep == ChipEnds /\ UNCHANGED <<place, status, bytes, mode, request>>

Init ==
    /\ stage = "end" /\ phase = "select" /\ sent = 0 /\ done = 0
    /\ status = 0 /\ bytes = <<>> /\ mode = "out" /\ call = NoCall
    /\ ChipInit /\ pre = mem /\ owed = {} /\ calls = 0 /\ resets = 0

Next == Initialize \/ Call \/ DriverStep \/ ChipStep \/ Reset \/ PowerLoss

Spec == Init /\ [][Next]_vars

\* The processor runs on, and the chip ends what it executes: without that the
\* driver, which polls for ever, could not return.
FairSpec == Spec /\ WF_vars(DriverStep) /\ WF_vars(ChipStep)

-----------------------------------------------------------------------------
(* What the driver promises.                                               *)

TypeOK ==
    /\ stage \in {"ReadID", "Read", "WriteEnable", "Enabled", "Program", "Programmed",
                  "Erase", "Erased", "end"}
    /\ phase \in {"select", "send", "receive", "release", "next"}
    /\ sent \in Nat /\ done \in Nat
    /\ status \in Byte /\ bytes \in Seq(Byte)
    /\ call.op = "init" => Len(bytes) <= 3
    /\ call \in [op : {"none", "init", "read", "program", "erase"}, addr : Nat, len : Nat,
                 at : {"none", "running", "returned"}, ret : {OK, ERROR, ERROR_PARAMETER}]
    /\ calls \in 0 .. MaxCalls /\ resets \in 0 .. MaxResets
    /\ mode \in {"out", "in", "page"}
    /\ ChipTypeOK
    /\ pre \in [Cell -> Byte] /\ owed \subseteq Cell

Returned(op) == call.at = "returned" /\ call.op = op /\ call.ret = OK

\* Whenever a call may be made the chip is idle: after a reset in the middle of
\* an erase Initialize returns OK only once the chip is done, because a busy chip
\* gives an id of ones; and no call returns before the chip has ended its
\* command, whether it succeeds or not.
Ready == Up => ~Busy

\* flash_area_erase on the SPIM flash, from the start of a sector by the driver's
\* count, that returns 0 has erased every byte it was asked to, although the chip's
\* sectors are larger (a protected chip erases nothing, which the driver does not notice).
EraseDone ==
    Returned("erase") /\ chip.sr1 = 0 /\ call.addr % SectorSize = 0 =>
        \A a \in Span(call.addr, call.len) : mem[a] = 255

\* Each page program stays within its page, so pieces counted from addr fit only
\* when addr begins a page or the range ends within it.
FitsPages(addr, len) == addr % PageSize = 0 \/ (addr % PageSize) + len <= PageSize
Programmed(addr, len) ==
    /\ addr + len <= FlashSize
    /\ \A k \in 1 .. len : mem[addr + k - 1] = BitAnd(pre[addr + k - 1], Source[k])

\* ProgramData of pieces that fit their pages returns OK only when every byte is
\* programmed: on a protected chip it fails.
ProgramDone ==
    Returned("program") /\ FitsPages(call.addr, call.len) => Programmed(call.addr, call.len)

\* ReadData gives the bytes of the chip from addr on, piece after piece, and
\* nothing from beyond the device.
ReadExact ==
    Returned("read") =>
        /\ call.addr + Len(bytes) <= FlashSize
        /\ Len(bytes) = call.len
        /\ \A k \in 1 .. Len(bytes) : bytes[k] = mem[call.addr + k - 1]

\* No byte changes but those in the chip's sectors an erase asks for or the pages a
\* program asks for, now or by a command of an earlier call that a reset cut off.
Confined == \A a \in Cell : mem[a] # pre[a] => a \in owed

\* Every call returns although the polling has no limit, also after resets at any
\* point: it never waits for a write enable that a busy chip has not heard.
CallsReturn == call.at = "running" ~> call.at # "running"

\* Any item address is one ProgramData can program: program_unit is 4, a page 256.
ProgramAnywhere ==
    Returned("program") => Programmed(call.addr, call.len)
=============================================================================
