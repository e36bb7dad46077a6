------------------------------ MODULE SpiFlash ------------------------------
(***************************************************************************)
(* Driver_FLASH2 of Driver_Flash.c with the SPI (spi_drv.c) or the QSPI    *)
(* (qspi_drv.c) driver, the serial controller and the NOR flash chip.      *)
(*                                                                         *)
(* A driver function is a row of frames: select the chip, write bytes to   *)
(* the transmit FIFO, wait until the controller is idle, read or clear the *)
(* receive FIFO, deselect.  Each of these accesses is a step.  The         *)
(* controller shifts the bytes out on its own, one byte in for each byte   *)
(* out, and the chip erases on its own; a wait gives up after a second     *)
(* without telling its caller.  One byte more or less in the receive FIFO, *)
(* or a chip that is still busy, and every later answer means something    *)
(* else.                                                                   *)
(***************************************************************************)
EXTENDS NorFlash

CONSTANTS
    Builds,       \* which driver is built, with what (see below)
    FlashSize,    \* sector_count * sector_size of the device
    DataWidth,    \* bytes of a data item
    FifoDepth,    \* entries of the controller's FIFOs: 8
    MaxPolls,     \* SystemCoreClock: what WaitReady counts down from
    KnownIds,     \* the JEDEC ids the driver accepts
    Addrs, Counts,\* the addresses and item counts callers pass
    Beyond,       \* the byte behind a caller's data
    Stalls,       \* bound: whether the controller may stall for over a second
    MaxCalls,     \* bound: calls made after Initialize
    MaxResets     \* bound: resets and losses of power

ASSUME SpiAssumption ==
    /\ Builds \subseteq {"spi", "qspi", "qspi_quad"}
    /\ FlashSize \in Nat \ {0} /\ DataWidth \in Nat \ {0}
    /\ FifoDepth \in Nat /\ FifoDepth >= 8 /\ MaxPolls \in Nat /\ MaxPolls >= 2
    /\ KnownIds \subseteq Byte \X Byte \X Byte /\ <<255, 255, 255>> \notin KnownIds
    /\ Addrs \subseteq Nat /\ Counts \subseteq Nat /\ Beyond \in Byte
    /\ Stalls \in BOOLEAN /\ MaxCalls \in Nat /\ MaxResets \in Nat
    /\ PageSize + 7 <= MaxFrame

VARIABLES
    build,   \* spi_drv.c; qspi_drv.c; qspi_drv.c with ENABLE_QUAD_MODE
    stage,   \* the frame the driver is at, or about to send
    phase,   \* where in the frame
    sent,    \* bytes of the frame written to the transmit FIFO, data not counted
    done,    \* bytes of the call dealt with: what addr and sz of the loops have moved
    qe,      \* the QE bit to be set: spiFlash_EnableQEBit, or spiFlash_DisableQEBit
    cpu,     \* the driver's locals: status value, registers read, poll count, bytes stored
    call,    \* the call being made, or made last, and what it returned
    calls,   \* calls made after Initialize
    ctl,     \* the controller: chip select, FIFOs, lines
    pre,     \* history: mem when the call was made
    owed,    \* history: the cells that the call, or what it found under way, may change
    hist,    \* history: a bus wait has ever given up; WaitReady has since the reset;
             \* a reset has ever cut a status write
    resets

place == <<stage, phase, sent, done, qe>>
driver == <<place, cpu, call>>
kept == <<build, calls, mem, pre, owed, resets>>
vars == <<kept, driver, ctl, chip, hist>>

OK == 0
ERROR == -1
ERROR_PARAMETER == -5

Qspi == build # "spi"
QuadMode == build = "qspi_quad"

-----------------------------------------------------------------------------
(* The frames.                                                             *)

\* ReadData and ProgramData go on in pieces of a page counted from addr.
Addr == call.addr + done
Piece == IF call.len - done > PageSize THEN PageSize ELSE call.len - done

\* Mutant: the digits of the address go out lowest first.
CommandLowFirst(cmd) == <<cmd, Digits(Addr)[3], Digits(Addr)[2], Digits(Addr)[1]>>

Command(cmd) == <<cmd>> \o Digits(Addr)

\* SpiFlash_ReadStatusReg is called in WaitReady and, with SpiFlash_ReadStatusReg2,
\* before the QE bit is changed.
OfStatus(s) == s \in {"Status1", "Status2", "Poll"}

\* Mutant: the registers are written in the wrong order.
OutSwapped ==
    CASE stage = "ReadID"             -> <<JEDEC_ID, 0, 0, 0, 0>>
      [] stage \in {"Status1", "Poll"} -> <<READ_STATUS, 0>>
      [] stage = "Status2"            -> <<READ_STATUS2, 0>>
      [] stage = "WriteEnable"        -> <<WRITE_ENABLE>>
      [] stage = "WriteStatus"        -> <<WRITE_STATUS, cpu.reg2, cpu.reg1>>
      [] stage = "Read" /\ ~QuadMode  -> Command(READ)
      [] stage = "Read" /\ QuadMode   -> Command(FAST_READ_QUAD) \o <<0, 0, 0>>
      [] stage = "Program"            -> Command(PAGE_PROGRAM)
      [] stage = "Erase"              -> Command(SECTOR_ERASE)

\* What the driver sends in the frame before its data: a quad read has three dummy
\* bytes after the address.
Out ==
    CASE stage = "ReadID"             -> <<JEDEC_ID, 0, 0, 0, 0>>
      [] stage \in {"Status1", "Poll"} -> <<READ_STATUS, 0>>
      [] stage = "Status2"            -> <<READ_STATUS2, 0>>
      [] stage = "WriteEnable"        -> <<WRITE_ENABLE>>
      [] stage = "WriteStatus"        -> <<WRITE_STATUS, cpu.reg1, cpu.reg2>>
      [] stage = "Read" /\ ~QuadMode  -> Command(READ)
      [] stage = "Read" /\ QuadMode   -> Command(FAST_READ_QUAD) \o <<0, 0, 0>>
      [] stage = "Program"            -> Command(PAGE_PROGRAM)
      [] stage = "Erase"              -> Command(SECTOR_ERASE)

\* The driver waits for the controller after these bytes.  NVT_NV(Q)SPI_Program does
\* not: it goes on to its loop.
Waits == (IF stage = "Program" THEN {} ELSE {Len(Out)})
         \cup IF stage = "Read" /\ Qspi THEN {1} ELSE {}

-----------------------------------------------------------------------------
(* The driver layer: ReadData, ProgramData and EraseSector check the first *)
(* address only.                                                           *)

InRange(addr) == addr < FlashSize
Span(addr, len) == {a \in Cell : addr <= a /\ a < addr + len}

NoCall == [op |-> "none", addr |-> 0, len |-> 0, at |-> "none", ret |-> OK]
NoTraffic == [ss |-> "high", tx |-> <<>>, rx |-> <<>>, mode |-> "single"]
NoLocals == [val |-> 0, reg1 |-> 0, reg2 |-> 0, polls |-> 0, stored |-> <<>>]

Begins(op) == CASE op = "init" -> "ReadID"
                [] op = "read" -> IF QuadMode THEN "Status1" ELSE "Read"
                [] OTHER       -> "WriteEnable"

\* SpiFlash_ReadStatusReg of qspi_drv.c empties the receive FIFO first; WaitReady
\* counts down first.
Start(s) == IF s = "Poll" THEN "count"
            ELSE IF OfStatus(s) /\ Qspi THEN "empty" ELSE "select"

Begin(op, addr, len, accepted, cells) ==
    /\ call' = [op |-> op, addr |-> addr, len |-> len,
                at |-> IF accepted THEN "running" ELSE "returned",
                ret |-> IF accepted THEN OK ELSE ERROR_PARAMETER]
    /\ stage' = IF accepted /\ (op \in {"read", "program"} => len > 0)
                THEN Begins(op) ELSE "end"
    /\ phase' = Start(stage') /\ sent' = 0 /\ done' = 0 /\ qe' = 2
    /\ cpu' = NoLocals
    /\ pre' = mem
    /\ owed' = (IF accepted THEN cells ELSE {}) \cup (IF Busy THEN owed ELSE {})
    /\ UNCHANGED <<build, ctl, chip, mem, hist, resets>>

\* flash_area_driver_init calls Initialize first and gives up when it fails.
Initialize ==
    /\ call.op = "none"
    /\ Begin("init", 0, 0, TRUE, {})
    /\ UNCHANGED calls

Up == call.at = "returned" /\ (call.op = "init" => call.ret = OK)

CallRead(addr, len) == Begin("read", addr, len, InRange(addr), {})
CallProgram(addr, len) ==
    Begin("program", addr, len, InRange(addr), UNION {Page(a) : a \in Span(addr, len)})
CallErase(addr) == Begin("erase", addr, 0, InRange(addr), Sector(addr))

Call ==
    /\ Up /\ calls < MaxCalls /\ calls' = calls + 1
    /\ \E addr \in Addrs :
          \/ \E cnt \in Counts : LET len == cnt * DataWidth
                                 IN  CallRead(addr, len) \/ CallProgram(addr, len)
          \/ CallErase(addr)

-----------------------------------------------------------------------------
(* A frame.                                                                *)

\* Mutant: the bytes received with the command and the address are not cleared.
ClearRxNot ==
    /\ phase \in {"empty", "clear"}
    /\ phase' = IF phase = "empty" THEN "select"
                ELSE IF stage = "Read" THEN "feed" ELSE "release"
    /\ UNCHANGED <<stage, sent, done, qe, cpu, call, ctl, chip, hist, kept>>

\* The receive FIFO is cleared before a status is read, and after a command with an
\* address.
ClearRx ==
    /\ phase \in {"empty", "clear"}
    /\ ctl' = [ctl EXCEPT !.rx = <<>>]
    /\ phase' = IF phase = "empty" THEN "select"
                ELSE IF stage = "Read" THEN "feed" ELSE "release"
    /\ UNCHANGED <<stage, sent, done, qe, cpu, call, chip, hist, kept>>

Select ==
    /\ stage # "end" /\ phase = "select"
    /\ phase' = "send"
    /\ ctl' = [ctl EXCEPT !.ss = "low"]
    /\ UNCHANGED <<stage, sent, done, qe, cpu, call, chip, hist, kept>>

\* A byte written to a full FIFO is dropped.
Fitting(s) == IF Len(s) <= FifoDepth THEN s ELSE SubSeq(s, 1, FifoDepth)
Queue(bytes) == ctl' = [ctl EXCEPT !.tx = Fitting(@ \o bytes)]

WriteTx ==
    /\ phase = "send"
    /\ Queue(<<Out[sent + 1]>>)
    /\ sent' = sent + 1
    /\ phase' = IF sent' \in Waits THEN "wait"
                ELSE IF sent' = Len(Out) THEN "spin" ELSE "send"
    /\ UNCHANGED <<stage, done, qe, cpu, call, chip, hist, kept>>

\* while(1): what is sent is buf[len], again and again.
Spin ==
    /\ phase = "spin" /\ Len(ctl.tx) < FifoDepth
    /\ Queue([k \in 1 .. Piece |-> Beyond])
    /\ UNCHANGED <<driver, chip, hist, kept>>

\* For each byte read one is sent.
Feed ==
    /\ phase = "feed" /\ phase' = "fetch"
    /\ Queue(<<0>>)
    /\ UNCHANGED <<stage, sent, done, qe, cpu, call, chip, hist, kept>>

Waiting == phase \in {"wait", "fetch", "last"}

Waited ==
    /\ phase' = CASE phase = "fetch" -> "store"
                  [] phase = "last"  -> "release"
                  [] phase = "wait"  ->
                       IF stage = "Read" /\ QuadMode THEN "lines"
                       ELSE IF sent < Len(Out) THEN "send"
                       ELSE IF stage \in {"Read", "Erase"} THEN "clear" ELSE "release"
    /\ UNCHANGED <<stage, sent, done, qe, cpu, call, ctl, chip, kept>>

\* wait_(Q)SPI_IS_BUSY: the controller is idle, or the count has run out.
WaitIdle == Waiting /\ ctl.tx = <<>> /\ Waited /\ UNCHANGED hist

\* Mutant: the wait has no count.
WaitForever ==
    /\ Stalls /\ Waiting /\ ctl.tx # <<>>
    /\ UNCHANGED vars

WaitGivesUp ==
    /\ Stalls /\ Waiting /\ ctl.tx # <<>> /\ Waited
    /\ hist' = [hist EXCEPT !.stuck = TRUE]

\* An empty FIFO gives a byte that means nothing.
Received == IF ctl.rx = <<>> THEN {0, 255} ELSE {Head(ctl.rx)}
Taken == ctl' = [ctl EXCEPT !.rx = IF @ = <<>> THEN @ ELSE Tail(@)]

Store ==
    /\ phase = "store" /\ Taken
    /\ \E b \in Received : cpu' = [cpu EXCEPT !.stored = Append(@, b)]
    /\ phase' = IF Len(cpu.stored) + 1 < done + Piece THEN "feed" ELSE "last"
    /\ UNCHANGED <<stage, sent, done, qe, call, chip, hist, kept>>

\* Mutant: the lines stay in quad mode.
SetLinesNoSingle ==
    /\ phase \in {"lines", "single"}
    /\ phase' = IF phase = "single" THEN "next"
                ELSE IF sent < Len(Out) THEN "send" ELSE "clear"
    /\ ctl' = [ctl EXCEPT !.mode = IF sent < Len(Out) THEN "out" ELSE "in"]
    /\ UNCHANGED <<stage, sent, done, qe, cpu, call, chip, hist, kept>>

\* A quad read sends its command on one line, the address and the dummy bytes on
\* four, and takes the data in on four.
SetLines ==
    /\ phase \in {"lines", "single"}
    /\ phase' = IF phase = "single" THEN "next"
                ELSE IF sent < Len(Out) THEN "send" ELSE "clear"
    /\ ctl' = [ctl EXCEPT !.mode = IF phase = "single" THEN "single"
                                   ELSE IF sent < Len(Out) THEN "out" ELSE "in"]
    /\ UNCHANGED <<stage, sent, done, qe, cpu, call, chip, hist, kept>>

Release ==
    /\ phase = "release"
    /\ ctl' = [ctl EXCEPT !.ss = "high"]
    /\ chip' \in Deselected(chip.frame)
    /\ phase' = CASE stage = "ReadID"            -> "drain"
                  [] OfStatus(stage)             -> "skip"
                  [] stage = "Read" /\ QuadMode  -> "single"
                  [] OTHER                       -> "next"
    /\ UNCHANGED <<stage, sent, done, qe, cpu, call, hist, kept>>

\* Mutant: the byte received for the command is taken for the status.
ReadRxUnskipped ==
    /\ phase \in {"skip", "take"} /\ Taken
    /\ \E b \in Received : cpu' = [cpu EXCEPT !.val = b]
    /\ phase' = "next"
    /\ UNCHANGED <<stage, sent, done, qe, call, chip, hist, kept>>

\* The first byte was received for the command, the second is the status.
ReadRx ==
    /\ phase \in {"skip", "take"} /\ Taken
    /\ \E b \in Received : cpu' = [cpu EXCEPT !.val = b]
    /\ phase' = IF phase = "skip" THEN "take" ELSE "next"
    /\ UNCHANGED <<stage, sent, done, qe, call, chip, hist, kept>>

\* The id's bytes are stored as long as there are any.
Drain ==
    /\ phase = "drain"
    /\ IF ctl.rx # <<>>
       THEN /\ Taken /\ UNCHANGED phase
            /\ cpu' = [cpu EXCEPT !.stored = Append(@, Head(ctl.rx))]
       ELSE phase' = "next" /\ UNCHANGED <<cpu, ctl>>
    /\ UNCHANGED <<stage, sent, done, qe, call, chip, hist, kept>>

-----------------------------------------------------------------------------
(* Between frames.                                                         *)

Go(next) == stage' = next /\ phase' = Start(next) /\ sent' = 0 /\ UNCHANGED <<done, call>>
Leave(ret) ==
    /\ stage' = "end" /\ phase' = "select" /\ sent' = 0
    /\ call' = [call EXCEPT !.ret = ret]
    /\ UNCHANGED <<done, qe>>

NextPiece ==
    /\ done' = done + Piece
    /\ stage' = IF done' < call.len THEN Begins(call.op) ELSE "end"
    /\ phase' = Start(stage') /\ sent' = 0 /\ qe' = 2
    /\ UNCHANGED call

Between == phase = "next" /\ UNCHANGED <<ctl, chip, hist, kept>>

\* Mutant: any id will do.
IsKnownAny(id) == TRUE

IsKnown(id) == id \in KnownIds

\* Bytes 2 to 4 of those received; a byte that was not received is whatever the
\* array held.
CheckId ==
    /\ Between /\ stage = "ReadID"
    /\ \E known \in IF Len(cpu.stored) >= 4
                    THEN {IsKnown(<<cpu.stored[2], cpu.stored[3], cpu.stored[4]>>)}
                    ELSE BOOLEAN :
          Leave(IF known THEN OK ELSE ERROR)
    /\ UNCHANGED cpu

\* Bit 1 of status register 2 is QE.
WithQE(v, bit) == v - (IF (v \div 2) % 2 = 1 THEN 2 ELSE 0) + bit

\* spiFlash_EnableQEBit and spiFlash_DisableQEBit: read both status registers,
\* write both back with the bit changed.
KeepStatus ==
    /\ Between
    /\ \/ stage = "Status1" /\ cpu' = [cpu EXCEPT !.reg1 = cpu.val] /\ Go("Status2")
       \/ /\ stage = "Status2" /\ cpu' = [cpu EXCEPT !.reg2 = WithQE(cpu.val, qe)]
          /\ Go("WriteEnable")
    /\ UNCHANGED qe

Enabled ==
    /\ Between /\ stage = "WriteEnable"
    /\ Go(CASE call.op = "read"    -> "WriteStatus"
            [] call.op = "program" -> "Program"
            [] call.op = "erase"   -> "Erase")
    /\ UNCHANGED <<qe, cpu>>

\* Mutant: the end of the write or the erase is not waited for.
StartPollingNot ==
    /\ Between
    /\ \/ stage = "Erase" /\ Leave(OK)
       \/ stage = "WriteStatus" /\ IF qe = 2 THEN Go("Read") /\ UNCHANGED qe ELSE NextPiece
    /\ UNCHANGED cpu

\* WaitReady.
StartPolling ==
    /\ Between /\ stage \in {"Erase", "WriteStatus"}
    /\ Go("Poll") /\ UNCHANGED qe
    /\ cpu' = [cpu EXCEPT !.polls = MaxPolls]

\* Behind WaitReady.  After a status write its result is ignored, so that a time-out
\* goes on like an answer.
Polled(ret) ==
    \/ call.op = "erase" /\ Leave(ret)
    \/ call.op = "read" /\ qe = 2 /\ Go("Read") /\ UNCHANGED qe
    \/ call.op = "read" /\ qe = 0 /\ NextPiece

\* Mutant: the count goes on below zero.
CountPast ==
    /\ phase = "count"
    /\ cpu' = [cpu EXCEPT !.polls = @ - 1]
    /\ phase' = IF Qspi THEN "empty" ELSE "select"
    /\ UNCHANGED <<stage, sent, done, qe, call, ctl, chip, hist, kept>>

\* Each round counts down and reads the status.
Count ==
    /\ phase = "count"
    /\ cpu' = [cpu EXCEPT !.polls = @ - 1]
    /\ IF cpu.polls = 1
       THEN hist' = [hist EXCEPT !.slow = TRUE] /\ Polled(ERROR)
       ELSE /\ phase' = (IF Qspi THEN "empty" ELSE "select") /\ sent' = 0
            /\ UNCHANGED <<stage, done, qe, call, hist>>
    /\ UNCHANGED <<ctl, chip, kept>>

\* Mutant: the busy bit is not looked at.
TestOnce ==
    /\ Between /\ stage = "Poll"
    /\ Polled(OK)
    /\ UNCHANGED cpu

Test ==
    /\ Between /\ stage = "Poll"
    /\ IF cpu.val % 2 = 1 THEN Go("Poll") /\ UNCHANGED qe ELSE Polled(OK)
    /\ UNCHANGED cpu

\* Mutant: the QE bit stays set.
PieceReadKeepsQE ==
    /\ Between /\ stage = "Read"
    /\ NextPiece
    /\ UNCHANGED cpu

PieceRead ==
    /\ Between /\ stage = "Read"
    /\ IF QuadMode THEN Go("Status1") /\ qe' = 0 ELSE NextPiece
    /\ UNCHANGED cpu

Return ==
    /\ stage = "end" /\ call.at = "running"
    /\ call' = [call EXCEPT !.at = "returned"]
    /\ UNCHANGED <<place, cpu, ctl, chip, hist, kept>>

DriverStep ==
    \/ ClearRx \/ Select \/ WriteTx \/ Spin \/ Feed \/ WaitIdle \/ WaitGivesUp
    \/ Store \/ SetLines \/ Release \/ ReadRx \/ Drain
    \/ CheckId \/ KeepStatus \/ Enabled \/ StartPolling \/ Count \/ Test \/ PieceRead
    \/ Return

-----------------------------------------------------------------------------
(* The controller and the chip.                                            *)

\* Bytes 2 to 7 of a quad read go out, and its data comes in, on four lines; the
\* chip knows the command only with QE set.
RightMode(f) ==
    LET n == Len(f)
    IN  /\ ctl.mode = IF f[1] # FAST_READ_QUAD \/ n = 1 THEN "single"
                      ELSE IF n <= 7 THEN "out" ELSE "in"
        /\ f[1] = FAST_READ_QUAD => QE
HeardNext ==
    LET b == Head(ctl.tx) IN Heard(b, RightMode(Append(chip.frame, b)))

Shift ==
    /\ ctl.tx # <<>>
    /\ LET in == IF ctl.ss = "low" THEN Answer(HeardNext) ELSE Lost
       IN  ctl' = [ctl EXCEPT !.tx = Tail(@),
                              !.rx = IF Len(@) < FifoDepth THEN Append(@, in) ELSE @]
    /\ chip' = IF ctl.ss = "low" THEN [chip EXCEPT !.frame = HeardNext] ELSE chip
    /\ UNCHANGED <<driver, hist, kept>>

ChipStep == ChipEnds /\ UNCHANGED <<build, driver, calls, ctl, pre, owed, hist, resets>>

\* The processor and its controller start anew.  When only they are reset, the chip
\* is deselected, which may start a program or a status write that had not all its
\* bytes, and goes on with what it is doing.
Restart ==
    /\ resets < MaxResets /\ resets' = resets + 1
    /\ stage' = "end" /\ phase' = "select" /\ sent' = 0 /\ done' = 0 /\ qe' = 2
    /\ call' = NoCall /\ cpu' = NoLocals
    /\ ctl' = NoTraffic
    /\ hist' = [hist EXCEPT !.slow = FALSE,
                            !.cut = @ \/ (chip.frame # <<>> /\ chip.frame[1] = WRITE_STATUS)]
    /\ UNCHANGED <<build, calls, pre, owed>>
Reset == Restart /\ chip' \in Deselected(chip.frame) /\ UNCHANGED mem
PowerLoss == Restart /\ ChipLosesPower

-----------------------------------------------------------------------------
Init ==
    /\ build \in Builds
    /\ stage = "end" /\ phase = "select" /\ sent = 0 /\ done = 0 /\ qe = 2
    /\ cpu = NoLocals /\ call = NoCall /\ calls = 0
    /\ ctl = NoTraffic
    /\ ChipInit /\ pre = mem /\ owed = {} /\ resets = 0
    /\ hist = [stuck |-> FALSE, slow |-> FALSE, cut |-> FALSE]

Next == Initialize \/ Call \/ DriverStep \/ Shift \/ ChipStep \/ Reset \/ PowerLoss

Spec == Init /\ [][Next]_vars

\* Only the processor is sure to run on: the controller and the chip may stop.
FairSpec == Spec /\ WF_vars(DriverStep)

\* Everything runs on.
LiveSpec == FairSpec /\ WF_vars(Shift) /\ WF_vars(ChipStep)

-----------------------------------------------------------------------------
(* What the driver promises.                                               *)

TypeOK ==
    /\ build \in Builds
    /\ stage \in {"ReadID", "Status1", "Status2", "WriteEnable", "WriteStatus", "Poll",
                  "Read", "Program", "Erase", "end"}
    /\ phase \in {"count", "empty", "select", "send", "spin", "wait", "lines", "clear", "feed",
                  "fetch", "store", "last", "release", "single", "skip", "take", "drain", "next"}
    /\ sent \in Nat /\ done \in Nat /\ qe \in {0, 2}
    /\ cpu \in [val : Byte, reg1 : Byte, reg2 : Byte, polls : 0 .. MaxPolls, stored : Seq(Byte)]
    /\ call \in [op : {"none", "init", "read", "program", "erase"}, addr : Nat, len : Nat,
                 at : {"none", "running", "returned"}, ret : {OK, ERROR, ERROR_PARAMETER}]
    /\ calls \in 0 .. MaxCalls /\ resets \in 0 .. MaxResets
    /\ ctl \in [ss : {"low", "high"}, tx : Seq(Byte), rx : Seq(Byte),
                mode : {"single", "out", "in"}]
    /\ Len(ctl.tx) <= FifoDepth /\ Len(ctl.rx) <= FifoDepth
    /\ ChipTypeOK /\ pre \in [Cell -> Byte] /\ owed \subseteq Cell
    /\ hist \in [stuck : BOOLEAN, slow : BOOLEAN, cut : BOOLEAN]

Returned(op) == call.at = "returned" /\ call.op = op /\ call.ret = OK

\* As long as no wait for the bus has given up, nor WaitReady since the last reset.
InTime == ~hist.stuck /\ ~hist.slow

\* Whenever a call may be made the chip is idle: after a reset in the middle of an
\* erase or a write of the status registers Initialize returns OK only once the chip
\* is done, because a busy chip does not give its id; and no call returns before
\* the chip has ended its command.
Ready == Up /\ InTime => ~Busy

\* EraseSector that returns OK has the sector erased: the write enable was heard, and
\* WaitReady saw the end of this very erase (on a chip that is not protected).
EraseDone ==
    Returned("erase") /\ InTime /\ chip.sr1 = 0 => \A a \in Sector(call.addr) : mem[a] = 255

\* No byte changes but those of the sector an EraseSector names and of the pages a
\* ProgramData names, now or by a command of an earlier call that a reset cut off or
\* WaitReady gave up on, also while the chip is still at it and when the call fails.
Confined == ~hist.stuck => \A a \in Cell : mem[a] # pre[a] => a \in owed

\* ReadData gives the bytes of the chip at addr: the answers to the command, the
\* address and the dummy bytes are all out of the FIFO before the first data
\* byte, page after page, and the chip is not busy with an earlier command.
ReadExact ==
    Returned("read") /\ InTime =>
        /\ Len(cpu.stored) = call.len
        /\ \A k \in 1 .. Len(cpu.stored) :
              call.addr + k <= ChipSize => cpu.stored[k] = mem[call.addr + k - 1]

\* Each call gives the bus back as it found it, the chip deselected, nothing
\* left to send or to read and the lines in single mode: spi_drv.c reads the
\* status without clearing the FIFO, so a byte left behind would be taken for it.
\* A read also leaves the chip's quad mode off, also when a reset has left an
\* earlier one on.
BusReleased ==
    call.at = "returned" /\ ~hist.stuck =>
        /\ ctl = NoTraffic
        /\ QuadMode /\ Returned("read") /\ call.len > 0 /\ ~hist.slow => ~QE

\* Switching quad mode on and off around a read keeps the protection bits and the
\* other bits of the status registers, which both writes write back (unless a reset
\* comes between the two bytes of the write).
ProtectionKept ==
    [][~hist'.stuck /\ ~hist'.cut =>
        chip'.sr1 = chip.sr1 /\ chip'.sr2 \div 4 = chip.sr2 \div 4]_vars

\* Initialize, ReadData and EraseSector return, even when the controller stops
\* shifting or the chip stays busy for ever.
ReadEraseReturn ==
    call.at = "running" /\ call.op # "program" ~> call.at # "running"

\* Every driver call returns (Driver_Flash.h gives each a return value).
CallsReturn == call.at = "running" ~> call.at # "running"
=============================================================================
