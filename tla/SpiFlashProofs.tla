--------------------------- MODULE SpiFlashProofs ---------------------------
(***************************************************************************)
(* Theorems about SpiFlash.                                                *)
(***************************************************************************)
EXTENDS SpiFlash, NorFlashProofs

-----------------------------------------------------------------------------
(* What holds whatever the controller does: where the driver is.           *)

\* The bytes a frame has before its data.
OutLen == CASE stage = "ReadID" -> 5
            [] OfStatus(stage) -> 2
            [] stage = "WriteEnable" -> 1
            [] stage = "WriteStatus" -> 3
            [] stage = "Read" /\ QuadMode -> 7
            [] OTHER -> 4

\* Which frames belong to which call; the call that runs is one whose address was
\* accepted, and has bytes left; a call that ended well has none.
CallInv ==
    /\ stage = "ReadID" => call.op = "init"
    /\ stage \in {"Status1", "Status2", "WriteStatus"} => QuadMode /\ call.op = "read"
    /\ stage = "Read" => call.op = "read" /\ qe = 2
    /\ stage \in {"WriteEnable", "Poll"} /\ call.op = "read" => QuadMode
    /\ stage \in {"WriteEnable", "Poll"} => call.op \in {"read", "program", "erase"}
    /\ stage = "Poll" => call.op # "program" /\ cpu.polls > 0
    /\ stage = "Program" => call.op = "program"
    /\ stage = "Erase" => call.op = "erase"
    /\ stage # "end" => call.at = "running" /\ call.ret = OK
    /\ call.op = "none" => stage = "end" /\ call.at = "none"
    /\ call.op # "none" => call.at # "none"
    /\ call.op # "read" => done = 0
    /\ call.op \in {"read", "program", "erase"} /\ call.ret = OK => call.addr < FlashSize
    /\ call.op \in {"read", "program"} /\ stage # "end" => done < call.len
    /\ call.op = "read" /\ stage = "end" /\ call.ret = OK => done = call.len

\* Which places in a frame belong to which frame.
PhaseInv ==
    /\ stage = "end" => phase = "select"
    /\ phase = "count" => stage = "Poll"
    /\ phase = "empty" => OfStatus(stage) /\ Qspi
    /\ phase \in {"count", "empty", "select"} => sent = 0
    /\ phase = "send" => sent < OutLen
    /\ phase = "wait" => sent = OutLen \/ (sent = 1 /\ stage = "Read" /\ Qspi)
    /\ phase = "lines" => stage = "Read" /\ QuadMode /\ sent \in {1, OutLen}
    /\ phase = "clear" => stage \in {"Read", "Erase"}
    /\ phase \in {"feed", "fetch", "store", "last"} => stage = "Read"
    /\ phase = "single" => stage = "Read" /\ QuadMode
    /\ phase \in {"skip", "take"} => OfStatus(stage)
    /\ phase = "drain" => stage = "ReadID"
    /\ stage = "Program" => phase \in {"select", "send", "spin"}
    /\ phase = "spin" => stage = "Program"
    /\ phase \in {"spin", "clear", "feed", "fetch", "store", "last", "release", "single",
                  "skip", "take", "drain", "next"} => sent = OutLen

\* The bytes stored: those of the pieces done and of the piece in hand.
CountInv ==
    call.op = "read" =>
        /\ stage \in {"Status1", "Status2", "WriteEnable", "WriteStatus", "Poll"} =>
              Len(cpu.stored) = done + IF qe = 0 THEN Piece ELSE 0
        /\ stage = "Read" =>
              /\ phase \in {"select", "send", "wait", "lines", "clear"} => Len(cpu.stored) = done
              /\ phase \in {"feed", "fetch", "store"} =>
                    done <= Len(cpu.stored) /\ Len(cpu.stored) < done + Piece
              /\ phase \in {"last", "release", "single", "next"} => Len(cpu.stored) = done + Piece
        /\ stage = "end" /\ call.ret = OK => Len(cpu.stored) = done

PlaceInv == CallInv /\ PhaseInv /\ CountInv

-----------------------------------------------------------------------------
(* What holds while no wait has given up: what is on the bus.              *)

\* The chip is selected from the first byte of a frame to the last, and nothing is
\* left over when it is not.
Selected == phase \in {"send", "spin", "wait", "lines", "clear", "feed", "fetch", "store",
                       "last", "release"}

\* The lines the controller uses.
Mode ==
    IF ~(stage = "Read" /\ QuadMode) \/ phase \in {"select", "next"} THEN "single"
    ELSE IF phase = "send" THEN (IF sent = 0 THEN "single" ELSE "out")
    ELSE IF phase \in {"wait", "lines"} THEN (IF sent = 1 THEN "single" ELSE "out")
    ELSE "in"

SelectInv ==
    /\ ctl.ss = IF Selected THEN "low" ELSE "high"
    /\ ctl.mode = Mode
    /\ ~Selected => chip.frame = <<>> /\ ctl.tx = <<>>
    /\ phase \in {"lines", "clear", "feed", "store", "last", "release"} => ctl.tx = <<>>

\* How many bytes the chip has heard of the frame, are in the FIFOs, and are stored.
InFrame == Len(chip.frame)
InTx == Len(ctl.tx)
InRx == Len(ctl.rx)
Stored == Len(cpu.stored)

\* The data bytes of the frame written to the FIFO.
Fed == IF stage = "Read" /\ phase \in {"feed", "fetch", "store", "last", "release"}
       THEN Stored - done + IF phase \in {"fetch", "store"} THEN 1 ELSE 0
       ELSE 0

\* What the chip has heard and what is still in the FIFO are the bytes of the frame,
\* unless it lost the frame.
IsLost == chip.frame # <<>> /\ chip.frame[1] = Lost
Heads ==
    /\ \A k \in 1 .. InFrame : k <= sent => chip.frame[k] = Out[k]
    /\ \A k \in 1 .. InTx :
          InFrame + k <= sent => ctl.tx[k] = Out[InFrame + k]
HeardInv ==
    Selected /\ ~IsLost =>
        /\ Heads
        /\ InFrame + InTx >= sent + Fed
        /\ phase # "spin" => InFrame + InTx = sent + Fed
        /\ ctl.mode # "single" => InFrame >= 1
        /\ ctl.mode = "in" => InFrame >= 7

\* The receive FIFO holds one byte for each one sent since it was last empty, where
\* the driver counts on it.
RxInv ==
    /\ (stage = "ReadID" \/ OfStatus(stage)) /\ phase \in {"select", "send", "wait", "release"}
          => InRx + InTx = sent
    /\ phase = "drain" => InRx + Stored = 5
    /\ stage = "ReadID" /\ phase # "drain" =>
          Stored = IF phase = "next" THEN 5 ELSE 0
    /\ phase = "skip" => InRx = 2
    /\ phase \in {"take", "store"} => InRx = 1
    /\ phase = "fetch" => InRx + InTx = 1
    /\ \/ phase \in {"feed", "last", "single"}
       \/ stage \in {"Erase", "Read"} /\ phase = "release"
       \/ phase = "next" /\ stage \in {"ReadID", "Read", "Status1", "Status2", "Poll", "Erase"}
       \/ phase = "count" /\ (~Qspi \/ call.op = "erase" \/ cpu.polls < MaxPolls)
       \/ stage = "end"
       => ctl.rx = <<>>

\* The status under way from the chip to the driver.
HasStatus == OfStatus(stage) /\ \/ phase \in {"wait", "release"} /\ InRx = 2
                                \/ phase \in {"skip", "take", "next"}
StatusSeen ==
    IF phase \in {"wait", "release", "skip"} THEN ctl.rx[2]
    ELSE IF phase = "take" THEN ctl.rx[1] ELSE cpu.val
Agrees(v, sr) == (v \div 4) % 2 = sr \div 4
StatusInv ==
    HasStatus =>
        /\ stage # "Status2" /\ StatusSeen % 2 = 0 => ~Busy
        /\ ~hist.cut => Agrees(StatusSeen, IF stage = "Status2" THEN chip.sr2 ELSE chip.sr1)

\* What is to be written back is what was read.
KeptInv ==
    ~hist.cut =>
        /\ stage \in {"Status2", "WriteEnable", "WriteStatus"} /\ call.op = "read" =>
              Agrees(cpu.reg1, chip.sr1)
        /\ stage \in {"WriteEnable", "WriteStatus"} /\ call.op = "read" =>
              Agrees(cpu.reg2, chip.sr2)
        /\ IsWrite(chip.todo) =>
              /\ Len(chip.todo) = 3
              /\ Agrees(chip.todo[2], chip.sr1) /\ Agrees(chip.todo[3], chip.sr2)

\* A status is asked for also of a busy chip, on one line.
StatusHeard == IsLost => ~OfStatus(stage)

BusInv == SelectInv /\ HeardInv /\ RxInv /\ StatusInv /\ KeptInv /\ StatusHeard

-----------------------------------------------------------------------------
(* What the chip may change.                                               *)

Owes(f) == /\ IsErase(f) => Sector(AddressOf(f)) \subseteq owed
           /\ IsProgram(f) => Page(AddressOf(f)) \subseteq owed
OwedInv ==
    /\ Owes(chip.todo)
    /\ stage # "end" /\ call.op = "program" =>
          \A a \in Span(call.addr, call.len) : Page(a) \subseteq owed
    /\ stage # "end" /\ call.op = "erase" => Sector(call.addr) \subseteq owed
    /\ \A a \in Cell : mem[a] # pre[a] => a \in owed

-----------------------------------------------------------------------------
(* What holds while WaitReady has not given up either.                     *)

\* The chip has been given the command that WaitReady waits for.
Issued == stage = "Poll" \/ (stage \in {"Erase", "WriteStatus"} /\ phase = "next")

\* When the chip may be busy: after a reset, while its id is asked for in vain, and
\* while the driver waits for it.
NoId == /\ chip.frame # <<>> => IsLost
        /\ \A k \in 1 .. InRx : ctl.rx[k] = 255
        /\ \A k \in 1 .. Stored : cpu.stored[k] = 255
BusyInv ==
    Busy =>
        \/ call.op = "none"
        \/ stage = "ReadID" /\ NoId
        \/ call.op = "init" /\ stage = "end" /\ call.ret = ERROR
        \/ Issued

\* The chip hears every frame but the one that asks for its id.
AllHeard == IsLost => stage = "ReadID"

\* The chip is write enabled from the write enable to the command.
EnabledInv ==
    \/ stage = "WriteEnable" /\ phase = "next"
    \/ stage \in {"WriteStatus", "Program", "Erase"} /\ ~Issued
    => chip.wel

\* Quad mode is on for the read and off after it.
Bit1(v) == (v \div 2) % 2
QEInv ==
    call.op = "read" /\ call.ret = OK /\ QuadMode =>
        /\ stage \in {"WriteEnable", "WriteStatus"} => Bit1(cpu.reg2) = qe \div 2
        /\ Issued =>
              \/ IsWrite(chip.todo) /\ Len(chip.todo) = 3 /\ Bit1(chip.todo[3]) = qe \div 2
              \/ ~Busy /\ (QE <=> qe = 2)
        /\ stage = "Read" => QE
        /\ stage = "end" /\ call.len > 0 => ~QE

\* Whatever the driver stores comes from the chip.
ReadInv ==
    call.op = "read" /\ call.ret = OK =>
        /\ \A k \in 1 .. Stored :
              call.addr + k <= ChipSize => cpu.stored[k] = mem[call.addr + k - 1]
        /\ phase \in {"fetch", "store"} /\ InRx = 1 /\ call.addr + Stored + 1 <= ChipSize
              => ctl.rx[1] = mem[call.addr + Stored]

SectorErased == \A a \in Sector(call.addr) : mem[a] = 255
EraseInv ==
    call.op = "erase" /\ call.ret = OK =>
        /\ Issued /\ Busy =>
              IsErase(chip.todo) /\ (call.addr \in Cell => AddressOf(chip.todo) = call.addr)
        /\ chip.sr1 = 0 /\ (stage = "end" \/ (Issued /\ ~Busy)) => SectorErased

TimelyInv == BusyInv /\ AllHeard /\ EnabledInv /\ QEInv /\ ReadInv /\ EraseInv

IInv == /\ TypeOK /\ Executable(chip.todo) /\ PlaceInv
        /\ ~hist.stuck => BusInv
        /\ ~hist.stuck /\ FlashSize <= ChipSize => OwedInv
        /\ InTime => TimelyInv

-----------------------------------------------------------------------------
(* The frames.                                                             *)

LEMMA Constants ==
    /\ FlashSize \in Nat \ {0} /\ DataWidth \in Nat \ {0} /\ PageSize \in Nat \ {0}
    /\ FifoDepth \in Nat /\ FifoDepth >= 8 /\ MaxPolls \in Nat /\ MaxPolls >= 2
    /\ MaxFrame \in Nat /\ PageSize + 7 <= MaxFrame /\ MaxFrame >= 8
    /\ ChipSize \in Nat \ {0} /\ EraseSize \in Nat \ {0} /\ ChipSize % EraseSize = 0
    BY ChipFacts, SpiAssumption, NorAssumption

LEMMA StageCases ==
    ASSUME TypeOK
    PROVE  stage \in {"ReadID", "WriteEnable", "WriteStatus", "Read", "Program", "Erase", "end"}
              \/ OfStatus(stage)
    BY DEF TypeOK, OfStatus

LEMMA Bytes ==
    /\ \A b \in {JEDEC_ID, READ_STATUS, READ_STATUS2, WRITE_ENABLE, WRITE_STATUS, READ,
                 FAST_READ_QUAD, PAGE_PROGRAM, SECTOR_ERASE, Lost, 0} : b \in Byte
    /\ \A b \in Byte : b \in Nat /\ b < 256
    BY DEF JEDEC_ID, READ_STATUS, READ_STATUS2, WRITE_ENABLE, WRITE_STATUS, READ,
           FAST_READ_QUAD, PAGE_PROGRAM, SECTOR_ERASE, Lost, Byte

\* The command a frame begins with.
Opcode == CASE stage = "ReadID" -> JEDEC_ID
            [] stage = "Status2" -> READ_STATUS2
            [] stage = "WriteEnable" -> WRITE_ENABLE
            [] stage = "WriteStatus" -> WRITE_STATUS
            [] stage = "Read" -> IF QuadMode THEN FAST_READ_QUAD ELSE READ
            [] stage = "Program" -> PAGE_PROGRAM
            [] stage = "Erase" -> SECTOR_ERASE
            [] OTHER -> READ_STATUS

LEMMA OutFacts ==
    ASSUME TypeOK, stage # "end"
    PROVE  /\ Out \in Seq(Byte) /\ Len(Out) = OutLen /\ OutLen \in 1 .. 7
           /\ Out[1] = Opcode
           /\ stage \in {"Read", "Erase", "Program"} /\ Addr \in Cell => AddressOf(Out) = Addr
           /\ stage = "WriteEnable" => Out = <<WRITE_ENABLE>>
           /\ stage = "WriteStatus" => Out[2] = cpu.reg1 /\ Out[3] = cpu.reg2
    <1>1. cpu.reg1 \in Byte /\ cpu.reg2 \in Byte
      BY DEF TypeOK
    <1>2. Addr \in Nat
      BY DEF TypeOK, Addr
    <1>3. ASSUME NEW b \in Byte
          PROVE  /\ Command(b) \in Seq(Byte) /\ Len(Command(b)) = 4 /\ Command(b)[1] = b
                 /\ Addr \in Cell => AddressOf(Command(b)) = Addr
      BY <1>2, CommandFacts DEF Command
    <1> HIDE DEF Command
    <1>4. CASE stage = "ReadID"
      BY <1>4, Bytes DEF Out, OutLen, Opcode, OfStatus
    <1>5. CASE stage \in {"Status1", "Poll"}
      BY <1>5, Bytes DEF Out, OutLen, Opcode, OfStatus
    <1>6. CASE stage = "Status2"
      BY <1>6, Bytes DEF Out, OutLen, Opcode, OfStatus
    <1>7. CASE stage = "WriteEnable"
      BY <1>7, Bytes DEF Out, OutLen, Opcode, OfStatus
    <1>8. CASE stage = "WriteStatus"
      BY <1>1, <1>8, Bytes DEF Out, OutLen, Opcode, OfStatus
    <1>9. CASE stage = "Read" /\ ~QuadMode
      <2>1. Out = Command(READ) /\ OutLen = 4 /\ Opcode = READ
        BY <1>9 DEF Out, OutLen, Opcode, OfStatus
      <2>2. READ \in Byte
        BY Bytes
      <2> QED BY <2>1, <2>2, <1>3, <1>9
    <1>10. CASE stage = "Read" /\ QuadMode
      <2> DEFINE s == Command(FAST_READ_QUAD)
                 d == <<0, 0, 0>>
                 f == s \o d
      <2>1. Out = f /\ OutLen = 7 /\ Opcode = FAST_READ_QUAD
        BY <1>10 DEF Out, OutLen, Opcode, OfStatus
      <2>2. s \in Seq(Byte) /\ Len(s) = 4 /\ s[1] = FAST_READ_QUAD
              /\ (Addr \in Cell => AddressOf(s) = Addr)
        BY Bytes, <1>3
      <2>3. d \in Seq(Byte) /\ Len(d) = 3
        BY Bytes
      <2> HIDE DEF s, d
      <2>4. f \in Seq(Byte) /\ Len(f) = Len(s) + Len(d) /\ \A i \in 1 .. Len(s) : f[i] = s[i]
        BY <2>2, <2>3, Joined
      <2> HIDE DEF f
      <2>5. Len(f) = 7 /\ f[1] = s[1] /\ f[2] = s[2] /\ f[3] = s[3] /\ f[4] = s[4]
        <3>1. \A i \in 1 .. 4 : f[i] = s[i]
          BY <2>2, <2>4
        <3>2. 1 \in 1 .. 4 /\ 2 \in 1 .. 4 /\ 3 \in 1 .. 4 /\ 4 \in 1 .. 4
          OBVIOUS
        <3>3. Len(f) = 7
          BY <2>2, <2>3, <2>4
        <3> QED BY <3>1, <3>2, <3>3, Zenon
      <2>6. AddressOf(f) = AddressOf(s)
        BY <2>5 DEF AddressOf
      <2>7. Out \in Seq(Byte) /\ Len(Out) = OutLen /\ OutLen \in 1 .. 7 /\ Out[1] = Opcode
        <3>1. Out \in Seq(Byte) /\ Len(Out) = OutLen
          BY <2>1, <2>4, <2>5, Zenon
        <3>2. OutLen \in 1 .. 7
          BY <2>1
        <3>3. Out[1] = Opcode
          BY <2>1, <2>2, <2>5, Zenon
        <3> QED BY <3>1, <3>2, <3>3
      <2>8. Addr \in Cell => AddressOf(Out) = Addr
        BY <2>1, <2>2, <2>6
      <2> QED BY <2>7, <2>8, <1>10
    <1>11. CASE stage = "Program"
      <2>1. Out = Command(PAGE_PROGRAM) /\ OutLen = 4 /\ Opcode = PAGE_PROGRAM
        BY <1>11 DEF Out, OutLen, Opcode, OfStatus
      <2>2. PAGE_PROGRAM \in Byte
        BY Bytes
      <2> QED BY <2>1, <2>2, <1>3, <1>11
    <1>12. CASE stage = "Erase"
      <2>1. Out = Command(SECTOR_ERASE) /\ OutLen = 4 /\ Opcode = SECTOR_ERASE
        BY <1>12 DEF Out, OutLen, Opcode, OfStatus
      <2>2. SECTOR_ERASE \in Byte
        BY Bytes
      <2> QED BY <2>1, <2>2, <1>3, <1>12
    <1> QED BY <1>4, <1>5, <1>6, <1>7, <1>8, <1>9, <1>10, <1>11, <1>12, StageCases DEF OfStatus

\* A step within a frame leaves what the frame says.
LEMMA SameFrame ==
    ASSUME stage' = stage, build' = build, done' = done, call'.addr = call.addr,
           cpu'.reg1 = cpu.reg1, cpu'.reg2 = cpu.reg2
    PROVE  Out' = Out /\ OutLen' = OutLen /\ Opcode' = Opcode /\ Addr' = Addr
    BY DEF Out, OutLen, Opcode, Command, Addr, QuadMode

LEMMA PieceFacts ==
    ASSUME TypeOK, done < call.len
    PROVE  /\ Piece \in 1 .. PageSize /\ done + Piece <= call.len
           /\ done + Piece < call.len <=> Piece # call.len - done
    <1>1. done \in Nat /\ call.len \in Nat
      BY DEF TypeOK
    <1> QED BY <1>1, Constants DEF Piece

-----------------------------------------------------------------------------
(* Types, part by part.                                                    *)

Cpus == [val : Byte, reg1 : Byte, reg2 : Byte, polls : 0 .. MaxPolls, stored : Seq(Byte)]
Calls == [op : {"none", "init", "read", "program", "erase"}, addr : Nat, len : Nat,
          at : {"none", "running", "returned"}, ret : {OK, ERROR, ERROR_PARAMETER}]
Fifo == {s \in Seq(Byte) : Len(s) <= FifoDepth}
Controls == [ss : {"low", "high"}, tx : Fifo, rx : Fifo, mode : {"single", "out", "in"}]
Histories == [stuck : BOOLEAN, slow : BOOLEAN, cut : BOOLEAN]

TypePlace ==
    /\ stage \in {"ReadID", "Status1", "Status2", "WriteEnable", "WriteStatus", "Poll",
                  "Read", "Program", "Erase", "end"}
    /\ phase \in {"count", "empty", "select", "send", "spin", "wait", "lines", "clear", "feed",
                  "fetch", "store", "last", "release", "single", "skip", "take", "drain", "next"}
    /\ sent \in Nat /\ done \in Nat /\ qe \in {0, 2}
TypeRest ==
    /\ build \in Builds /\ calls \in 0 .. MaxCalls /\ resets \in 0 .. MaxResets
    /\ pre \in [Cell -> Byte] /\ owed \subseteq Cell

LEMMA ControlType ==
    ctl \in Controls <=>
        /\ ctl \in [ss : {"low", "high"}, tx : Seq(Byte), rx : Seq(Byte),
                    mode : {"single", "out", "in"}]
        /\ Len(ctl.tx) <= FifoDepth /\ Len(ctl.rx) <= FifoDepth
    BY DEF Controls, Fifo

LEMMA TypeParts ==
    TypeOK <=> /\ TypePlace /\ TypeRest
               /\ cpu \in Cpus /\ call \in Calls /\ ctl \in Controls /\ hist \in Histories
               /\ ChipTypeOK
    BY ControlType DEF TypeOK, TypePlace, TypeRest, Cpus, Calls, Histories

\* The same for the next state.
LEMMA TypePartsNext ==
    ASSUME TypePlace', TypeRest', cpu' \in Cpus, call' \in Calls, ctl' \in Controls,
           hist' \in Histories, ChipTypeOK'
    PROVE  TypeOK'
    <1>1. /\ ctl' \in [ss : {"low", "high"}, tx : Seq(Byte), rx : Seq(Byte),
                       mode : {"single", "out", "in"}]
          /\ Len(ctl'.tx) <= FifoDepth /\ Len(ctl'.rx) <= FifoDepth
      BY DEF Controls, Fifo
    <1> QED BY <1>1 DEF TypeOK, TypePlace, TypeRest, Cpus, Calls, Histories

\* A step that leaves chip, calls and history.
LEMMA RestSame ==
    ASSUME TypeOK, UNCHANGED <<kept, chip>>
    PROVE  TypeRest' /\ ChipTypeOK'
    BY DEF TypeOK, TypeRest, ChipTypeOK, kept

\* What comes out of and goes into a FIFO.
LEMMA FifoFacts ==
    /\ <<>> \in Fifo
    /\ \A s \in Fifo : /\ (IF s = <<>> THEN s ELSE Tail(s)) \in Fifo
                       /\ s # <<>> => Head(s) \in Byte /\ Head(s) = s[1] /\ Len(s) \in Nat \ {0}
    /\ \A s \in Seq(Byte) : Fitting(s) \in Fifo
    <1>1. FifoDepth \in Nat
      BY Constants
    <1>2. <<>> \in Fifo
      BY <1>1 DEF Fifo
    <1>3. ASSUME NEW s \in Fifo, s # <<>>
          PROVE  Tail(s) \in Fifo /\ Head(s) \in Byte /\ Head(s) = s[1] /\ Len(s) \in Nat \ {0}
      BY <1>1, <1>3 DEF Fifo
    <1>4. ASSUME NEW s \in Seq(Byte)
          PROVE  Fitting(s) \in Fifo
      <2>1. CASE Len(s) <= FifoDepth
        BY <2>1 DEF Fitting, Fifo
      <2>2. CASE ~(Len(s) <= FifoDepth)
        <3>1. SubSeq(s, 1, FifoDepth) \in Seq(Byte) /\ Len(SubSeq(s, 1, FifoDepth)) = FifoDepth
          BY <1>1, <2>2
        <3> QED BY <3>1, <2>2, <1>1 DEF Fitting, Fifo
      <2> QED BY <2>1, <2>2
    <1> QED BY <1>2, <1>3, <1>4

LEMMA QueueType ==
    ASSUME ctl \in Controls, NEW s \in Seq(Byte), Queue(s)
    PROVE  ctl' \in Controls
    <1>1. ctl.tx \in Seq(Byte)
      BY DEF Controls, Fifo
    <1>2. Fitting(ctl.tx \o s) \in Fifo
      <2>1. ctl.tx \o s \in Seq(Byte)
        BY <1>1, Joined
      <2> QED BY <2>1, FifoFacts
    <1> QED BY <1>2 DEF Queue, Controls

LEMMA TakenType ==
    ASSUME ctl \in Controls, Taken
    PROVE  ctl' \in Controls
    <1>1. (IF ctl.rx = <<>> THEN ctl.rx ELSE Tail(ctl.rx)) \in Fifo
      BY FifoFacts DEF Controls
    <1> QED BY <1>1 DEF Taken, Controls

LEMMA ReceivedType ==
    ASSUME ctl \in Controls, NEW b \in Received
    PROVE  b \in Byte
    <1>1. ctl.rx # <<>> => Head(ctl.rx) \in Byte
      BY FifoFacts DEF Controls
    <1>2. 0 \in Byte /\ 255 \in Byte
      BY DEF Byte
    <1> QED BY <1>1, <1>2 DEF Received

-----------------------------------------------------------------------------
(* The driver's steps keep the types and the place.                        *)

TypesAndPlace == TypeOK /\ PlaceInv

LEMMA ClearRxPlace ==
    ASSUME TypesAndPlace, ClearRx
    PROVE  TypesAndPlace'
    <1> USE DEF TypesAndPlace, PlaceInv
    <1>1. TypeOK'
      BY TypeParts, TypePartsNext, RestSame, FifoFacts DEF ClearRx, TypePlace, Controls
    <1>2. CallInv'
      BY DEF CallInv, ClearRx, QuadMode, kept
    <1>3. PhaseInv'
      BY DEF PhaseInv, ClearRx, QuadMode, Qspi, OutLen, kept, OfStatus
    <1>4. CountInv'
      <2>1. call.op = "read" /\ stage = "Read" => Piece \in 1 .. PageSize
        BY PieceFacts DEF CallInv
      <2>2. Len(cpu.stored) \in Nat /\ done \in Nat /\ Piece' = Piece
        BY DEF TypeOK, ClearRx, Piece
      <2>3. stage \notin {"end", "Status1", "Status2", "WriteEnable", "WriteStatus", "Poll"}
               \/ phase = "empty"
        BY DEF ClearRx, PhaseInv
      <2> QED BY <2>1, <2>2, <2>3, Constants DEF CountInv, ClearRx, PhaseInv, OfStatus
    <1> QED BY <1>1, <1>2, <1>3, <1>4

LEMMA SelectPlace ==
    ASSUME TypesAndPlace, Select
    PROVE  TypesAndPlace'
    <1> USE DEF TypesAndPlace, PlaceInv
    <1>1. TypeOK'
      BY TypeParts, TypePartsNext, RestSame, FifoFacts DEF Select, TypePlace, Controls
    <1>2. CallInv'
      BY DEF CallInv, Select, QuadMode, kept
    <1>3. PhaseInv'
      BY OutFacts DEF PhaseInv, Select, QuadMode, Qspi, OutLen, kept, OfStatus
    <1>4. CountInv'
      BY DEF CountInv, Select, Piece, kept, PhaseInv
    <1> QED BY <1>1, <1>2, <1>3, <1>4

LEMMA StorePlace ==
    ASSUME TypesAndPlace, Store
    PROVE  TypesAndPlace'
    <1> USE DEF TypesAndPlace, PlaceInv
    <1>1. PICK b \in Received : cpu' = [cpu EXCEPT !.stored = Append(@, b)]
      BY DEF Store
    <1>2. cpu' \in Cpus /\ Len(cpu'.stored) = Len(cpu.stored) + 1
      <2>1. b \in Byte /\ cpu \in Cpus
        BY TypeParts, ReceivedType
      <2>2. /\ cpu.stored \in Seq(Byte) /\ Append(cpu.stored, b) \in Seq(Byte)
            /\ Len(Append(cpu.stored, b)) = Len(cpu.stored) + 1
        BY <2>1 DEF Cpus
      <2>3. \A s \in Seq(Byte) : [cpu EXCEPT !.stored = s] \in Cpus /\ [cpu EXCEPT !.stored = s].stored = s
        BY <2>1 DEF Cpus
      <2> QED BY <1>1, <2>2, <2>3, Zenon
    <1>3. TypeOK'
      BY <1>2, TypeParts, TypePartsNext, RestSame, TakenType DEF Store, TypePlace
    <1>4. CallInv'
      BY DEF CallInv, Store, QuadMode, kept
    <1>5. PhaseInv'
      BY OutFacts DEF PhaseInv, Store, QuadMode, Qspi, OutLen, kept, OfStatus
    <1>6. CountInv'
      <2>1. Len(cpu.stored) \in Nat /\ done \in Nat
        BY DEF TypeOK
      <2>2. Piece \in 1 .. PageSize /\ Piece' = Piece
        BY PieceFacts DEF CallInv, PhaseInv, Store, Piece
      <2>3. /\ stage = "Read" /\ stage' = stage /\ call' = call /\ done' = done
            /\ phase' = IF Len(cpu.stored) + 1 < done + Piece THEN "feed" ELSE "last"
        BY DEF Store, PhaseInv
      <2>4. call.op = "read" => done <= Len(cpu.stored) /\ Len(cpu.stored) < done + Piece
        BY <2>3 DEF CountInv, Store
      <2> QED BY <2>1, <2>2, <2>3, <2>4, <1>2, Constants DEF CountInv
    <1> QED BY <1>3, <1>4, <1>5, <1>6

LEMMA PieceReadPlace ==
    ASSUME TypesAndPlace, PieceRead
    PROVE  TypesAndPlace'
    <1> USE DEF TypesAndPlace, PlaceInv
    <1>1. Piece \in 1 .. PageSize /\ done + Piece <= call.len /\ done \in Nat
            /\ call.len \in Nat /\ stage = "Read" /\ call.op = "read" /\ qe = 2
            /\ call.at = "running" /\ call.ret = OK /\ phase = "next"
            /\ (done + Piece < call.len <=> Piece # call.len - done)
      BY PieceFacts DEF CallInv, PhaseInv, PieceRead, Between, TypeOK
    <1>2. TypeOK'
      BY <1>1, TypeParts, TypePartsNext, RestSame, Constants
         DEF PieceRead, TypePlace, Between, Go, NextPiece, Begins, Start
    <1>3. CallInv'
      BY <1>1 DEF CallInv, PieceRead, QuadMode, kept, Between, Go, NextPiece, Begins
    <1>4. PhaseInv'
      BY OutFacts DEF PhaseInv, PieceRead, QuadMode, Qspi, OutLen, kept, OfStatus, Between, Go, NextPiece, Begins, Start
    <1>5. CountInv'
      <2>1. Len(cpu.stored) = done + Piece
        BY <1>1 DEF CountInv
      <2>2. CASE QuadMode
        <3>1. stage' = "Status1" /\ done' = done /\ cpu' = cpu /\ qe' = 0 /\ Piece' = Piece
          BY <2>2 DEF PieceRead, Go, Piece
        <3> QED BY <2>1, <3>1 DEF CountInv
      <2>3. CASE ~QuadMode
        <3>1. stage' \in {"Read", "end"} /\ done' = done + Piece /\ cpu' = cpu
                /\ phase' = "select"
          BY <2>3, <1>1 DEF PieceRead, NextPiece, Begins, Start, OfStatus
        <3> QED BY <2>1, <3>1 DEF CountInv
      <2> QED BY <2>2, <2>3
    <1> QED BY <1>2, <1>3, <1>4, <1>5

LEMMA WriteTxPlace ==
    ASSUME TypesAndPlace, WriteTx
    PROVE  TypesAndPlace'
    <1> USE DEF TypesAndPlace, PlaceInv
    <1>1. stage # "end" /\ phase = "send" /\ sent < OutLen /\ sent \in Nat
      BY DEF WriteTx, PhaseInv, TypeOK
    <1>2. Out \in Seq(Byte) /\ Len(Out) = OutLen /\ OutLen \in 1 .. 7 /\ Len(Out) \in Nat
      BY <1>1, OutFacts
    <1>3. Out[sent + 1] \in Byte
      <2>1. sent + 1 \in 1 .. Len(Out)
        BY <1>1, <1>2
      <2> QED BY <2>1, <1>2, ElementOfSeq
    <1>4. <<Out[sent + 1]>> \in Seq(Byte)
      BY <1>3
    <1>5. TypeOK'
      <2>1. ctl' \in Controls
        BY <1>4, TypeParts, QueueType DEF WriteTx
      <2>2. TypePlace' /\ UNCHANGED <<cpu, call, hist, chip, kept>>
        BY <1>1, TypeParts DEF WriteTx, TypePlace
      <2> QED BY <2>1, <2>2, TypeParts, TypePartsNext, RestSame
    <1>6. CallInv'
      BY DEF CallInv, WriteTx, QuadMode, kept
    <1>7. sent' \in Waits <=>
             \/ sent' = OutLen /\ stage # "Program"
             \/ sent' = 1 /\ stage = "Read" /\ Qspi
      BY <1>2 DEF WriteTx, Waits
    <1>8. OutLen' = OutLen /\ stage' = stage /\ sent' = sent + 1 /\ build' = build
            /\ phase' = IF sent' \in Waits THEN "wait"
                        ELSE IF sent' = OutLen THEN "spin" ELSE "send"
      BY <1>2, SameFrame DEF WriteTx, kept
    <1>9. PhaseInv'
      <2> HIDE DEF Waits
      <2> QED BY <1>1, <1>2, <1>7, <1>8 DEF PhaseInv, QuadMode, Qspi, OfStatus
    <1>10. CountInv'
      BY <1>1, <1>8 DEF CountInv, WriteTx, Piece, PhaseInv
    <1> QED BY <1>5, <1>6, <1>9, <1>10

LEMMA SpinPlace ==
    ASSUME TypesAndPlace, Spin
    PROVE  TypesAndPlace'
    <1> USE DEF TypesAndPlace, PlaceInv
    <1>1. [k \in 1 .. Piece |-> Beyond] \in Seq(Byte)
      <2>1. stage = "Program" /\ call.op = "program" /\ done < call.len
        BY DEF Spin, PhaseInv, CallInv
      <2>2. Piece \in Nat /\ Beyond \in Byte
        BY <2>1, PieceFacts, SpiAssumption
      <2> QED BY <2>2
    <1>2. TypeOK'
      BY <1>1, TypeParts, TypePartsNext, RestSame, QueueType DEF Spin, TypePlace, driver, place
    <1>3. CallInv' /\ PhaseInv' /\ CountInv'
      BY DEF CallInv, PhaseInv, CountInv, Spin, QuadMode, Qspi, OutLen, OfStatus, Piece, kept, driver,
             place
    <1> QED BY <1>2, <1>3

LEMMA FeedPlace ==
    ASSUME TypesAndPlace, Feed
    PROVE  TypesAndPlace'
    <1> USE DEF TypesAndPlace, PlaceInv
    <1>1. <<0>> \in Seq(Byte)
      BY DEF Byte
    <1>2. TypeOK'
      BY <1>1, TypeParts, TypePartsNext, RestSame, QueueType DEF Feed, TypePlace
    <1>3. CallInv'
      BY DEF CallInv, Feed, QuadMode, kept
    <1>4. PhaseInv'
      BY DEF PhaseInv, Feed, QuadMode, Qspi, OutLen, kept, OfStatus
    <1>5. CountInv'
      BY DEF CountInv, Feed, Piece, PhaseInv
    <1> QED BY <1>2, <1>3, <1>4, <1>5

LEMMA WaitedPlace ==
    ASSUME TypesAndPlace, Waiting, Waited, hist' \in Histories
    PROVE  TypesAndPlace'
    <1> USE DEF TypesAndPlace, PlaceInv
    <1>1. stage # "end" /\ OutLen \in 1 .. 7 /\ Len(Out) = OutLen
      BY OutFacts DEF Waiting, PhaseInv
    <1>2. OutLen' = OutLen /\ stage' = stage /\ sent' = sent /\ build' = build
      BY SameFrame DEF Waited, kept
    <1>3. phase' = CASE phase = "fetch" -> "store"
                     [] phase = "last"  -> "release"
                     [] phase = "wait"  ->
                          IF stage = "Read" /\ QuadMode THEN "lines"
                          ELSE IF sent < OutLen THEN "send"
                          ELSE IF stage \in {"Read", "Erase"} THEN "clear" ELSE "release"
      BY <1>1 DEF Waited
    <1>4. TypeOK'
      <2>1. TypePlace' /\ UNCHANGED <<cpu, call, ctl, chip, kept>>
        BY <1>3, TypeParts DEF Waited, TypePlace, Waiting
      <2> QED BY <2>1, TypeParts, TypePartsNext, RestSame
    <1>5. CallInv'
      BY DEF CallInv, Waited, QuadMode, kept
    <1>6. PhaseInv'
      BY <1>1, <1>2, <1>3 DEF PhaseInv, Waiting, QuadMode, Qspi, OfStatus
    <1>7. CountInv'
      BY <1>1, <1>3 DEF CountInv, Waited, Piece, PhaseInv, Waiting
    <1> QED BY <1>4, <1>5, <1>6, <1>7

LEMMA SetLinesPlace ==
    ASSUME TypesAndPlace, SetLines
    PROVE  TypesAndPlace'
    <1> USE DEF TypesAndPlace, PlaceInv
    <1>1. stage # "end" /\ OutLen \in 1 .. 7 /\ Len(Out) = OutLen /\ stage = "Read" /\ QuadMode
      BY OutFacts DEF SetLines, PhaseInv
    <1>2. OutLen' = OutLen /\ stage' = stage /\ sent' = sent /\ build' = build
            /\ phase' = (IF phase = "single" THEN "next" ELSE IF sent < OutLen THEN "send" ELSE "clear")
      BY <1>1, SameFrame DEF SetLines, kept
    <1>3. TypeOK'
      BY TypeParts, TypePartsNext, RestSame DEF SetLines, TypePlace, Controls
    <1>4. CallInv'
      BY DEF CallInv, SetLines, QuadMode, kept
    <1>5. PhaseInv'
      BY <1>1, <1>2 DEF PhaseInv, SetLines, QuadMode, Qspi, OfStatus
    <1>6. CountInv'
      BY <1>1, <1>2 DEF CountInv, SetLines, Piece, PhaseInv
    <1> QED BY <1>3, <1>4, <1>5, <1>6

LEMMA ReadRxPlace ==
    ASSUME TypesAndPlace, ReadRx
    PROVE  TypesAndPlace'
    <1> USE DEF TypesAndPlace, PlaceInv
    <1>1. PICK b \in Received : cpu' = [cpu EXCEPT !.val = b]
      BY DEF ReadRx
    <1>2. cpu' \in Cpus /\ cpu'.stored = cpu.stored /\ cpu'.polls = cpu.polls
      BY <1>1, TypeParts, ReceivedType DEF Cpus
    <1>3. TypeOK'
      BY <1>2, TypeParts, TypePartsNext, RestSame, TakenType DEF ReadRx, TypePlace
    <1>4. CallInv'
      BY <1>2 DEF CallInv, ReadRx, QuadMode, kept
    <1>5. PhaseInv'
      BY DEF PhaseInv, ReadRx, QuadMode, Qspi, OutLen, kept, OfStatus
    <1>6. CountInv'
      BY <1>2 DEF CountInv, ReadRx, Piece, PhaseInv, OfStatus
    <1> QED BY <1>3, <1>4, <1>5, <1>6

LEMMA DrainPlace ==
    ASSUME TypesAndPlace, Drain
    PROVE  TypesAndPlace'
    <1> USE DEF TypesAndPlace, PlaceInv
    <1>1. cpu' \in Cpus /\ cpu'.polls = cpu.polls /\ ctl' \in Controls
      <2>1. CASE ctl.rx # <<>>
        <3>1. Head(ctl.rx) \in Byte
          BY <2>1, TypeParts, FifoFacts DEF Controls
        <3>2. cpu' \in Cpus /\ cpu'.polls = cpu.polls
          BY <2>1, <3>1, TypeParts DEF Drain, Cpus
        <3> QED BY <3>2, <2>1, TypeParts, TakenType DEF Drain
      <2>2. CASE ctl.rx = <<>>
        BY <2>2, TypeParts DEF Drain
      <2> QED BY <2>1, <2>2
    <1>2. TypeOK'
      BY <1>1, TypeParts, TypePartsNext, RestSame DEF Drain, TypePlace
    <1>3. CallInv'
      BY <1>1 DEF CallInv, Drain, QuadMode, kept
    <1>4. PhaseInv'
      BY DEF PhaseInv, Drain, QuadMode, Qspi, OutLen, kept, OfStatus
    <1>5. CountInv'
      BY DEF CountInv, Drain, CallInv, PhaseInv
    <1> QED BY <1>2, <1>3, <1>4, <1>5

\* After the last frame of a call.
LEMMA LeavePlace ==
    ASSUME TypesAndPlace, phase \in {"next", "count"}, stage # "end", NEW ret \in {OK, ERROR},
           Leave(ret), cpu' \in Cpus, hist' \in Histories, UNCHANGED <<ctl, chip, kept>>,
           call.op # "read"
    PROVE  TypesAndPlace'
    <1> USE DEF TypesAndPlace, PlaceInv
    <1>1. TypeOK'
      BY TypeParts, TypePartsNext, RestSame DEF Leave, TypePlace, Calls
    <1>2. CallInv'
      BY DEF CallInv, Leave, QuadMode, kept, Calls, TypeOK, OK, ERROR
    <1>3. PhaseInv'
      BY DEF PhaseInv, Leave
    <1>4. CountInv'
      BY DEF CountInv, Leave
    <1> QED BY <1>1, <1>2, <1>3, <1>4

\* After the last frame of a piece of a read.
LEMMA NextPiecePlace ==
    ASSUME TypesAndPlace, stage # "end", NextPiece, cpu' \in Cpus, hist' \in Histories,
           UNCHANGED <<ctl, chip, kept>>, call.op = "read",
           Len(cpu'.stored) = done + Piece
    PROVE  /\ TypesAndPlace'
           /\ stage' \in {Begins("read"), "end"} /\ stage' = "end" <=> done' = call.len
    <1> USE DEF TypesAndPlace, PlaceInv
    <1>1. /\ Piece \in 1 .. PageSize /\ done + Piece <= call.len /\ done \in Nat
          /\ call.len \in Nat /\ call.at = "running" /\ call.ret = OK
      BY PieceFacts DEF CallInv, TypeOK
    <1>2. /\ done' = done + Piece /\ sent' = 0 /\ qe' = 2 /\ call' = call
          /\ \/ done' < call.len /\ stage' = (IF QuadMode THEN "Status1" ELSE "Read")
             \/ done' = call.len /\ stage' = "end"
          /\ phase' = IF stage' = "Status1" THEN "empty" ELSE "select"
      BY <1>1 DEF NextPiece, Begins, Start, OfStatus, QuadMode, Qspi
    <1>3. QuadMode' = QuadMode /\ Qspi' = Qspi /\ (QuadMode => Qspi)
      BY DEF QuadMode, Qspi, kept
    <1>4. TypeOK'
      <2>1. TypePlace'
        BY <1>1, <1>2, Constants DEF TypePlace
      <2> QED BY <1>2, <2>1, TypeParts, TypePartsNext, RestSame
    <1>5. CallInv'
      BY <1>1, <1>2, <1>3 DEF CallInv
    <1>6. PhaseInv'
      BY <1>2, <1>3, OutFacts, <1>4 DEF PhaseInv, OfStatus, OutLen
    <1>7. CountInv'
      <2>1. qe' # 0
        BY <1>2
      <2> QED BY <2>1, <1>2 DEF CountInv
    <1> QED BY <1>1, <1>2, <1>4, <1>5, <1>6, <1>7 DEF Begins

\* The place after Go.
LEMMA GoPhase ==
    ASSUME NEW s \in {"Status1", "Status2", "WriteEnable", "WriteStatus", "Poll", "Read",
                      "Program", "Erase"},
           Go(s), build' = build
    PROVE  /\ stage' = s /\ sent' = 0 /\ done' = done /\ call' = call
           /\ phase' = IF s = "Poll" THEN "count"
                       ELSE IF s \in {"Status1", "Status2"} /\ Qspi THEN "empty" ELSE "select"
           /\ QuadMode' = QuadMode /\ Qspi' = Qspi /\ OutLen' \in 1 .. 7 /\ Piece' = Piece
    <1>1. stage' = s /\ sent' = 0 /\ done' = done /\ call' = call
            /\ QuadMode' = QuadMode /\ Qspi' = Qspi
      BY DEF Go, QuadMode, Qspi
    <1>2. phase' = IF s = "Poll" THEN "count"
                   ELSE IF s \in {"Status1", "Status2"} /\ Qspi THEN "empty" ELSE "select"
      BY DEF Go, Start, OfStatus
    <1>3. OutLen' \in 1 .. 7
      BY <1>1 DEF OutLen
    <1> QED BY <1>1, <1>2, <1>3 DEF Piece

LEMMA GoPlace ==
    ASSUME TypesAndPlace, stage # "end", cpu' \in Cpus, hist' \in Histories,
           UNCHANGED <<ctl, chip, kept>>, qe' \in {0, 2},
           NEW s \in {"Status1", "Status2", "WriteEnable", "WriteStatus", "Poll", "Read",
                      "Program", "Erase"},
           Go(s),
           s \in {"Status1", "Status2", "WriteStatus"} => QuadMode /\ call.op = "read",
           s = "Read" => call.op = "read" /\ qe' = 2,
           s \in {"WriteEnable", "Poll"} =>
               call.op \in {"read", "program", "erase"} /\ (call.op = "read" => QuadMode),
           s = "Poll" => call.op # "program" /\ cpu'.polls > 0,
           s = "Program" => call.op = "program",
           s = "Erase" => call.op = "erase",
           call.op = "read" =>
               Len(cpu'.stored) = done + IF s # "Read" /\ qe' = 0 THEN Piece ELSE 0
    PROVE  TypesAndPlace'
    <1> USE DEF TypesAndPlace, PlaceInv
    <1>1. /\ stage' = s /\ sent' = 0 /\ done' = done /\ call' = call
          /\ phase' = IF s = "Poll" THEN "count"
                      ELSE IF s \in {"Status1", "Status2"} /\ Qspi THEN "empty" ELSE "select"
          /\ QuadMode' = QuadMode /\ Qspi' = Qspi /\ OutLen' \in 1 .. 7 /\ Piece' = Piece
      BY GoPhase DEF kept
    <1>2. TypeOK'
      <2>1. TypePlace'
        BY <1>1, TypeParts DEF TypePlace
      <2> QED BY <1>1, <2>1, TypeParts, TypePartsNext, RestSame
    <1>3. CallInv'
      BY <1>1 DEF CallInv
    <1>4. PhaseInv'
      BY <1>1 DEF PhaseInv, OfStatus
    <1>5. CountInv'
      <2>1. done \in Nat
        BY DEF TypeOK
      <2> QED BY <1>1, <2>1 DEF CountInv
    <1> QED BY <1>2, <1>3, <1>4, <1>5

LEMMA CheckIdPlace ==
    ASSUME TypesAndPlace, CheckId
    PROVE  TypesAndPlace'
    <1>1. PICK ret \in {OK, ERROR} : Leave(ret)
      BY DEF CheckId
    <1>2. stage = "ReadID" /\ call.op = "init" /\ phase = "next"
            /\ cpu' = cpu /\ UNCHANGED <<ctl, chip, kept>> /\ hist' = hist
      BY DEF CheckId, Between, TypesAndPlace, PlaceInv, CallInv
    <1> QED BY <1>1, <1>2, LeavePlace, TypeParts DEF TypesAndPlace

\* WithQE changes one bit of a byte.
LEMMA WithQEFacts ==
    ASSUME NEW v \in Byte, NEW bit \in {0, 2}
    PROVE  /\ WithQE(v, bit) \in Byte
           /\ (WithQE(v, bit) \div 2) % 2 = bit \div 2
           /\ WithQE(v, bit) \div 4 = v \div 4
    <1> DEFINE q == v \div 4
               r == v % 4
    <1>1. q \in Nat /\ r \in 0 .. 3 /\ v = 4 * q + r /\ v \in Nat /\ v < 256 /\ q < 64
      BY DEF Byte
    <1>2. (v \div 2) % 2 = 1 <=> r \in {2, 3}
      BY <1>1
    <1> HIDE DEF q, r
    <1> DEFINE t == IF r \in {2, 3} THEN r - 2 + bit ELSE r + bit
    <1>3. t \in 0 .. 3 /\ t \div 2 = bit \div 2 /\ (t \div 2) % 2 = bit \div 2
      BY <1>1
    <1>4. WithQE(v, bit) = 4 * q + t
      BY <1>1, <1>2 DEF WithQE
    <1> HIDE DEF t
    <1>5. 4 * q + t \in 0 .. 255
      BY <1>1, <1>3
    <1>6. (4 * q + t) \div 4 = q
      BY <1>1, <1>3
    <1>7. (4 * q + t) \div 2 = 2 * q + (t \div 2)
      BY <1>1, <1>3
    <1>8. (2 * q + (t \div 2)) % 2 = bit \div 2
      BY <1>1, <1>3
    <1> QED BY <1>4, <1>5, <1>6, <1>7, <1>8 DEF q, Byte

LEMMA KeepStatusPlace ==
    ASSUME TypesAndPlace, KeepStatus
    PROVE  TypesAndPlace'
    <1>1. /\ stage \in {"Status1", "Status2"} /\ phase = "next" /\ call.op = "read" /\ QuadMode
          /\ UNCHANGED <<ctl, chip, kept>> /\ hist' = hist /\ qe' = qe /\ qe \in {0, 2}
          /\ Len(cpu.stored) = done + IF qe = 0 THEN Piece ELSE 0
      BY DEF KeepStatus, Between, TypesAndPlace, TypeOK, PlaceInv, CallInv, CountInv
    <1>2. cpu \in Cpus /\ cpu.val \in Byte /\ hist \in Histories
      BY TypeParts DEF TypesAndPlace, Cpus
    <1>3. CASE stage = "Status1"
      <2>1. Go("Status2") /\ cpu' = [cpu EXCEPT !.reg1 = cpu.val]
        BY <1>3 DEF KeepStatus
      <2>2. cpu' \in Cpus /\ cpu'.stored = cpu.stored
        BY <2>1, <1>2 DEF Cpus
      <2> QED BY <1>1, <1>2, <1>3, <2>1, <2>2, GoPlace
    <1>4. CASE stage = "Status2"
      <2>1. Go("WriteEnable") /\ cpu' = [cpu EXCEPT !.reg2 = WithQE(cpu.val, qe)]
        BY <1>4 DEF KeepStatus
      <2>2. cpu' \in Cpus /\ cpu'.stored = cpu.stored
        BY <2>1, <1>1, <1>2, WithQEFacts DEF Cpus
      <2> QED BY <1>1, <1>2, <1>4, <2>1, <2>2, GoPlace
    <1> QED BY <1>1, <1>3, <1>4

LEMMA EnabledPlace ==
    ASSUME TypesAndPlace, Enabled
    PROVE  TypesAndPlace'
    <1>1. /\ stage = "WriteEnable" /\ phase = "next" /\ call.op \in {"read", "program", "erase"}
          /\ call.op = "read" => QuadMode
          /\ UNCHANGED <<ctl, chip, kept>> /\ hist' = hist /\ cpu' = cpu /\ qe' = qe
          /\ qe \in {0, 2} /\ cpu \in Cpus /\ hist \in Histories
      BY TypeParts DEF Enabled, Between, TypesAndPlace, TypePlace, PlaceInv, CallInv
    <1>2. call.op = "read" => Len(cpu.stored) = done + IF qe = 0 THEN Piece ELSE 0
      BY <1>1 DEF TypesAndPlace, PlaceInv, CountInv
    <1>3. CASE call.op = "read"
      BY <1>1, <1>2, <1>3, GoPlace DEF Enabled
    <1>4. CASE call.op = "program"
      BY <1>1, <1>4, GoPlace DEF Enabled
    <1>5. CASE call.op = "erase"
      BY <1>1, <1>5, GoPlace DEF Enabled
    <1> QED BY <1>1, <1>3, <1>4, <1>5

LEMMA StartPollingPlace ==
    ASSUME TypesAndPlace, StartPolling
    PROVE  TypesAndPlace'
    <1>1. /\ stage \in {"Erase", "WriteStatus"} /\ phase = "next" /\ call.op \in {"read", "erase"}
          /\ call.op = "read" => QuadMode
          /\ UNCHANGED <<ctl, chip, kept>> /\ hist' = hist /\ qe' = qe
          /\ qe \in {0, 2} /\ cpu \in Cpus /\ hist \in Histories
      BY TypeParts DEF StartPolling, Between, TypesAndPlace, TypePlace, PlaceInv, CallInv
    <1>2. call.op = "read" => Len(cpu.stored) = done + IF qe = 0 THEN Piece ELSE 0
      BY <1>1 DEF TypesAndPlace, PlaceInv, CountInv, CallInv
    <1>3. cpu' \in Cpus /\ cpu'.polls > 0 /\ cpu'.stored = cpu.stored
      <2>1. MaxPolls \in 0 .. MaxPolls /\ MaxPolls > 0
        BY Constants
      <2>2. cpu' = [cpu EXCEPT !.polls = MaxPolls]
        BY DEF StartPolling
      <2> QED BY <1>1, <2>1, <2>2 DEF Cpus
    <1> QED BY <1>1, <1>2, <1>3, GoPlace DEF StartPolling

LEMMA PolledPlace ==
    ASSUME TypesAndPlace, stage = "Poll", NEW ret \in {OK, ERROR}, Polled(ret), phase \in {"next", "count"},
           cpu' \in Cpus, cpu'.stored = cpu.stored, hist' \in Histories,
           UNCHANGED <<ctl, chip, kept>>
    PROVE  TypesAndPlace'
    <1>1. qe \in {0, 2} /\ cpu \in Cpus
      BY TypeParts DEF TypesAndPlace, TypePlace
    <1>2. call.op = "read" => Len(cpu.stored) = done + IF qe = 0 THEN Piece ELSE 0
      BY DEF TypesAndPlace, PlaceInv, CountInv, CallInv
    <1>3. CASE call.op = "erase" /\ Leave(ret)
      BY <1>3, LeavePlace
    <1>4. CASE call.op = "read" /\ qe = 2 /\ Go("Read") /\ UNCHANGED qe
      <2>1. Len(cpu'.stored) = done + IF "Read" # "Read" /\ qe' = 0 THEN Piece ELSE 0
        BY <1>2, <1>4
      <2> QED BY <1>1, <1>4, <2>1, GoPlace
    <1>5. CASE call.op = "read" /\ qe = 0 /\ NextPiece
      BY <1>2, <1>5, NextPiecePlace
    <1> QED BY <1>3, <1>4, <1>5 DEF Polled

LEMMA CountPlace ==
    ASSUME TypesAndPlace, Count
    PROVE  TypesAndPlace'
    <1>1. /\ stage = "Poll" /\ phase = "count" /\ cpu.polls > 0 /\ sent = 0
          /\ UNCHANGED <<ctl, chip, kept>>
      BY DEF Count, TypesAndPlace, PlaceInv, PhaseInv, CallInv
    <1>2. cpu \in Cpus /\ hist \in Histories
      BY TypeParts DEF TypesAndPlace
    <1>3. cpu' \in Cpus /\ cpu'.stored = cpu.stored /\ cpu'.polls = cpu.polls - 1
            /\ cpu.polls \in Nat /\ hist' \in Histories
      <2>1. cpu.polls \in Nat /\ cpu.polls - 1 \in 0 .. MaxPolls
        BY <1>1, <1>2, Constants DEF Cpus
      <2>2. cpu' = [cpu EXCEPT !.polls = cpu.polls - 1]
        BY DEF Count
      <2>3. hist' = [hist EXCEPT !.slow = TRUE] \/ hist' = hist
        BY DEF Count
      <2>4. hist' \in Histories
        BY <2>3, <1>2 DEF Histories
      <2> QED BY <2>1, <2>2, <2>4, <1>2 DEF Cpus
    <1>4. CASE cpu.polls = 1
      BY <1>1, <1>3, <1>4, PolledPlace DEF Count
    <1>5. CASE cpu.polls # 1
      <2>1. /\ phase' = (IF Qspi THEN "empty" ELSE "select") /\ sent' = 0
            /\ UNCHANGED <<stage, done, qe, call, hist>> /\ build' = build
        BY <1>5 DEF Count, kept
      <2>2. TypeOK'
        <3>1. TypePlace'
          BY <2>1, TypeParts DEF TypePlace, TypesAndPlace
        <3> QED BY <3>1, <1>1, <1>3, <2>1, TypeParts, TypePartsNext, RestSame DEF TypesAndPlace
      <2>3. CallInv' /\ PhaseInv'
        BY <1>1, <1>3, <1>5, <2>1
           DEF TypesAndPlace, PlaceInv, CallInv, PhaseInv, QuadMode, Qspi, OfStatus
      <2>4. CountInv'
        BY <1>1, <1>3, <2>1 DEF TypesAndPlace, PlaceInv, CountInv, Piece
      <2> QED BY <2>2, <2>3, <2>4 DEF TypesAndPlace, PlaceInv
    <1> QED BY <1>4, <1>5

LEMMA TestPlace ==
    ASSUME TypesAndPlace, Test
    PROVE  TypesAndPlace'
    <1>1. /\ stage = "Poll" /\ phase = "next" /\ cpu.polls > 0
          /\ call.op \in {"read", "erase"} /\ (call.op = "read" => QuadMode)
          /\ UNCHANGED <<ctl, chip, kept, cpu, hist>>
      BY DEF Test, Between, TypesAndPlace, PlaceInv, CallInv
    <1>2. cpu \in Cpus /\ hist \in Histories /\ qe \in {0, 2}
      BY TypeParts DEF TypesAndPlace, TypePlace
    <1>3. call.op = "read" => Len(cpu.stored) = done + IF qe = 0 THEN Piece ELSE 0
      BY <1>1 DEF TypesAndPlace, PlaceInv, CountInv
    <1>4. CASE Go("Poll") /\ UNCHANGED qe
      BY <1>1, <1>2, <1>3, <1>4, GoPlace
    <1>5. CASE Polled(OK)
      BY <1>1, <1>2, <1>5, PolledPlace
    <1> QED BY <1>4, <1>5 DEF Test

LEMMA ReturnPlace ==
    ASSUME TypesAndPlace, Return
    PROVE  TypesAndPlace'
    <1> USE DEF TypesAndPlace, PlaceInv
    <1>1. TypeOK'
      BY TypeParts, TypePartsNext, RestSame DEF Return, TypePlace, Calls, place
    <1>2. CallInv'
      BY TypeParts DEF CallInv, Return, QuadMode, kept, place, Calls
    <1>3. PhaseInv'
      BY DEF PhaseInv, Return, place
    <1>4. CountInv'
      BY TypeParts DEF CountInv, Return, place, Calls
    <1> QED BY <1>1, <1>2, <1>3, <1>4

-----------------------------------------------------------------------------
(* So do calls, the controller, the chip and resets.                       *)

LEMMA ReleasePlace ==
    ASSUME TypesAndPlace, Release
    PROVE  TypesAndPlace'
    <1> USE DEF TypesAndPlace, PlaceInv
    <1>1. chip.frame \in Seq(Byte) /\ ChipTypeOK
      BY DEF TypeOK, ChipTypeOK
    <1>2. ChipTypeOK'
      BY <1>1, DeselectedCases DEF Release, ChipTypeOK, kept
    <1>3. TypeOK'
      <2>1. TypeRest' /\ ctl' \in Controls /\ TypePlace'
        BY TypeParts DEF Release, TypeRest, kept, Controls, TypePlace
      <2> QED BY <1>2, <2>1, TypeParts, TypePartsNext DEF Release
    <1>4. CallInv'
      BY DEF CallInv, Release, QuadMode, kept
    <1>5. PhaseInv'
      BY DEF PhaseInv, Release, QuadMode, Qspi, OutLen, kept, OfStatus
    <1>6. CountInv'
      BY DEF CountInv, Release, Piece, PhaseInv, OfStatus
    <1> QED BY <1>3, <1>4, <1>5, <1>6

\* What one more byte makes of the frame and the FIFOs.
LEMMA ShiftTypes ==
    ASSUME TypeOK, ctl.tx # <<>>
    PROVE  /\ ctl.tx \in Fifo /\ ctl.rx \in Fifo /\ chip.frame \in Seq(Byte)
           /\ Head(ctl.tx) = ctl.tx[1] /\ Head(ctl.tx) \in Byte /\ Tail(ctl.tx) \in Fifo
           /\ RightMode(Append(chip.frame, Head(ctl.tx))) \in BOOLEAN
           /\ HeardNext \in Seq(Byte) /\ Answer(HeardNext) \in Byte
    <1>1. ctl.tx \in Fifo /\ ctl.rx \in Fifo /\ chip.frame \in Seq(Byte)
      BY TypeParts DEF Controls, TypeOK, ChipTypeOK
    <1>2. Head(ctl.tx) = ctl.tx[1] /\ Head(ctl.tx) \in Byte /\ Tail(ctl.tx) \in Fifo
      BY <1>1, FifoFacts
    <1>3. RightMode(Append(chip.frame, Head(ctl.tx))) \in BOOLEAN
      BY DEF RightMode
    <1>4. HeardNext \in Seq(Byte) /\ Len(HeardNext) > 0
      BY <1>1, <1>2, <1>3, HeardCases, Constants DEF HeardNext
    <1>5. Answer(HeardNext) \in Byte
      BY <1>4, AnswerByte DEF TypeOK
    <1> QED BY <1>1, <1>2, <1>3, <1>4, <1>5

LEMMA ShiftPlace ==
    ASSUME TypesAndPlace, Shift
    PROVE  TypesAndPlace'
    <1> USE DEF TypesAndPlace, PlaceInv
    <1> DEFINE in == IF ctl.ss = "low" THEN Answer(HeardNext) ELSE Lost
    <1>1. ctl.tx # <<>> /\ UNCHANGED <<driver, hist, kept>>
            /\ ctl' = [ctl EXCEPT !.tx = Tail(@),
                              !.rx = IF Len(@) < FifoDepth THEN Append(@, in) ELSE @]
            /\ chip' = IF ctl.ss = "low" THEN [chip EXCEPT !.frame = HeardNext] ELSE chip
      BY DEF Shift
    <1>2. in \in Byte
      BY <1>1, ShiftTypes, Bytes
    <1> HIDE DEF in
    <1>3. ctl' \in Controls
      <2>1. ctl.rx \in Fifo /\ Tail(ctl.tx) \in Fifo
        BY <1>1, ShiftTypes
      <2>2. (IF Len(ctl.rx) < FifoDepth THEN Append(ctl.rx, in) ELSE ctl.rx) \in Fifo
        BY <1>2, <2>1, Constants DEF Fifo
      <2> QED BY <1>1, <2>1, <2>2, TypeParts DEF Controls
    <1>4. ChipTypeOK'
      <2>1. HeardNext \in Seq(Byte)
        BY <1>1, ShiftTypes
      <2> QED BY <2>1, <1>1 DEF TypeOK, ChipTypeOK, kept
    <1>5. TypeOK'
      BY <1>1, <1>3, <1>4, TypeParts, TypePartsNext DEF TypePlace, TypeRest, driver, place, kept
    <1>6. CallInv' /\ PhaseInv' /\ CountInv'
      BY <1>1 DEF CallInv, PhaseInv, CountInv, QuadMode, Qspi, OutLen, OfStatus, Piece, kept, driver,
             place
    <1> QED BY <1>5, <1>6

LEMMA ChipStepPlace ==
    ASSUME TypesAndPlace, Executable(chip.todo), ChipStep
    PROVE  TypesAndPlace'
    <1> USE DEF TypesAndPlace, PlaceInv
    <1>1. ChipTypeOK'
      BY EndsFacts DEF ChipStep, TypeOK
    <1>2. TypeOK'
      BY <1>1, TypeParts, TypePartsNext DEF ChipStep, TypePlace, TypeRest, driver, place
    <1>3. CallInv' /\ PhaseInv' /\ CountInv'
      BY DEF ChipStep, CallInv, PhaseInv, CountInv, QuadMode, Qspi, OutLen, OfStatus, Piece, driver,
             place
    <1> QED BY <1>2, <1>3

LEMMA BlankFacts ==
    /\ NoCall \in Calls /\ NoLocals \in Cpus /\ NoTraffic \in Controls
    /\ NoTraffic.tx = <<>> /\ NoTraffic.rx = <<>> /\ NoTraffic.ss = "high"
    /\ NoTraffic.mode = "single" /\ NoLocals.stored = <<>> /\ NoCall.op = "none"
    /\ NoCall.at = "none" /\ Len(NoLocals.stored) = 0
    <1>1. <<>> \in Seq(Byte) /\ <<>> \in Fifo /\ Len(<<>>) = 0
      BY FifoFacts
    <1>2. NoTraffic \in Controls /\ NoTraffic.tx = <<>> /\ NoTraffic.rx = <<>> /\ NoTraffic.ss = "high"
            /\ NoTraffic.mode = "single"
      BY <1>1 DEF NoTraffic, Controls
    <1>3. NoLocals \in Cpus /\ NoLocals.stored = <<>>
      BY <1>1, Constants DEF NoLocals, Cpus, Byte
    <1> QED BY <1>1, <1>2, <1>3 DEF NoCall, Calls

LEMMA RestartPlace ==
    ASSUME TypesAndPlace, Restart, ChipTypeOK'
    PROVE  TypesAndPlace'
    <1> USE DEF TypesAndPlace, PlaceInv
    <1>1. TypePlace'
      BY DEF Restart, TypePlace
    <1>2. TypeRest'
      <2>1. resets' \in 0 .. MaxResets
        <3>1. MaxResets \in Nat /\ resets \in 0 .. MaxResets
          BY SpiAssumption, TypeParts DEF TypeRest
        <3>2. resets < MaxResets /\ resets' = resets + 1
          BY DEF Restart
        <3> QED BY <3>1, <3>2
      <2> QED BY <2>1, TypeParts DEF Restart, TypeRest
    <1>3. hist' \in Histories
      BY TypeParts DEF Restart, Histories
    <1>4. TypeOK'
      BY <1>1, <1>2, <1>3, BlankFacts, TypePartsNext DEF Restart
    <1>5. CallInv' /\ PhaseInv' /\ CountInv'
      BY BlankFacts DEF Restart, CallInv, PhaseInv, CountInv, OfStatus
    <1> QED BY <1>4, <1>5

LEMMA BeginPlace ==
    ASSUME TypesAndPlace, calls' \in 0 .. MaxCalls,
           NEW op \in {"init", "read", "program", "erase"}, NEW addr \in Nat, NEW len \in Nat,
           NEW accepted \in BOOLEAN, NEW cells \in SUBSET Cell,
           Begin(op, addr, len, accepted, cells),
           op # "init" => (accepted <=> addr < FlashSize),
           op = "init" => accepted
    PROVE  TypesAndPlace'
    <1> USE DEF TypesAndPlace, PlaceInv
    <1> DEFINE works == accepted /\ (op \in {"read", "program"} => len > 0)
    <1>1. /\ call' = [op |-> op, addr |-> addr, len |-> len,
                      at |-> IF accepted THEN "running" ELSE "returned",
                      ret |-> IF accepted THEN OK ELSE ERROR_PARAMETER]
          /\ stage' = (IF works THEN Begins(op) ELSE "end")
          /\ sent' = 0 /\ done' = 0 /\ qe' = 2 /\ cpu' = NoLocals
          /\ pre' = mem /\ owed' = (IF accepted THEN cells ELSE {}) \cup (IF Busy THEN owed ELSE {})
          /\ UNCHANGED <<build, ctl, chip, mem, hist, resets>>
      BY DEF Begin
    <1>2. Begins(op) = CASE op = "init" -> "ReadID"
                         [] op = "read" -> IF QuadMode THEN "Status1" ELSE "Read"
                         [] OTHER -> "WriteEnable"
      BY DEF Begins
    <1>3. phase' = IF stage' = "Status1" THEN "empty" ELSE "select"
      <2>1. phase' = Start(stage')
        BY DEF Begin
      <2> QED BY <2>1, <1>1, <1>2 DEF Start, OfStatus, QuadMode, Qspi
    <1>4. call' \in Calls /\ call'.op = op /\ call'.addr = addr /\ call'.len = len
            /\ call'.at = (IF accepted THEN "running" ELSE "returned")
            /\ call'.ret = (IF accepted THEN OK ELSE ERROR_PARAMETER)
      BY <1>1 DEF Calls
    <1> HIDE DEF works
    <1>5. TypeOK'
      <2>1. TypePlace'
        BY <1>1, <1>2, <1>3 DEF TypePlace
      <2>2. TypeRest' /\ ChipTypeOK'
        BY <1>1 DEF TypeRest, TypeOK, ChipTypeOK
      <2> QED BY <1>1, <1>4, <2>1, <2>2, BlankFacts, TypeParts, TypePartsNext
    <1>6. QuadMode' = QuadMode /\ Qspi' = Qspi /\ (QuadMode => Qspi)
      BY <1>1 DEF QuadMode, Qspi
    <1>7. CallInv'
      BY <1>1, <1>2, <1>4, <1>6 DEF CallInv, works, OK, ERROR_PARAMETER
    <1>8. PhaseInv'
      BY <1>1, <1>2, <1>3, <1>6 DEF PhaseInv, OfStatus
    <1>9. CountInv'
      BY <1>1, <1>2, <1>3, BlankFacts DEF CountInv
    <1> QED BY <1>5, <1>7, <1>8, <1>9

\* The calls that may be made, and what each may change.
LEMMA CallCases ==
    ASSUME Call, TypeOK
    PROVE  /\ Up /\ calls' \in 0 .. MaxCalls
           /\ \E addr \in Nat : \E len \in Nat :
                 \/ CallRead(addr, len)
                 \/ CallProgram(addr, len)
                 \/ len = 0 /\ CallErase(addr)
    <1>1. calls' \in 0 .. MaxCalls
      <2>1. MaxCalls \in Nat /\ calls \in 0 .. MaxCalls
        BY SpiAssumption, TypeParts DEF TypeRest
      <2>2. calls < MaxCalls /\ calls' = calls + 1
        BY DEF Call
      <2> QED BY <2>1, <2>2
    <1>2. PICK addr \in Addrs :
             \/ \E cnt \in Counts : LET len == cnt * DataWidth
                                    IN  CallRead(addr, len) \/ CallProgram(addr, len)
             \/ CallErase(addr)
      BY DEF Call
    <1>3. addr \in Nat
      BY SpiAssumption
    <1>4. ASSUME NEW cnt \in Counts PROVE cnt * DataWidth \in Nat
      <2>1. cnt \in Nat /\ DataWidth \in Nat
        BY SpiAssumption
      <2> QED BY <2>1, SMT
    <1>5. \E len \in Nat :
             \/ CallRead(addr, len)
             \/ CallProgram(addr, len)
             \/ len = 0 /\ CallErase(addr)
      <2>1. CASE CallErase(addr)
        BY <2>1, Zenon, 0 \in Nat
      <2>2. ASSUME NEW cnt \in Counts,
                   CallRead(addr, cnt * DataWidth) \/ CallProgram(addr, cnt * DataWidth)
            PROVE  \E len \in Nat : CallRead(addr, len) \/ CallProgram(addr, len)
        BY <1>4, <2>2, Zenon
      <2> QED BY <1>2, <2>1, <2>2, Zenon
    <1>6. Up
      BY DEF Call
    <1> QED BY <1>1, <1>3, <1>5, <1>6, Zenon

LEMMA CellSets ==
    /\ \A a : Sector(a) \subseteq Cell /\ Page(a) \subseteq Cell
    /\ \A addr, len : (UNION {Page(a) : a \in Span(addr, len)}) \subseteq Cell
    <1>1. \A a : Sector(a) \subseteq Cell /\ Page(a) \subseteq Cell
      BY DEF Sector, Page
    <1> QED BY <1>1

LEMMA CallPlace ==
    ASSUME TypesAndPlace, Call
    PROVE  TypesAndPlace'
    <1>1. PICK addr \in Nat : \E len \in Nat :
             CallRead(addr, len) \/ CallProgram(addr, len) \/ (len = 0 /\ CallErase(addr))
      BY CallCases DEF TypesAndPlace
    <1>2. PICK len \in Nat :
             CallRead(addr, len) \/ CallProgram(addr, len) \/ (len = 0 /\ CallErase(addr))
      BY <1>1
    <1>3. calls' \in 0 .. MaxCalls
      BY CallCases DEF TypesAndPlace
    <1>4. InRange(addr) \in BOOLEAN /\ (InRange(addr) <=> addr < FlashSize)
      BY DEF InRange
    <1>5. CASE CallRead(addr, len)
      <2>1. {} \in SUBSET Cell
        OBVIOUS
      <2> QED BY <2>1, <1>3, <1>4, <1>5, BeginPlace DEF CallRead
    <1>6. CASE CallProgram(addr, len)
      <2> DEFINE cells == UNION {Page(a) : a \in Span(addr, len)}
      <2>1. cells \in SUBSET Cell
        BY CellSets, Zenon
      <2>2. Begin("program", addr, len, InRange(addr), cells)
        BY <1>6 DEF CallProgram
      <2> HIDE DEF cells
      <2> QED BY <2>1, <2>2, <1>3, <1>4, BeginPlace
    <1>7. CASE CallErase(addr)
      <2>1. Sector(addr) \in SUBSET Cell /\ Begin("erase", addr, 0, InRange(addr), Sector(addr))
        BY <1>7, CellSets DEF CallErase
      <2> QED BY <2>1, <1>3, <1>4, BeginPlace
    <1> QED BY <1>2, <1>5, <1>6, <1>7

LEMMA InitializePlace ==
    ASSUME TypesAndPlace, Initialize
    PROVE  TypesAndPlace'
    <1>1. Begin("init", 0, 0, TRUE, {}) /\ calls' \in 0 .. MaxCalls
      BY TypeParts DEF Initialize, TypesAndPlace, TypeRest
    <1>2. {} \in SUBSET Cell
      OBVIOUS
    <1> QED BY <1>1, <1>2, BeginPlace

LEMMA StutterPlace ==
    ASSUME TypesAndPlace, UNCHANGED vars
    PROVE  TypesAndPlace'
    <1> USE DEF TypesAndPlace, PlaceInv, vars, kept, driver, place
    <1>1. TypeOK'
      BY TypeParts, TypePartsNext DEF TypePlace, TypeRest, TypeOK, ChipTypeOK
    <1>2. CallInv' /\ PhaseInv' /\ CountInv'
      BY DEF CallInv, PhaseInv, CountInv, QuadMode, Qspi, OutLen, OfStatus, Piece
    <1> QED BY <1>1, <1>2

LEMMA InitPlace ==
    ASSUME Init
    PROVE  TypesAndPlace /\ chip.todo = <<>> /\ chip.frame = <<>>
    <1>1. ChipTypeOK /\ chip.todo = <<>> /\ chip.frame = <<>>
      <2>1. PICK p \in Protection, id \in ChipIds :
               chip = [frame |-> <<>>, todo |-> <<>>, wel |-> FALSE, sr1 |-> p[1], sr2 |-> p[2],
                       id |-> id]
        BY DEF Init, ChipInit
      <2>2. p[1] \in {0, 4} /\ p[2] \in {0, 4}
        BY NorAssumption
      <2>3. mem \in [Cell -> Byte]
        BY NorAssumption DEF Init, ChipInit
      <2>4. <<>> \in Seq(Byte)
        OBVIOUS
      <2> QED BY <2>1, <2>2, <2>3, <2>4 DEF ChipTypeOK
    <1>2. TypePlace /\ hist \in Histories
      BY DEF Init, TypePlace, Histories
    <1>3. TypeRest
      BY <1>1, SpiAssumption DEF Init, TypeRest, ChipTypeOK
    <1>4. TypeOK
      BY <1>1, <1>2, <1>3, BlankFacts, TypeParts DEF Init
    <1>5. CallInv /\ PhaseInv /\ CountInv
      BY BlankFacts DEF Init, CallInv, PhaseInv, CountInv, OfStatus
    <1> QED BY <1>1, <1>4, <1>5 DEF TypesAndPlace, PlaceInv

\* The steps that the controller, the chip and a reset have no part in.
Move == \/ ClearRx \/ Select \/ WriteTx \/ Spin \/ Feed \/ WaitIdle
        \/ Store \/ SetLines \/ ReadRx \/ Drain
        \/ CheckId \/ KeepStatus \/ Enabled \/ StartPolling \/ Count \/ Test \/ PieceRead
        \/ Return

LEMMA MovePlace ==
    ASSUME TypesAndPlace, Move
    PROVE  TypesAndPlace'
    <1>1. CASE WaitIdle
      BY <1>1, WaitedPlace, TypeParts DEF WaitIdle, TypesAndPlace
    <1> QED BY <1>1, ClearRxPlace, SelectPlace, WriteTxPlace, SpinPlace, FeedPlace, StorePlace,
               SetLinesPlace, ReadRxPlace, DrainPlace, CheckIdPlace, KeepStatusPlace, EnabledPlace,
               StartPollingPlace, CountPlace, TestPlace, PieceReadPlace, ReturnPlace DEF Move

LEMMA NextCases ==
    ASSUME Next
    PROVE  Initialize \/ Call \/ Move \/ WaitGivesUp \/ Release \/ Shift \/ ChipStep \/ Reset
              \/ PowerLoss
    BY DEF Next, DriverStep, Move

LEMMA ResetChip ==
    ASSUME TypeOK, Reset
    PROVE  ChipTypeOK' /\ Restart /\ mem' = mem /\ chip' \in Deselected(chip.frame)
    <1>1. chip.frame \in Seq(Byte) /\ ChipTypeOK
      BY DEF TypeOK, ChipTypeOK
    <1>2. chip' \in Deselected(chip.frame) /\ mem' = mem /\ Restart
      BY DEF Reset
    <1> QED BY <1>1, <1>2, DeselectedCases DEF ChipTypeOK

LEMMA PowerLossChip ==
    ASSUME TypeOK, Executable(chip.todo), PowerLoss
    PROVE  ChipTypeOK' /\ Restart
    BY PowerFacts DEF PowerLoss, TypeOK

LEMMA GiveUpPlace ==
    ASSUME TypesAndPlace, WaitGivesUp
    PROVE  TypesAndPlace' /\ hist'.stuck /\ chip' = chip
    <1>1. hist' \in Histories /\ hist'.stuck
      BY TypeParts DEF WaitGivesUp, TypesAndPlace, Histories
    <1> QED BY <1>1, WaitedPlace DEF WaitGivesUp, Waited

LEMMA NextPlace ==
    ASSUME TypesAndPlace, Executable(chip.todo), Next
    PROVE  TypesAndPlace'
    <1>1. CASE Reset
      BY <1>1, ResetChip, RestartPlace DEF TypesAndPlace
    <1>2. CASE PowerLoss
      BY <1>2, PowerLossChip, RestartPlace DEF TypesAndPlace
    <1> QED BY <1>1, <1>2, NextCases, InitializePlace, CallPlace, MovePlace, GiveUpPlace,
               ReleasePlace, ShiftPlace, ChipStepPlace

\* What each kind of step does to the chip.
LEMMA MoveChip ==
    ASSUME Move, hist \in Histories
    PROVE  /\ chip' = chip /\ mem' = mem /\ build' = build /\ pre' = pre /\ owed' = owed
           /\ hist'.cut = hist.cut /\ hist'.stuck = hist.stuck
    <1>1. CASE Count
      <2>1. hist' = [hist EXCEPT !.slow = TRUE] \/ hist' = hist
        BY <1>1 DEF Count
      <2>2. hist'.cut = hist.cut /\ hist'.stuck = hist.stuck
        BY <2>1 DEF Histories
      <2> QED BY <2>2, <1>1 DEF Count, kept
    <1>2. CASE ClearRx \/ Select \/ WriteTx \/ Spin \/ Feed \/ WaitIdle \/ Store \/ SetLines
      BY <1>2 DEF ClearRx, Select, WriteTx, Spin, Feed, WaitIdle, Waited, Store, SetLines, kept
    <1>3. CASE ReadRx \/ Drain \/ CheckId \/ KeepStatus \/ Enabled \/ StartPolling \/ Test
                  \/ PieceRead \/ Return
      BY <1>3 DEF ReadRx, Drain, CheckId, KeepStatus, Enabled, StartPolling, Test, PieceRead,
                  Return, Between, kept
    <1> QED BY <1>1, <1>2, <1>3 DEF Move

LEMMA NextExecutable ==
    ASSUME TypesAndPlace, Executable(chip.todo), Next
    PROVE  Executable(chip'.todo)
    <1>1. chip.frame \in Seq(Byte) /\ ChipTypeOK
      BY DEF TypesAndPlace, TypeOK, ChipTypeOK
    <1>2. ASSUME chip' \in Deselected(chip.frame)
          PROVE  Executable(chip'.todo)
      BY <1>1, <1>2, DeselectedCases DEF Executable
    <1>3. CASE Initialize \/ Call
      BY <1>3, CallCases DEF Initialize, CallRead, CallProgram, CallErase, Begin, TypesAndPlace
    <1>4. CASE Shift
      BY <1>4, <1>1 DEF Shift, ChipTypeOK
    <1>5. CASE ChipStep
      BY <1>5, EndsFacts DEF ChipStep, TypesAndPlace, TypeOK, Executable
    <1>6. CASE PowerLoss
      BY <1>6, PowerFacts DEF PowerLoss, TypesAndPlace, TypeOK, Executable
    <1>7. CASE Move
      BY <1>7, MoveChip, TypeParts DEF TypesAndPlace
    <1> QED BY <1>2, <1>3, <1>4, <1>5, <1>6, <1>7, NextCases, GiveUpPlace DEF Release, Reset

-----------------------------------------------------------------------------
(* What the steps do, for the proofs that follow.                          *)

\* A call begins: which frame comes first, and what the call may change.
LEMMA BegunFacts ==
    ASSUME TypesAndPlace, Initialize \/ Call
    PROVE  /\ stage = "end" /\ sent' = 0 /\ done' = 0 /\ qe' = 2 /\ cpu' = NoLocals
           /\ UNCHANGED <<build, ctl, chip, mem, hist>> /\ pre' = mem
           /\ call.op = "none" \/ Up
           /\ call'.op # "none" /\ call'.ret \in {OK, ERROR_PARAMETER}
           /\ stage' # "end" =>
                 stage' = CASE call'.op = "init" -> "ReadID"
                            [] call'.op = "read" -> IF QuadMode THEN "Status1" ELSE "Read"
                            [] OTHER -> "WriteEnable"
           /\ stage' = "end" =>
                 call'.op # "init" /\ (call'.ret = OK => call'.op # "erase" /\ call'.len = 0)
           /\ phase' = IF stage' = "Status1" THEN "empty" ELSE "select"
           /\ Busy => owed \subseteq owed'
           /\ stage' # "end" /\ call'.op = "program" =>
                 \A a \in Span(call'.addr, call'.len) : Page(a) \subseteq owed'
           /\ stage' # "end" /\ call'.op = "erase" => Sector(call'.addr) \subseteq owed'
    <1> DEFINE pages(addr, len) == UNION {Page(a) : a \in Span(addr, len)}
               works(op, len, accepted) == accepted /\ (op \in {"read", "program"} => len > 0)
               P(op, addr, len, accepted, cells) ==
                  /\ Begin(op, addr, len, accepted, cells)
                  /\ op = "init" => accepted
                  /\ op = "program" => cells = pages(addr, len)
                  /\ op = "erase" => cells = Sector(addr)
    <1>1. stage = "end" /\ (call.op = "none" \/ Up)
      BY CallCases DEF TypesAndPlace, PlaceInv, CallInv, Initialize, Up
    <1>2. \E op \in {"init", "read", "program", "erase"} :
             \E addr \in Nat, len \in Nat, accepted \in BOOLEAN, cells \in SUBSET Cell :
                P(op, addr, len, accepted, cells)
      <2>1. CASE Initialize
        <3>1. P("init", 0, 0, TRUE, {})
          BY <2>1 DEF Initialize
        <3>2. /\ "init" \in {"init", "read", "program", "erase"} /\ 0 \in Nat /\ TRUE \in BOOLEAN
              /\ {} \in SUBSET Cell
          OBVIOUS
        <3> HIDE DEF P
        <3> QED BY <3>1, <3>2, Zenon
      <2>2. CASE Call
        <3>1. PICK addr \in Nat : \E len \in Nat :
                 CallRead(addr, len) \/ CallProgram(addr, len) \/ (len = 0 /\ CallErase(addr))
          BY <2>2, CallCases DEF TypesAndPlace
        <3>2. PICK len \in Nat :
                 CallRead(addr, len) \/ CallProgram(addr, len) \/ (len = 0 /\ CallErase(addr))
          BY <3>1
        <3>3. InRange(addr) \in BOOLEAN /\ 0 \in Nat
          BY DEF InRange
        <3>4. \/ P("read", addr, len, InRange(addr), {})
              \/ P("program", addr, len, InRange(addr), pages(addr, len))
              \/ P("erase", addr, 0, InRange(addr), Sector(addr))
          BY <3>2 DEF CallRead, CallProgram, CallErase
        <3>5. "read" \in {"init", "read", "program", "erase"}
                /\ "program" \in {"init", "read", "program", "erase"}
                /\ "erase" \in {"init", "read", "program", "erase"}
          OBVIOUS
        <3>6. {} \in SUBSET Cell /\ pages(addr, len) \in SUBSET Cell /\ Sector(addr) \in SUBSET Cell
          BY CellSets, Zenon
        <3> HIDE DEF P, pages
        <3> QED BY <3>3, <3>4, <3>5, <3>6, Zenon
      <2> QED BY <2>1, <2>2
    <1>3. PICK op \in {"init", "read", "program", "erase"}, addr \in Nat, len \in Nat,
               accepted \in BOOLEAN, cells \in SUBSET Cell :
             P(op, addr, len, accepted, cells)
      BY <1>2
    <1> HIDE DEF pages
    <1>4. /\ call' = [op |-> op, addr |-> addr, len |-> len,
                      at |-> IF accepted THEN "running" ELSE "returned",
                      ret |-> IF accepted THEN OK ELSE ERROR_PARAMETER]
          /\ stage' = (IF works(op, len, accepted) THEN Begins(op) ELSE "end")
          /\ phase' = Start(stage')
          /\ sent' = 0 /\ done' = 0 /\ qe' = 2 /\ cpu' = NoLocals
          /\ pre' = mem /\ owed' = (IF accepted THEN cells ELSE {}) \cup (IF Busy THEN owed ELSE {})
          /\ UNCHANGED <<build, ctl, chip, mem, hist>>
      BY <1>3 DEF Begin
    <1>5. /\ call'.op = op /\ call'.addr = addr /\ call'.len = len
          /\ call'.ret = (IF accepted THEN OK ELSE ERROR_PARAMETER)
      BY <1>4
    <1>6. /\ stage' \in {"ReadID", "Status1", "Read", "WriteEnable", "end"}
          /\ stage' # "end" =>
                /\ accepted
                /\ stage' = CASE op = "init" -> "ReadID"
                              [] op = "read" -> IF QuadMode THEN "Status1" ELSE "Read"
                              [] OTHER -> "WriteEnable"
          /\ stage' = "end" => ~works(op, len, accepted)
      BY <1>3, <1>4 DEF Begins
    <1>7. phase' = IF stage' = "Status1" THEN "empty" ELSE "select"
      BY <1>4, <1>6 DEF Start, OfStatus, Qspi, QuadMode, Begins
    <1>8. call'.op # "none" /\ call'.ret \in {OK, ERROR_PARAMETER}
      BY <1>3, <1>5
    <1>9. stage' = "end" =>
             call'.op # "init" /\ (call'.ret = OK => call'.op # "erase" /\ call'.len = 0)
      BY <1>3, <1>5, <1>6 DEF OK, ERROR_PARAMETER
    <1>10. /\ Busy => owed \subseteq owed'
           /\ accepted => cells \subseteq owed'
      BY <1>4
    <1>11. stage' # "end" /\ op = "program" =>
              \A a \in Span(addr, len) : Page(a) \subseteq owed'
      <2> SUFFICES ASSUME stage' # "end", op = "program", NEW a \in Span(addr, len)
                   PROVE  Page(a) \subseteq owed'
        OBVIOUS
      <2>1. Page(a) \subseteq pages(addr, len)
        BY DEF pages
      <2> QED BY <1>3, <1>6, <1>10, <2>1
    <1>12. stage' # "end" /\ op = "erase" => Sector(addr) \subseteq owed'
      BY <1>3, <1>6, <1>10
    <1> HIDE DEF works, P
    <1> QED BY <1>1, <1>4, <1>5, <1>6, <1>7, <1>8, <1>9, <1>10, <1>11, <1>12

\* The steps between two frames.
Turn == Initialize \/ Call \/ CheckId \/ KeepStatus \/ Enabled \/ StartPolling \/ Count \/ Test
           \/ PieceRead \/ Return

LEMMA TurnFacts ==
    ASSUME TypesAndPlace, Turn
    PROVE  /\ ctl' = ctl /\ chip' = chip /\ mem' = mem /\ build' = build
           /\ hist'.cut = hist.cut /\ hist'.stuck = hist.stuck
           /\ ~Selected /\ Mode = "single" /\ ~Selected' /\ Mode' = "single"
           /\ phase' \in {"count", "empty", "select"} /\ sent' = 0
    <1>1. CASE Initialize \/ Call
      BY <1>1, BegunFacts DEF Selected, Mode, TypesAndPlace, PlaceInv, PhaseInv
    <1>2. CASE CheckId \/ KeepStatus \/ Enabled \/ StartPolling \/ Count \/ Test \/ PieceRead
                  \/ Return
      <2>1. Move /\ hist \in Histories
        BY <1>2, TypeParts DEF Move, TypesAndPlace
      <2>2. phase \in {"next", "count"} \/ (stage = "end" /\ phase = "select")
        BY <1>2 DEF CheckId, KeepStatus, Enabled, StartPolling, Count, Test, PieceRead, Return,
                    Between, TypesAndPlace, PlaceInv, PhaseInv
      <2>3. ctl' = ctl
        BY <1>2 DEF CheckId, KeepStatus, Enabled, StartPolling, Count, Test, PieceRead, Return,
                    Between
      <2>4. phase' \in {"count", "empty", "select"} /\ sent' = 0
        <3>1. CASE CheckId
          BY <3>1 DEF CheckId, Leave
        <3>2. CASE KeepStatus \/ Enabled \/ StartPolling
          BY <3>2 DEF KeepStatus, Enabled, StartPolling, Go, Start
        <3>3. CASE Count \/ Test
          BY <3>3 DEF Count, Test, Polled, Go, Leave, NextPiece, Start
        <3>4. CASE PieceRead
          BY <3>4 DEF PieceRead, Go, NextPiece, Start
        <3>5. CASE Return
          BY <3>5 DEF Return, place, TypesAndPlace, PlaceInv, PhaseInv, CallInv
        <3> QED BY <1>2, <3>1, <3>2, <3>3, <3>4, <3>5
      <2>5. ~Selected /\ ~Selected'
        BY <2>2, <2>4 DEF Selected
      <2>6. Mode = "single" /\ Mode' = "single"
        <3>1. stage = "Read" => phase # "count"
          BY DEF TypesAndPlace, PlaceInv, PhaseInv
        <3>2. stage' = "Read" => phase' = "select"
          <4>1. TypesAndPlace'
            BY <2>1, MovePlace
          <4>2. (stage' = "Read" => phase' \notin {"count", "empty"})
            BY <4>1 DEF TypesAndPlace, PlaceInv, PhaseInv, OfStatus
          <4> QED BY <4>2, <2>4
        <3> QED BY <2>2, <2>4, <3>1, <3>2 DEF Mode
      <2> QED BY <2>1, <2>3, <2>4, <2>5, <2>6, MoveChip
    <1> QED BY <1>1, <1>2 DEF Turn

-----------------------------------------------------------------------------
(* The bus between two frames.                                             *)

LEMMA Lengths ==
    ASSUME TypeOK
    PROVE  /\ InFrame \in Nat /\ InTx \in Nat /\ InRx \in Nat /\ Stored \in Nat
           /\ sent \in Nat /\ done \in Nat
           /\ InTx = 0 <=> ctl.tx = <<>>
           /\ InRx = 0 <=> ctl.rx = <<>>
           /\ InFrame = 0 <=> chip.frame = <<>>
           /\ Stored = 0 <=> cpu.stored = <<>>
    <1>1. ctl.tx \in Seq(Byte) /\ ctl.rx \in Seq(Byte) /\ chip.frame \in Seq(Byte)
            /\ cpu.stored \in Seq(Byte) /\ sent \in Nat /\ done \in Nat
      BY DEF TypeOK, ChipTypeOK
    <1>2. \A q \in Seq(Byte) : Len(q) \in Nat /\ (Len(q) = 0 <=> q = <<>>)
      OBVIOUS
    <1> QED BY <1>1, <1>2 DEF InFrame, InTx, InRx, Stored

LEMMA LengthsNext ==
    ASSUME TypeOK'
    PROVE  /\ InFrame' \in Nat /\ InTx' \in Nat /\ InRx' \in Nat /\ Stored' \in Nat
           /\ sent' \in Nat /\ done' \in Nat
           /\ InTx' = 0 <=> ctl'.tx = <<>>
           /\ InRx' = 0 <=> ctl'.rx = <<>>
           /\ InFrame' = 0 <=> chip'.frame = <<>>
           /\ Stored' = 0 <=> cpu'.stored = <<>>
    <1>1. ctl'.tx \in Seq(Byte) /\ ctl'.rx \in Seq(Byte) /\ chip'.frame \in Seq(Byte)
            /\ cpu'.stored \in Seq(Byte) /\ sent' \in Nat /\ done' \in Nat
      BY DEF TypeOK, ChipTypeOK
    <1>2. \A q \in Seq(Byte) : Len(q) \in Nat /\ (Len(q) = 0 <=> q = <<>>)
      OBVIOUS
    <1> QED BY <1>1, <1>2 DEF InFrame, InTx, InRx, Stored

\* Nothing is left over, and nothing is counted yet.
LEMMA EmptiedRxNext ==
    ASSUME ctl'.rx = <<>>, ctl'.tx = <<>>, sent' = 0, phase' \in {"count", "empty", "select"},
           stage' = "ReadID" => cpu'.stored = <<>>
    PROVE  RxInv'
    <1>1. InRx' = 0 /\ InTx' = 0 /\ (stage' = "ReadID" => Stored' = 0)
      BY DEF InRx, InTx, Stored
    <1> QED BY <1>1 DEF RxInv

LEMMA TurnRx ==
    ASSUME TypesAndPlace, SelectInv, RxInv, Turn
    PROVE  RxInv'
    <1>1. /\ ctl' = ctl /\ ctl.tx = <<>> /\ build' = build
          /\ phase' \in {"count", "empty", "select"} /\ sent' = 0
      BY TurnFacts DEF SelectInv
    <1>2. CASE Initialize \/ Call
      <2>1. ctl.rx = <<>> /\ cpu' = NoLocals
        BY <1>2, BegunFacts DEF RxInv
      <2> QED BY <1>1, <2>1, BlankFacts, EmptiedRxNext
    <1>3. CASE CheckId \/ Return \/ PieceRead \/ Test
      <2>1. ctl.rx = <<>> /\ stage' # "ReadID"
        BY <1>3 DEF RxInv, CheckId, Return, PieceRead, Test, Between, Leave, place, Go, Polled,
                    NextPiece, Begins, TypesAndPlace, PlaceInv, CallInv
      <2> QED BY <1>1, <2>1, EmptiedRxNext
    <1>4. CASE KeepStatus
      <2>1. ctl.rx = <<>> /\ stage' # "ReadID"
        BY <1>4 DEF RxInv, KeepStatus, Between, Go
      <2> QED BY <1>1, <2>1, EmptiedRxNext
    <1>5. CASE Enabled
      <2>1. stage' \in {"WriteStatus", "Program", "Erase"} /\ phase' = "select"
        BY <1>5 DEF Enabled, Between, Go, Start, OfStatus, TypesAndPlace, PlaceInv, CallInv
      <2> QED BY <2>1 DEF RxInv, OfStatus
    <1>6. CASE StartPolling
      <2>1. stage' = "Poll" /\ phase' = "count" /\ cpu'.polls = MaxPolls /\ call' = call
        BY <1>6, TypeParts DEF StartPolling, Go, Start, TypesAndPlace, Cpus
      <2>2. CASE stage = "Erase"
        <3>1. ctl.rx = <<>>
          BY <2>2, <1>6 DEF RxInv, StartPolling, Between
        <3> QED BY <1>1, <2>1, <3>1, EmptiedRxNext
      <2>3. CASE stage = "WriteStatus"
        <3>1. call.op = "read" /\ Qspi /\ Qspi'
          BY <2>3, <1>1 DEF TypesAndPlace, PlaceInv, CallInv, Qspi, QuadMode
        <3>2. ~(cpu'.polls < MaxPolls)
          BY <2>1, Constants
        <3> QED BY <2>1, <3>1, <3>2 DEF RxInv, OfStatus
      <2> QED BY <2>2, <2>3, <1>6 DEF StartPolling
    <1>7. CASE Count
      <2>1. phase = "count" /\ stage = "Poll" /\ cpu.polls \in 0 .. MaxPolls
        BY <1>7, TypeParts DEF Count, TypesAndPlace, PlaceInv, PhaseInv, Cpus
      <2>2. CASE cpu.polls = 1
        <3>1. ctl.rx = <<>>
          BY <2>1, <2>2, Constants DEF RxInv
        <3>2. stage' # "ReadID"
          BY <2>2, <2>1, <1>7 DEF Count, Polled, Leave, Go, NextPiece, Begins, TypesAndPlace,
                                  PlaceInv, CallInv
        <3> QED BY <1>1, <3>1, <3>2, EmptiedRxNext
      <2>3. CASE cpu.polls # 1
        <3>1. phase' = (IF Qspi THEN "empty" ELSE "select") /\ stage' = "Poll"
          BY <1>7, <2>1, <2>3 DEF Count
        <3>2. ~Qspi => ctl.rx = <<>>
          BY <2>1 DEF RxInv
        <3> QED BY <1>1, <3>1, <3>2, EmptiedRxNext DEF RxInv, OfStatus
      <2> QED BY <2>2, <2>3
    <1> QED BY <1>2, <1>3, <1>4, <1>5, <1>6, <1>7 DEF Turn

LEMMA TurnKept ==
    ASSUME TypesAndPlace, StatusInv, KeptInv, Turn
    PROVE  KeptInv'
    <1>1. chip' = chip /\ hist'.cut = hist.cut
      BY TurnFacts
    <1>2. CASE Initialize \/ Call
      <2>1. stage' \notin {"Status2", "WriteStatus"}
              /\ (stage' = "WriteEnable" => call'.op # "read")
        BY <1>2, BegunFacts
      <2> QED BY <1>1, <2>1 DEF KeptInv
    <1>3. CASE CheckId \/ StartPolling \/ Return \/ PieceRead \/ Test
      <2>1. stage' \notin {"Status2", "WriteStatus", "WriteEnable"}
        BY <1>3 DEF CheckId, Leave, StartPolling, Go, Return, place, PieceRead, NextPiece, Begins,
                    Test, Polled, TypesAndPlace, PlaceInv, CallInv
      <2> QED BY <1>1, <2>1 DEF KeptInv
    <1>4. CASE KeepStatus
      <2>1. phase = "next" /\ cpu \in Cpus /\ cpu.val \in Byte /\ qe \in {0, 2}
        BY <1>4, TypeParts DEF KeepStatus, Between, TypesAndPlace, Cpus, TypePlace
      <2>2. CASE stage = "Status1"
        <3>1. stage' = "Status2" /\ cpu'.reg1 = cpu.val
          BY <1>4, <2>1, <2>2 DEF KeepStatus, Go, Cpus
        <3>2. ~hist.cut => Agrees(cpu.val, chip.sr1)
          BY <2>1, <2>2 DEF StatusInv, HasStatus, StatusSeen, OfStatus
        <3> QED BY <1>1, <3>1, <3>2 DEF KeptInv
      <2>3. CASE stage = "Status2"
        <3>1. stage' = "WriteEnable" /\ cpu'.reg1 = cpu.reg1 /\ cpu'.reg2 = WithQE(cpu.val, qe)
                /\ call.op = "read"
          BY <1>4, <2>1, <2>3 DEF KeepStatus, Go, Cpus, TypesAndPlace, PlaceInv, CallInv
        <3>2. ~hist.cut => Agrees(cpu.val, chip.sr2)
          BY <2>1, <2>3 DEF StatusInv, HasStatus, StatusSeen, OfStatus
        <3>3. ~hist.cut => Agrees(cpu'.reg2, chip.sr2)
          BY <2>1, <3>1, <3>2, WithQEFacts DEF Agrees
        <3> QED BY <1>1, <2>3, <3>1, <3>3 DEF KeptInv
      <2> QED BY <2>2, <2>3, <1>4 DEF KeepStatus
    <1>5. CASE Enabled
      BY <1>1, <1>5 DEF KeptInv, Enabled, Go, Between
    <1>6. CASE Count
      <2>1. stage = "Poll" /\ call.op # "program"
        BY <1>6 DEF Count, TypesAndPlace, PlaceInv, PhaseInv, CallInv
      <2>2. stage' \notin {"Status2", "WriteStatus", "WriteEnable"}
        BY <1>6, <2>1 DEF Count, Polled, Leave, Go, NextPiece, Begins
      <2> QED BY <1>1, <2>2 DEF KeptInv
    <1> QED BY <1>2, <1>3, <1>4, <1>5, <1>6 DEF Turn

LEMMA TurnBus ==
    ASSUME TypesAndPlace, BusInv, Turn
    PROVE  BusInv'
    <1> USE DEF BusInv
    <1>1. /\ ctl' = ctl /\ chip' = chip /\ ~Selected /\ Mode = "single"
          /\ ~Selected' /\ Mode' = "single" /\ phase' \in {"count", "empty", "select"}
      BY TurnFacts
    <1>2. SelectInv'
      BY <1>1 DEF SelectInv
    <1>3. HeardInv' /\ StatusHeard'
      BY <1>1, <1>2 DEF HeardInv, StatusHeard, SelectInv, IsLost
    <1>4. StatusInv'
      BY <1>1 DEF StatusInv, HasStatus
    <1> QED BY <1>2, <1>3, <1>4, TurnRx, TurnKept

-----------------------------------------------------------------------------
(* The bus within a frame.                                                 *)

Within == ClearRx \/ Select \/ WriteTx \/ Spin \/ Feed \/ WaitIdle \/ Store \/ SetLines \/ ReadRx
             \/ Drain

LEMMA WithinFacts ==
    ASSUME TypesAndPlace, Within
    PROVE  /\ stage' = stage /\ done' = done /\ qe' = qe /\ call' = call /\ hist' = hist
           /\ chip' = chip /\ mem' = mem /\ build' = build /\ stage # "end"
           /\ cpu'.reg1 = cpu.reg1 /\ cpu'.reg2 = cpu.reg2 /\ cpu'.polls = cpu.polls
           /\ Out' = Out /\ OutLen' = OutLen /\ Piece' = Piece
           /\ QuadMode' = QuadMode /\ Qspi' = Qspi
           /\ Out \in Seq(Byte) /\ Len(Out) = OutLen /\ OutLen \in 1 .. 7
           /\ InFrame' = InFrame /\ IsLost' = IsLost
           /\ InFrame \in Nat /\ InTx \in Nat /\ InRx \in Nat /\ Stored \in Nat
           /\ sent \in Nat /\ done \in Nat
    <1>1. cpu \in Cpus
      BY TypeParts DEF TypesAndPlace
    <1>2. cpu'.reg1 = cpu.reg1 /\ cpu'.reg2 = cpu.reg2 /\ cpu'.polls = cpu.polls
      <2>1. CASE Store \/ ReadRx \/ Drain
        BY <1>1, <2>1 DEF Store, ReadRx, Drain, Cpus
      <2>2. CASE ~(Store \/ ReadRx \/ Drain)
        BY <2>2 DEF Within, ClearRx, Select, WriteTx, Spin, Feed, WaitIdle, Waited, SetLines, driver
      <2> QED BY <2>1, <2>2
    <1>3. /\ stage' = stage /\ done' = done /\ qe' = qe /\ call' = call /\ hist' = hist
          /\ chip' = chip /\ mem' = mem /\ build' = build
      BY DEF Within, ClearRx, Select, WriteTx, Spin, Feed, WaitIdle, Waited, Store, SetLines, ReadRx,
             Drain, driver, place, kept
    <1>4. stage # "end"
      BY DEF Within, ClearRx, Select, WriteTx, Spin, Feed, WaitIdle, Waiting, Store, SetLines, ReadRx,
             Drain, TypesAndPlace, PlaceInv, PhaseInv
    <1>5. Out' = Out /\ OutLen' = OutLen /\ Piece' = Piece /\ QuadMode' = QuadMode /\ Qspi' = Qspi
      BY <1>2, <1>3, SameFrame DEF Piece, QuadMode, Qspi
    <1>6. InFrame' = InFrame /\ IsLost' = IsLost
      BY <1>3 DEF InFrame, IsLost
    <1> QED BY <1>2, <1>3, <1>4, <1>5, <1>6, OutFacts, Lengths DEF TypesAndPlace

\* The parts of the invariant that a step within a frame cannot disturb.
LEMMA WithinKept ==
    ASSUME TypesAndPlace, BusInv, Within
    PROVE  KeptInv' /\ StatusHeard'
    BY WithinFacts DEF BusInv, KeptInv, StatusHeard, IsLost, OfStatus

LEMMA ClearRxBus ==
    ASSUME TypesAndPlace, BusInv, ClearRx
    PROVE  SelectInv' /\ HeardInv' /\ RxInv' /\ StatusInv'
    <1> USE DEF BusInv
    <1>1. Within
      BY DEF Within
    <1>2. /\ ctl'.rx = <<>> /\ ctl'.tx = ctl.tx /\ ctl'.ss = ctl.ss /\ ctl'.mode = ctl.mode
          /\ cpu' = cpu /\ sent' = sent
          /\ \/ phase = "empty" /\ phase' = "select" /\ OfStatus(stage) /\ sent = 0
             \/ phase = "clear" /\ phase' = "feed" /\ stage = "Read" /\ call.op = "read"
             \/ phase = "clear" /\ phase' = "release" /\ stage = "Erase"
      BY TypeParts DEF ClearRx, TypesAndPlace, PlaceInv, PhaseInv, CallInv, Controls
    <1>3. InTx' = InTx /\ InRx' = 0 /\ Stored' = Stored /\ (ctl.tx = <<>> => InTx = 0)
      BY <1>2 DEF InTx, InRx, Stored
    <1>4. SelectInv'
      BY <1>1, <1>2, WithinFacts DEF SelectInv, Selected, Mode, OfStatus
    <1>5. HeardInv'
      <2>1. phase' = "feed" => Stored = done
        BY <1>2 DEF TypesAndPlace, PlaceInv, CountInv, Stored
      <2>2. Fed' = Fed
        BY <1>1, <1>2, <1>3, <2>1, WithinFacts DEF Fed
      <2> QED BY <1>1, <1>2, <1>3, <2>2, WithinFacts DEF HeardInv, Heads, Selected
    <1>6. RxInv'
      BY <1>1, <1>2, <1>3, WithinFacts DEF RxInv, SelectInv, Selected, OfStatus
    <1>7. StatusInv'
      BY <1>1, <1>2, WithinFacts DEF StatusInv, HasStatus, OfStatus
    <1> QED BY <1>4, <1>5, <1>6, <1>7

LEMMA SelectBus ==
    ASSUME TypesAndPlace, BusInv, Select
    PROVE  SelectInv' /\ HeardInv' /\ RxInv' /\ StatusInv'
    <1> USE DEF BusInv
    <1>1. Within
      BY DEF Within
    <1>2. /\ ctl'.rx = ctl.rx /\ ctl'.tx = ctl.tx /\ ctl'.ss = "low" /\ ctl'.mode = ctl.mode
          /\ cpu' = cpu /\ sent' = sent /\ phase = "select" /\ phase' = "send" /\ sent = 0
      BY TypeParts DEF Select, TypesAndPlace, PlaceInv, PhaseInv, Controls
    <1>3. ctl.tx = <<>> /\ chip.frame = <<>> /\ ctl.mode = "single" /\ InTx = 0 /\ InFrame = 0
      BY <1>2, Lengths DEF SelectInv, Selected, Mode, TypesAndPlace
    <1>4. InTx' = InTx /\ InRx' = InRx /\ Stored' = Stored
      BY <1>2 DEF InTx, InRx, Stored
    <1>5. SelectInv'
      BY <1>1, <1>2, <1>3, WithinFacts DEF SelectInv, Selected, Mode
    <1>6. HeardInv'
      BY <1>1, <1>2, <1>3, <1>4, WithinFacts DEF HeardInv, Heads, Fed
    <1>7. RxInv'
      BY <1>1, <1>2, <1>4, WithinFacts DEF RxInv, OfStatus
    <1>8. StatusInv'
      BY <1>1, <1>2, WithinFacts DEF StatusInv, HasStatus
    <1> QED BY <1>5, <1>6, <1>7, <1>8

\* What is written to the transmit FIFO goes behind what is in it, if there is room.
LEMMA QueuedFacts ==
    ASSUME ctl \in Controls, NEW s \in Seq(Byte), Queue(s)
    PROVE  /\ ctl'.rx = ctl.rx /\ ctl'.ss = ctl.ss /\ ctl'.mode = ctl.mode
           /\ InRx' = InRx /\ InTx' \in Nat /\ InTx' >= InTx
           /\ \A k \in 1 .. InTx : ctl'.tx[k] = ctl.tx[k]
           /\ InTx + Len(s) <= FifoDepth =>
                 /\ InTx' = InTx + Len(s)
                 /\ \A k \in 1 .. Len(s) : ctl'.tx[InTx + k] = s[k]
    <1> DEFINE x == ctl.tx
               t == x \o s
    <1>1. x \in Seq(Byte) /\ InTx \in Nat /\ InTx <= FifoDepth /\ InTx = Len(x)
            /\ Len(s) \in Nat /\ FifoDepth \in Nat
      BY Constants DEF Controls, Fifo, InTx
    <1> HIDE DEF x
    <1>2. /\ t \in Seq(Byte) /\ Len(t) = InTx + Len(s)
          /\ \A i \in 1 .. InTx : t[i] = x[i]
          /\ \A i \in 1 .. Len(s) : t[InTx + i] = s[i]
      BY <1>1, Joined
    <1>3. ctl'.rx = ctl.rx /\ ctl'.ss = ctl.ss /\ ctl'.mode = ctl.mode /\ ctl'.tx = Fitting(t)
            /\ InRx' = InRx /\ InTx' = Len(Fitting(t))
      BY DEF Queue, Controls, x, InTx, InRx
    <1> HIDE DEF t
    <1>4. CASE Len(t) <= FifoDepth
      <2>1. Fitting(t) = t
        BY <1>4 DEF Fitting
      <2> QED BY <1>1, <1>2, <1>3, <2>1 DEF x
    <1>5. CASE ~(Len(t) <= FifoDepth)
      <2>1. Len(SubSeq(t, 1, FifoDepth)) = FifoDepth
              /\ \A k \in 1 .. FifoDepth : SubSeq(t, 1, FifoDepth)[k] = t[k]
        BY <1>1, <1>2, <1>5
      <2>2. Fitting(t) = SubSeq(t, 1, FifoDepth)
        BY <1>5 DEF Fitting
      <2> QED BY <1>1, <1>2, <1>3, <1>5, <2>1, <2>2 DEF x
    <1> QED BY <1>4, <1>5

LEMMA WriteTxBus ==
    ASSUME TypesAndPlace, BusInv, WriteTx
    PROVE  SelectInv' /\ HeardInv' /\ RxInv' /\ StatusInv'
    <1> USE DEF BusInv
    <1> DEFINE b == Out[sent + 1]
               q == <<b>>
    <1>1. Within /\ ctl \in Controls /\ FifoDepth >= 8 /\ FifoDepth \in Nat
      BY TypeParts, Constants DEF Within, TypesAndPlace
    <1>2. /\ phase = "send" /\ sent < OutLen /\ sent' = sent + 1 /\ cpu' = cpu /\ sent \in Nat
          /\ \/ phase' = "wait" /\ stage # "Program"
                /\ (sent' = OutLen \/ (sent' = 1 /\ stage = "Read" /\ Qspi))
             \/ phase' = "spin" /\ stage = "Program" /\ sent' = OutLen
             \/ phase' = "send" /\ ~(sent' = 1 /\ stage = "Read" /\ Qspi) /\ sent' # OutLen
      <2>1. Len(Out) = OutLen /\ OutLen \in 1 .. 7 /\ sent \in Nat
        BY <1>1, WithinFacts
      <2> QED BY <2>1 DEF WriteTx, TypesAndPlace, PlaceInv, PhaseInv, Waits
    <1>3. b \in Byte /\ OutLen \in 1 .. 7 /\ Queue(q)
      <2>1. Out \in Seq(Byte) /\ Len(Out) = OutLen /\ OutLen \in 1 .. 7
        BY <1>1, WithinFacts
      <2>2. sent + 1 \in 1 .. Len(Out)
        BY <1>2, <2>1
      <2> QED BY <2>1, <2>2, ElementOfSeq DEF WriteTx
    <1>4. q \in Seq(Byte) /\ Len(q) = 1 /\ q[1] = b
      BY <1>3
    <1> HIDE DEF q
    <1>5. /\ ctl'.rx = ctl.rx /\ ctl'.ss = ctl.ss /\ ctl'.mode = ctl.mode /\ InRx' = InRx
          /\ \A k \in 1 .. InTx : ctl'.tx[k] = ctl.tx[k]
          /\ InTx + 1 <= FifoDepth => InTx' = InTx + 1 /\ ctl'.tx[InTx + 1] = b
      <2>1. /\ ctl'.rx = ctl.rx /\ ctl'.ss = ctl.ss /\ ctl'.mode = ctl.mode /\ InRx' = InRx
            /\ \A k \in 1 .. InTx : ctl'.tx[k] = ctl.tx[k]
            /\ InTx + 1 <= FifoDepth =>
                  InTx' = InTx + 1 /\ \A k \in 1 .. 1 : ctl'.tx[InTx + k] = q[k]
        BY <1>1, <1>3, <1>4, QueuedFacts
      <2> QED BY <2>1, <1>4
    <1>6. InTx \in Nat /\ InRx \in Nat /\ InFrame \in Nat /\ Stored' = Stored
      BY <1>1, <1>2, WithinFacts DEF Stored
    <1> HIDE DEF b
    <1>7. SelectInv'
      <2>1. stage = "Read" /\ QuadMode => Qspi /\ OutLen = 7
        BY DEF QuadMode, Qspi, OutLen, OfStatus
      <2>2. Mode' = Mode
        BY <1>1, <1>2, <2>1, WithinFacts DEF Mode
      <2> QED BY <1>1, <1>2, <1>5, <2>2, WithinFacts DEF SelectInv, Selected
    <1>8. HeardInv'
      <2> SUFFICES ASSUME ~IsLost
                   PROVE  HeardInv'
        BY <1>1, WithinFacts DEF HeardInv
      <2>1. Fed = 0 /\ Fed' = 0
        BY <1>1, <1>2, WithinFacts DEF Fed
      <2>2. /\ Heads /\ InFrame + InTx = sent
            /\ ctl.mode # "single" => InFrame >= 1
            /\ ctl.mode = "in" => InFrame >= 7
        BY <1>2, <1>6, <2>1 DEF HeardInv, Selected
      <2>3. InTx' = InTx + 1 /\ ctl'.tx[InTx + 1] = b
        BY <1>1, <1>2, <1>3, <1>5, <1>6, <2>2
      <2>4. Heads'
        <3>1. \A k \in 1 .. InTx' : ctl'.tx[k] = Out[InFrame + k]
          <4> SUFFICES ASSUME NEW k \in 1 .. InTx + 1
                       PROVE  ctl'.tx[k] = Out[InFrame + k]
            BY <2>3
          <4>1. CASE k = InTx + 1
            BY <4>1, <1>2, <1>6, <2>2, <2>3 DEF b
          <4>2. CASE k \in 1 .. InTx
            BY <4>2, <1>2, <1>5, <1>6, <2>2 DEF Heads
          <4> QED BY <4>1, <4>2, <1>6
        <3>2. \A k \in 1 .. InFrame : chip.frame[k] = Out[k]
          BY <1>2, <1>6, <2>2 DEF Heads
        <3> QED BY <1>1, <3>1, <3>2, WithinFacts DEF Heads
      <2> QED BY <1>1, <1>2, <1>5, <1>6, <2>1, <2>2, <2>3, <2>4, WithinFacts DEF HeardInv
    <1>9. RxInv'
      <2>1. ASSUME stage = "ReadID" \/ OfStatus(stage)
            PROVE  InRx' + InTx' = sent'
        BY <1>1, <1>2, <1>3, <1>5, <1>6, <2>1 DEF RxInv
      <2>2. stage = "ReadID" => Stored = 0
        BY <1>2 DEF RxInv
      <2> QED BY <1>1, <1>2, <1>6, <2>1, <2>2, WithinFacts DEF RxInv, OfStatus
    <1>10. StatusInv'
      <2>1. OfStatus(stage) /\ phase' = "wait" => InRx' # 2
        BY <1>1, <1>2, <1>5, <1>6 DEF RxInv, OutLen, OfStatus
      <2> QED BY <1>1, <1>2, <2>1, WithinFacts DEF StatusInv, HasStatus, OfStatus
    <1> QED BY <1>7, <1>8, <1>9, <1>10

LEMMA SpinBus ==
    ASSUME TypesAndPlace, BusInv, Spin
    PROVE  SelectInv' /\ HeardInv' /\ RxInv' /\ StatusInv'
    <1> USE DEF BusInv
    <1> DEFINE s == [k \in 1 .. Piece |-> Beyond]
    <1>1. Within /\ ctl \in Controls
      BY TypeParts DEF Within, TypesAndPlace
    <1>2. phase = "spin" /\ phase' = phase /\ stage = "Program" /\ cpu' = cpu /\ sent' = sent
            /\ call.op = "program" /\ done < call.len
      BY DEF Spin, driver, place, TypesAndPlace, PlaceInv, PhaseInv, CallInv
    <1>3. s \in Seq(Byte)
      <2>1. Piece \in Nat /\ Beyond \in Byte
        BY <1>2, PieceFacts, SpiAssumption DEF TypesAndPlace
      <2> QED BY <2>1
    <1>4. Queue(s)
      BY DEF Spin
    <1> HIDE DEF s
    <1>5. /\ ctl'.rx = ctl.rx /\ ctl'.ss = ctl.ss /\ ctl'.mode = ctl.mode
          /\ InTx' \in Nat /\ InTx' >= InTx
          /\ \A k \in 1 .. InTx : ctl'.tx[k] = ctl.tx[k]
      BY <1>1, <1>3, <1>4, QueuedFacts
    <1>6. InTx \in Nat /\ InFrame \in Nat /\ sent \in Nat
      BY <1>1, WithinFacts
    <1>7. SelectInv'
      BY <1>1, <1>2, <1>5, WithinFacts DEF SelectInv, Selected, Mode
    <1>8. HeardInv'
      <2>1. Fed' = Fed /\ Fed = 0
        BY <1>1, <1>2, WithinFacts DEF Fed
      <2>2. ~IsLost => Heads /\ InFrame + InTx >= sent
        BY <1>2, <1>6, <2>1 DEF HeardInv, Selected
      <2>3. ~IsLost => Heads'
        BY <1>1, <1>2, <1>5, <1>6, <2>2, WithinFacts DEF Heads
      <2>4. ctl.mode = "single"
        BY <1>2 DEF SelectInv, Mode
      <2>5. ~IsLost => InFrame' + InTx' >= sent' + Fed'
        <3>1. InFrame' = InFrame /\ sent' = sent /\ Fed' = 0
          BY <1>1, <1>2, <2>1, WithinFacts
        <3>2. InTx' \in Nat /\ InTx' >= InTx
          BY <1>5
        <3>3. \A a, b, c, d \in Nat : a + b >= c /\ d >= b => a + d >= c + 0
          OBVIOUS
        <3>4. InFrame + InTx >= sent => InFrame + InTx' >= sent + 0
          BY <1>6, <3>2, <3>3, Zenon
        <3> QED BY <2>2, <3>1, <3>4
      <2>6. phase' = "spin" /\ ctl'.mode = "single" /\ IsLost' = IsLost
        BY <1>1, <1>2, <1>5, <2>4, WithinFacts
      <2> QED BY <2>3, <2>5, <2>6 DEF HeardInv
    <1>9. RxInv'
      BY <1>1, <1>2, WithinFacts DEF RxInv, OfStatus
    <1>10. StatusInv'
      BY <1>1, <1>2, WithinFacts DEF StatusInv, HasStatus, OfStatus
    <1> QED BY <1>7, <1>8, <1>9, <1>10

LEMMA FeedBus ==
    ASSUME TypesAndPlace, BusInv, Feed
    PROVE  SelectInv' /\ HeardInv' /\ RxInv' /\ StatusInv'
    <1> USE DEF BusInv
    <1> DEFINE s == <<0>>
    <1>1. Within /\ ctl \in Controls /\ FifoDepth >= 8 /\ FifoDepth \in Nat /\ Queue(s)
      BY TypeParts, Constants DEF Within, TypesAndPlace, Feed
    <1>2. /\ phase = "feed" /\ phase' = "fetch" /\ stage = "Read" /\ cpu' = cpu /\ sent' = sent
          /\ sent = OutLen /\ ctl.tx = <<>> /\ ctl.rx = <<>>
      BY DEF Feed, TypesAndPlace, PlaceInv, PhaseInv, SelectInv, RxInv
    <1>3. InTx = 0 /\ InRx = 0 /\ Stored' = Stored
      BY <1>2, Lengths DEF TypesAndPlace, Stored
    <1>4. s \in Seq(Byte) /\ Len(s) = 1
      BY DEF Byte
    <1> HIDE DEF s
    <1>5. /\ ctl'.rx = ctl.rx /\ ctl'.ss = ctl.ss /\ ctl'.mode = ctl.mode
          /\ InTx' = 1 /\ InRx' = 0
      <2>1. /\ ctl'.rx = ctl.rx /\ ctl'.ss = ctl.ss /\ ctl'.mode = ctl.mode /\ InRx' = InRx
            /\ InTx + Len(s) <= FifoDepth => InTx' = InTx + Len(s)
        BY <1>1, <1>4, QueuedFacts
      <2> QED BY <2>1, <1>1, <1>3, <1>4
    <1>6. InFrame \in Nat /\ Stored \in Nat /\ done \in Nat /\ sent \in Nat
      BY <1>1, WithinFacts
    <1>7. SelectInv'
      BY <1>1, <1>2, <1>5, WithinFacts DEF SelectInv, Selected, Mode
    <1>8. HeardInv'
      <2>1. Fed' = Fed + 1 /\ Fed = Stored - done
        BY <1>1, <1>2, <1>3, <1>6, WithinFacts DEF Fed
      <2>2. done <= Stored
        BY <1>2 DEF TypesAndPlace, PlaceInv, CountInv, CallInv, Stored
      <2>3. ~IsLost =>
               /\ Heads /\ InFrame = sent + Fed
               /\ ctl.mode = "in" => InFrame >= 7
        BY <1>2, <1>3, <1>6, <2>1 DEF HeardInv, Selected
      <2>4. ~IsLost => Heads'
        BY <1>1, <1>2, <1>5, <1>6, <2>1, <2>2, <2>3, WithinFacts DEF Heads
      <2>5. OutLen \in 1 .. 7
        BY <1>1, WithinFacts
      <2> QED BY <1>1, <1>2, <1>5, <1>6, <2>1, <2>2, <2>3, <2>4, <2>5, WithinFacts DEF HeardInv
    <1>9. RxInv'
      BY <1>1, <1>2, <1>3, <1>5, WithinFacts DEF RxInv, OfStatus
    <1>10. StatusInv'
      BY <1>1, <1>2, WithinFacts DEF StatusInv, HasStatus, OfStatus
    <1> QED BY <1>7, <1>8, <1>9, <1>10

LEMMA WaitIdleBus ==
    ASSUME TypesAndPlace, BusInv, WaitIdle
    PROVE  SelectInv' /\ HeardInv' /\ RxInv' /\ StatusInv'
    <1> USE DEF BusInv
    <1>1. Within
      BY DEF Within
    <1>2. /\ ctl' = ctl /\ cpu' = cpu /\ sent' = sent /\ ctl.tx = <<>>
          /\ \/ phase = "fetch" /\ phase' = "store" /\ stage = "Read"
             \/ phase = "last" /\ phase' = "release" /\ stage = "Read"
             \/ phase = "wait" /\ phase' = "lines" /\ stage = "Read" /\ QuadMode
             \/ phase = "wait" /\ phase' = "send" /\ stage = "Read" /\ ~QuadMode
             \/ phase = "wait" /\ phase' = "clear" /\ (stage = "Erase" \/ (stage = "Read" /\ ~QuadMode))
             \/ phase = "wait" /\ phase' = "release" /\ stage \notin {"Read", "Erase"}
      <2>1. Len(Out) = OutLen /\ OutLen \in 1 .. 7 /\ sent \in Nat
        BY <1>1, WithinFacts
      <2>2. /\ phase = "wait" => sent = OutLen \/ (sent = 1 /\ stage = "Read" /\ Qspi)
            /\ phase \in {"fetch", "last"} => stage = "Read"
        BY DEF TypesAndPlace, PlaceInv, PhaseInv
      <2>3. ctl' = ctl /\ cpu' = cpu /\ sent' = sent /\ ctl.tx = <<>> /\ Waiting
        BY DEF WaitIdle, Waited
      <2>4. phase' = CASE phase = "fetch" -> "store"
                       [] phase = "last"  -> "release"
                       [] phase = "wait"  ->
                            IF stage = "Read" /\ QuadMode THEN "lines"
                            ELSE IF sent < OutLen THEN "send"
                            ELSE IF stage \in {"Read", "Erase"} THEN "clear" ELSE "release"
        BY <2>1 DEF WaitIdle, Waited
      <2> QED BY <2>1, <2>2, <2>3, <2>4 DEF Waiting
    <1>3. InTx = 0 /\ InTx' = InTx /\ InRx' = InRx /\ Stored' = Stored
      BY <1>2, Lengths DEF InTx, InRx, Stored, TypesAndPlace
    <1>4. SelectInv'
      <2>1. Mode' = Mode
        BY <1>1, <1>2, WithinFacts DEF Mode, TypesAndPlace, PlaceInv, PhaseInv
      <2> QED BY <1>1, <1>2, <2>1, WithinFacts DEF SelectInv, Selected
    <1>5. HeardInv'
      <2>1. Fed' = Fed
        BY <1>1, <1>2, <1>3, WithinFacts DEF Fed
      <2> QED BY <1>1, <1>2, <1>3, <2>1, WithinFacts DEF HeardInv, Heads, Selected
    <1>6. RxInv'
      BY <1>1, <1>2, <1>3, WithinFacts DEF RxInv, OfStatus
    <1>7. StatusInv'
      BY <1>1, <1>2, <1>3, WithinFacts
         DEF StatusInv, HasStatus, OfStatus, StatusSeen, Busy, Agrees
    <1> QED BY <1>4, <1>5, <1>6, <1>7

\* What is taken out of the receive FIFO.
LEMMA TakenFacts ==
    ASSUME ctl \in Controls, ctl.rx # <<>>, Taken
    PROVE  /\ ctl'.tx = ctl.tx /\ ctl'.ss = ctl.ss /\ ctl'.mode = ctl.mode
           /\ InTx' = InTx /\ InRx' \in Nat /\ InRx' = InRx - 1
           /\ \A k \in 1 .. InRx' : ctl'.rx[k] = ctl.rx[k + 1]
           /\ Received = {ctl.rx[1]} /\ Head(ctl.rx) = ctl.rx[1]
    <1> DEFINE x == ctl.rx
    <1>1. x \in Seq(Byte) /\ x # <<>>
      BY DEF Controls, Fifo
    <1>2. /\ ctl'.rx = Tail(x) /\ ctl'.tx = ctl.tx /\ ctl'.ss = ctl.ss /\ ctl'.mode = ctl.mode
          /\ InTx' = InTx /\ InRx' = Len(Tail(x)) /\ InRx = Len(x) /\ Received = {Head(x)}
      BY DEF Taken, Controls, InTx, InRx, Received
    <1> HIDE DEF x
    <1>3. Len(x) \in Nat /\ Len(Tail(x)) \in Nat /\ Len(x) = Len(Tail(x)) + 1 /\ Head(x) = x[1]
            /\ \A k \in 1 .. Len(Tail(x)) : Tail(x)[k] = x[k + 1]
      BY <1>1
    <1> QED BY <1>2, <1>3 DEF x

LEMMA StoreBus ==
    ASSUME TypesAndPlace, BusInv, Store
    PROVE  SelectInv' /\ HeardInv' /\ RxInv' /\ StatusInv'
    <1> USE DEF BusInv
    <1>1. Within /\ ctl \in Controls /\ Taken /\ phase = "store" /\ phase' \in {"feed", "last"}
      BY TypeParts DEF Within, Store, TypesAndPlace
    <1>2. stage = "Read" /\ InRx = 1 /\ ctl.rx # <<>> /\ sent' = sent
      BY <1>1, Lengths DEF RxInv, TypesAndPlace, PlaceInv, PhaseInv, Store
    <1>3. ctl'.tx = ctl.tx /\ ctl'.ss = ctl.ss /\ ctl'.mode = ctl.mode /\ InTx' = InTx
            /\ InRx' = 0
      BY <1>1, <1>2, TakenFacts
    <1>4. ctl'.rx = <<>> /\ Stored' = Stored + 1
      <2>1. TypesAndPlace'
        BY StorePlace
      <2>2. ctl'.rx = <<>>
        BY <1>3, <2>1, LengthsNext DEF TypesAndPlace
      <2>3. \E b : cpu' = [cpu EXCEPT !.stored = Append(@, b)]
        BY DEF Store
      <2>4. cpu \in Cpus
        BY TypeParts DEF TypesAndPlace
      <2> QED BY <2>2, <2>3, <2>4 DEF Stored, Cpus
    <1>5. SelectInv'
      BY <1>1, <1>2, <1>3, WithinFacts DEF SelectInv, Selected, Mode
    <1>6. HeardInv'
      <2>1. Fed' = Fed
        BY <1>1, <1>2, <1>4, WithinFacts DEF Fed
      <2> QED BY <1>1, <1>2, <1>3, <2>1, WithinFacts DEF HeardInv, Heads, Selected
    <1>7. RxInv'
      BY <1>1, <1>2, <1>3, <1>4, WithinFacts DEF RxInv, OfStatus
    <1>8. StatusInv'
      BY <1>1, <1>2, WithinFacts DEF StatusInv, HasStatus, OfStatus
    <1> QED BY <1>5, <1>6, <1>7, <1>8

LEMMA SetLinesBus ==
    ASSUME TypesAndPlace, BusInv, SetLines
    PROVE  SelectInv' /\ HeardInv' /\ RxInv' /\ StatusInv'
    <1> USE DEF BusInv
    <1>1. Within /\ ctl \in Controls
      BY TypeParts DEF Within, TypesAndPlace
    <1>2. stage = "Read" /\ QuadMode /\ OutLen = 7 /\ Len(Out) = 7 /\ Qspi
            /\ (phase = "lines" => sent \in {1, 7}) /\ phase \in {"lines", "single"}
      <2>1. stage = "Read" /\ QuadMode /\ (phase = "lines" => sent \in {1, OutLen})
              /\ phase \in {"lines", "single"}
        BY DEF SetLines, TypesAndPlace, PlaceInv, PhaseInv
      <2>2. OutLen = 7 /\ Len(Out) = OutLen
        BY <1>1, <2>1, WithinFacts DEF OutLen, OfStatus
      <2> QED BY <2>1, <2>2 DEF QuadMode, Qspi
    <1>3. /\ ctl'.tx = ctl.tx /\ ctl'.rx = ctl.rx /\ ctl'.ss = ctl.ss /\ cpu' = cpu /\ sent' = sent
          /\ \/ phase = "single" /\ phase' = "next" /\ ctl'.mode = "single"
             \/ phase = "lines" /\ sent = 1 /\ phase' = "send" /\ ctl'.mode = "out"
             \/ phase = "lines" /\ sent = 7 /\ phase' = "clear" /\ ctl'.mode = "in"
      BY <1>1, <1>2 DEF SetLines, Controls
    <1>4. InTx' = InTx /\ InRx' = InRx /\ Stored' = Stored
      BY <1>3 DEF InTx, InRx, Stored
    <1>5. SelectInv'
      BY <1>1, <1>2, <1>3, WithinFacts DEF SelectInv, Selected, Mode
    <1>6. HeardInv'
      <2>1. CASE phase = "single"
        BY <2>1, <1>3 DEF HeardInv, Selected
      <2>2. CASE phase = "lines"
        <3>1. Fed = 0 /\ Fed' = 0
          BY <2>2, <1>1, <1>3, WithinFacts DEF Fed
        <3>2. InTx = 0
          BY <2>2, Lengths DEF SelectInv, TypesAndPlace
        <3>3. ~IsLost => Heads /\ InFrame = sent
          <4>1. ~IsLost => Heads /\ InFrame + 0 = sent + 0
            BY <2>2, <3>1, <3>2 DEF HeardInv, Selected
          <4> QED BY <4>1, <1>1, WithinFacts
        <3>4. ~IsLost => Heads'
          BY <3>3, <1>1, <1>3, <1>4, WithinFacts DEF Heads
        <3>5. InFrame \in Nat
          BY <1>1, WithinFacts
        <3> QED BY <1>1, <1>3, <1>4, <3>1, <3>2, <3>3, <3>4, <3>5, WithinFacts DEF HeardInv
      <2> QED BY <1>2, <2>1, <2>2
    <1>7. RxInv'
      BY <1>1, <1>2, <1>3, <1>4, WithinFacts DEF RxInv, OfStatus
    <1>8. StatusInv'
      BY <1>1, <1>2, <1>3, WithinFacts DEF StatusInv, HasStatus, OfStatus
    <1> QED BY <1>5, <1>6, <1>7, <1>8

LEMMA ReadRxBus ==
    ASSUME TypesAndPlace, BusInv, ReadRx
    PROVE  SelectInv' /\ HeardInv' /\ RxInv' /\ StatusInv'
    <1> USE DEF BusInv
    <1>1. Within /\ ctl \in Controls /\ Taken /\ cpu \in Cpus
      BY TypeParts DEF Within, TypesAndPlace, ReadRx
    <1>2. /\ OfStatus(stage) /\ sent' = sent
          /\ \/ phase = "skip" /\ phase' = "take" /\ InRx = 2
             \/ phase = "take" /\ phase' = "next" /\ InRx = 1
      BY DEF ReadRx, RxInv, TypesAndPlace, PlaceInv, PhaseInv
    <1>3. ctl.rx # <<>>
      BY <1>2, Lengths DEF TypesAndPlace
    <1>4. /\ ctl'.tx = ctl.tx /\ ctl'.ss = ctl.ss /\ ctl'.mode = ctl.mode /\ InTx' = InTx
          /\ InRx' \in Nat /\ InRx' = InRx - 1
          /\ \A k \in 1 .. InRx' : ctl'.rx[k] = ctl.rx[k + 1]
          /\ Received = {ctl.rx[1]}
      BY <1>1, <1>3, TakenFacts
    <1>5. cpu'.val = ctl.rx[1] /\ cpu'.stored = cpu.stored /\ Stored' = Stored
      <2>1. cpu' = [cpu EXCEPT !.val = ctl.rx[1]]
        BY <1>4 DEF ReadRx
      <2> QED BY <2>1, <1>1 DEF Cpus, Stored
    <1>6. TypeOK' /\ (phase' = "next" => ctl'.rx = <<>>)
      <2>1. TypesAndPlace'
        BY ReadRxPlace
      <2>2. phase' = "next" => InRx' = 0
        BY <1>2, <1>4
      <2> QED BY <2>1, <2>2, LengthsNext DEF TypesAndPlace
    <1>7. SelectInv'
      BY <1>1, <1>2, <1>4, WithinFacts DEF SelectInv, Selected, Mode, OfStatus
    <1>8. HeardInv'
      BY <1>2 DEF HeardInv, Selected
    <1>9. RxInv'
      <2>1. phase' = "take" => InRx' = 1
        BY <1>2, <1>4
      <2> QED BY <1>1, <1>2, <1>5, <1>6, <2>1, WithinFacts DEF RxInv, OfStatus
    <1>10. StatusInv'
      <2>1. HasStatus
        BY <1>2 DEF HasStatus
      <2>2. StatusSeen' = StatusSeen
        <3>1. CASE phase = "skip"
          <4>1. InRx' = 1 /\ 1 \in 1 .. 1 /\ 1 + 1 = 2
            BY <3>1, <1>2, <1>4
          <4>2. ctl'.rx[1] = ctl.rx[2]
            BY <1>4, <4>1
          <4> QED BY <3>1, <1>2, <4>2 DEF StatusSeen
        <3>2. CASE phase = "take"
          BY <3>2, <1>2, <1>5 DEF StatusSeen
        <3> QED BY <1>2, <3>1, <3>2
      <2> QED BY <1>1, <2>1, <2>2, WithinFacts DEF StatusInv, Busy, Agrees
    <1> QED BY <1>7, <1>8, <1>9, <1>10

LEMMA DrainBus ==
    ASSUME TypesAndPlace, BusInv, Drain
    PROVE  SelectInv' /\ HeardInv' /\ RxInv' /\ StatusInv'
    <1> USE DEF BusInv
    <1>1. Within /\ ctl \in Controls /\ cpu \in Cpus
      BY TypeParts DEF Within, TypesAndPlace
    <1>2. stage = "ReadID" /\ phase = "drain" /\ sent' = sent /\ InRx + Stored = 5
      BY DEF Drain, RxInv, TypesAndPlace, PlaceInv, PhaseInv
    <1>3. HeardInv' /\ StatusInv'
      BY <1>1, <1>2, WithinFacts DEF HeardInv, Selected, StatusInv, HasStatus, OfStatus, Drain
    <1>4. CASE ctl.rx # <<>>
      <2>1. Taken /\ phase' = phase /\ cpu' = [cpu EXCEPT !.stored = Append(@, Head(ctl.rx))]
        BY <1>4 DEF Drain
      <2>2. ctl'.tx = ctl.tx /\ ctl'.ss = ctl.ss /\ ctl'.mode = ctl.mode /\ InTx' = InTx
              /\ InRx' \in Nat /\ InRx' = InRx - 1
        BY <1>1, <1>4, <2>1, TakenFacts
      <2>3. Stored' = Stored + 1 /\ Stored \in Nat
        BY <1>1, <2>1, WithinFacts DEF Stored, Cpus
      <2>4. SelectInv'
        BY <1>1, <1>2, <2>1, <2>2, WithinFacts DEF SelectInv, Selected, Mode
      <2>5. InRx' + Stored' = 5
        <3>1. \A a, b \in Nat : a + b = 5 => (a - 1) + (b + 1) = 5
          OBVIOUS
        <3>2. InRx \in Nat
          BY <1>1, WithinFacts
        <3> QED BY <3>1, <3>2, <1>2, <2>2, <2>3, Zenon
      <2>6. RxInv'
        BY <1>1, <1>2, <2>1, <2>5, WithinFacts DEF RxInv, OfStatus
      <2> QED BY <1>3, <2>4, <2>6
    <1>5. CASE ctl.rx = <<>>
      <2>1. phase' = "next" /\ ctl' = ctl /\ cpu' = cpu /\ Stored' = Stored
        BY <1>5 DEF Drain, Stored
      <2>2. Stored = 5
        BY <1>1, <1>2, <1>5, WithinFacts, Lengths DEF TypesAndPlace
      <2>3. SelectInv'
        BY <1>1, <1>2, <2>1, WithinFacts DEF SelectInv, Selected, Mode
      <2>4. RxInv'
        BY <1>1, <1>2, <1>5, <2>1, <2>2, WithinFacts DEF RxInv, OfStatus
      <2> QED BY <1>3, <2>3, <2>4
    <1> QED BY <1>4, <1>5

LEMMA WithinBus ==
    ASSUME TypesAndPlace, BusInv, Within
    PROVE  BusInv'
    BY WithinKept, ClearRxBus, SelectBus, WriteTxBus, SpinBus, FeedBus, WaitIdleBus, StoreBus,
       SetLinesBus, ReadRxBus, DrainBus DEF Within, BusInv

-----------------------------------------------------------------------------
(* The bus when the chip is deselected.                                    *)

\* What the chip has heard, unless it lost the frame, begins with the frame's command.
LEMMA FrameFacts ==
    ASSUME TypesAndPlace, SelectInv, HeardInv, chip.frame # <<>>, ~IsLost
    PROVE  /\ Selected /\ stage # "end" /\ InFrame \in Nat \ {0} /\ sent \in Nat \ {0}
           /\ chip.frame[1] = Opcode
           /\ \A k \in 1 .. InFrame : k <= sent => chip.frame[k] = Out[k]
           /\ sent <= OutLen /\ OutLen \in 1 .. 7
           /\ phase = "spin" => stage = "Program" /\ sent = 4
           /\ phase # "spin" /\ stage # "Read" => InFrame <= sent
           /\ phase = "release" /\ stage # "Read" => InFrame = OutLen /\ sent = OutLen
    <1>1. Selected /\ stage # "end"
      BY DEF SelectInv, Selected, TypesAndPlace, PlaceInv, PhaseInv
    <1>2. InFrame \in Nat \ {0} /\ InTx \in Nat /\ sent \in Nat
      BY Lengths DEF TypesAndPlace
    <1>3. Out[1] = Opcode /\ OutLen \in 1 .. 7
      BY <1>1, OutFacts DEF TypesAndPlace
    <1>4. sent <= OutLen
      BY <1>1, <1>2, <1>3 DEF TypesAndPlace, PlaceInv, PhaseInv, Selected
    <1>5. phase = "spin" => stage = "Program" /\ sent = 4
      BY DEF TypesAndPlace, PlaceInv, PhaseInv, OutLen, OfStatus
    <1>6. sent # 0
      <2> SUFFICES ASSUME sent = 0
                   PROVE  FALSE
        OBVIOUS
      <2>1. phase = "send"
        BY <1>1, <1>3 DEF TypesAndPlace, PlaceInv, PhaseInv, Selected
      <2>2. Fed = 0
        BY <2>1 DEF Fed
      <2>3. InFrame + InTx = 0 + 0
        BY <1>1, <2>1, <2>2 DEF HeardInv
      <2> QED BY <1>2, <2>3
    <1>7. \A k \in 1 .. InFrame : k <= sent => chip.frame[k] = Out[k]
      BY <1>1 DEF HeardInv, Heads
    <1>8. chip.frame[1] = Opcode
      BY <1>2, <1>3, <1>6, <1>7
    <1>9. phase # "spin" /\ stage # "Read" => InFrame + InTx = sent + 0
      BY <1>1 DEF HeardInv, Fed
    <1>10. phase # "spin" /\ stage # "Read" => InFrame <= sent
      <2>1. \A a, b, c \in Nat : a + b = c + 0 => a <= c
        OBVIOUS
      <2> QED BY <1>2, <1>9, <2>1, Zenon
    <1>11. phase = "release" /\ stage # "Read" => InFrame = OutLen /\ sent = OutLen
      <2> SUFFICES ASSUME phase = "release", stage # "Read"
                   PROVE  InFrame = OutLen /\ sent = OutLen
        OBVIOUS
      <2>1. InTx = 0 /\ sent = OutLen
        BY Lengths DEF SelectInv, TypesAndPlace, PlaceInv, PhaseInv
      <2>2. InFrame + 0 = sent + 0
        BY <1>9, <2>1
      <2> QED BY <1>2, <2>1, <2>2
    <1> QED BY <1>1, <1>2, <1>3, <1>4, <1>5, <1>6, <1>7, <1>8, <1>10, <1>11

\* Only the frame of its stage is a command.
LEMMA StageOf ==
    ASSUME TypeOK, stage # "end"
    PROVE  /\ Opcode = WRITE_STATUS => stage = "WriteStatus"
           /\ Opcode = PAGE_PROGRAM => stage = "Program"
           /\ Opcode = SECTOR_ERASE => stage = "Erase"
           /\ Opcode = WRITE_ENABLE => stage = "WriteEnable"
           /\ Opcode = FAST_READ_QUAD => stage = "Read" /\ QuadMode
           /\ Opcode = READ => stage = "Read" /\ ~QuadMode
           /\ Opcode = JEDEC_ID => stage = "ReadID"
           /\ Opcode # Lost
    BY StageCases DEF Opcode, OfStatus, JEDEC_ID, READ_STATUS, READ_STATUS2, WRITE_ENABLE, WRITE_STATUS,
                      READ, FAST_READ_QUAD, PAGE_PROGRAM, SECTOR_ERASE, Lost

\* What the chip executes after it is deselected, when it begins it then.
LEMMA Taking ==
    ASSUME TypesAndPlace, SelectInv, HeardInv, NEW c \in Deselected(chip.frame)
    PROVE  /\ c \in [frame : Seq(Byte), todo : Seq(Byte), wel : BOOLEAN,
                     sr1 : {0, 4}, sr2 : {0, 2, 4, 6}, id : ChipIds]
           /\ c.frame = <<>> /\ c.sr1 = chip.sr1 /\ c.sr2 = chip.sr2
           /\ \/ c.todo = chip.todo
              \/ /\ c.todo = chip.frame /\ ~IsLost /\ chip.frame # <<>>
                 /\ \/ IsWrite(chip.frame) /\ stage = "WriteStatus"
                    \/ IsErase(chip.frame) /\ stage = "Erase"
                    \/ IsProgram(chip.frame) /\ stage = "Program"
    <1>1. chip.frame \in Seq(Byte) /\ ChipTypeOK /\ TypeOK
      BY DEF TypesAndPlace, TypeOK, ChipTypeOK
    <1>2. /\ c \in [frame : Seq(Byte), todo : Seq(Byte), wel : BOOLEAN,
                    sr1 : {0, 4}, sr2 : {0, 2, 4, 6}, id : ChipIds]
          /\ c.frame = <<>> /\ c.sr1 = chip.sr1 /\ c.sr2 = chip.sr2
          /\ ~(IsErase(chip.frame) \/ IsProgram(chip.frame) \/ IsWrite(chip.frame)) =>
                c.todo = chip.todo
          /\ c.todo \in {chip.todo, chip.frame}
      BY <1>1, DeselectedCases
    <1>3. ASSUME IsErase(chip.frame) \/ IsProgram(chip.frame) \/ IsWrite(chip.frame)
          PROVE  /\ ~IsLost /\ chip.frame # <<>>
                 /\ \/ IsWrite(chip.frame) /\ stage = "WriteStatus"
                    \/ IsErase(chip.frame) /\ stage = "Erase"
                    \/ IsProgram(chip.frame) /\ stage = "Program"
      <2>1. chip.frame # <<>>
        BY <1>1, <1>3 DEF IsErase, IsProgram, IsWrite
      <2>2. ~IsLost
        BY <1>3, CommandBytes DEF IsLost, Lost, SECTOR_ERASE, PAGE_PROGRAM, WRITE_STATUS
      <2>3. chip.frame[1] = Opcode /\ stage # "end"
        BY <2>1, <2>2, FrameFacts
      <2> QED BY <1>1, <1>3, <2>1, <2>2, <2>3, StageOf, CommandBytes
    <1> QED BY <1>2, <1>3

LEMMA ReleaseBus ==
    ASSUME TypesAndPlace, BusInv, Release
    PROVE  BusInv'
    <1> USE DEF BusInv
    <1>1. /\ phase = "release" /\ cpu' = cpu /\ hist' = hist /\ stage' = stage /\ sent' = sent
          /\ call' = call /\ build' = build /\ qe' = qe /\ done' = done
          /\ phase' = CASE stage = "ReadID"            -> "drain"
                        [] OfStatus(stage)             -> "skip"
                        [] stage = "Read" /\ QuadMode  -> "single"
                        [] OTHER                       -> "next"
          /\ ctl'.tx = ctl.tx /\ ctl'.rx = ctl.rx /\ ctl'.ss = "high" /\ ctl'.mode = ctl.mode
      BY TypeParts DEF Release, kept, TypesAndPlace, Controls
    <1>2. InTx = 0 /\ InTx' = 0 /\ InRx' = InRx /\ Stored' = Stored /\ ctl.tx = <<>> /\ stage # "end"
            /\ QuadMode' = QuadMode /\ sent = OutLen /\ InRx \in Nat
      BY <1>1, Lengths DEF TypesAndPlace, SelectInv, InTx, InRx, Stored, QuadMode, PlaceInv, PhaseInv
    <1>3. /\ chip'.frame = <<>> /\ chip'.sr1 = chip.sr1 /\ chip'.sr2 = chip.sr2
          /\ \/ chip'.todo = chip.todo
             \/ /\ chip'.todo = chip.frame /\ ~IsLost /\ chip.frame # <<>>
                /\ \/ IsWrite(chip.frame) /\ stage = "WriteStatus"
                   \/ IsErase(chip.frame) /\ stage = "Erase"
                   \/ IsProgram(chip.frame) /\ stage = "Program"
      BY Taking DEF Release
    <1>4. SelectInv'
      BY <1>1, <1>2, <1>3 DEF SelectInv, Selected, Mode, OfStatus
    <1>5. HeardInv' /\ StatusHeard'
      BY <1>1, <1>3 DEF HeardInv, Selected, StatusHeard, IsLost
    <1>6. OfStatus(stage) => InRx = 2
      <2> SUFFICES ASSUME OfStatus(stage) PROVE InRx = 2
        OBVIOUS
      <2>1. sent = 2
        BY <1>2 DEF OutLen, OfStatus
      <2>2. InRx + 0 = 2
        BY <1>1, <1>2, <2>1 DEF RxInv
      <2> QED BY <1>2, <2>2
    <1>7. stage = "ReadID" => InRx + Stored = 5
      <2> SUFFICES ASSUME stage = "ReadID" PROVE InRx + Stored = 5
        OBVIOUS
      <2>1. sent = 5
        BY <1>2 DEF OutLen, OfStatus
      <2>2. InRx + 0 = 5 /\ Stored = 0
        BY <1>1, <1>2, <2>1 DEF RxInv
      <2> QED BY <1>2, <2>2
    <1>8. RxInv'
      BY <1>1, <1>2, <1>6, <1>7 DEF RxInv, OfStatus
    <1>9. StatusInv'
      <2> SUFFICES ASSUME OfStatus(stage)
                   PROVE  StatusInv'
        BY <1>1 DEF StatusInv, HasStatus
      <2>1. HasStatus /\ StatusSeen' = StatusSeen
        BY <1>1, <1>6 DEF HasStatus, StatusSeen, OfStatus
      <2>2. chip'.todo = chip.todo
        BY <1>3 DEF OfStatus
      <2> QED BY <1>1, <1>3, <2>1, <2>2 DEF StatusInv, Busy, Agrees
    <1>10. KeptInv'
      <2>1. ASSUME ~hist.cut, IsWrite(chip'.todo)
            PROVE  /\ Len(chip'.todo) = 3
                   /\ Agrees(chip'.todo[2], chip.sr1) /\ Agrees(chip'.todo[3], chip.sr2)
        <3>1. CASE chip'.todo = chip.todo
          BY <2>1, <3>1 DEF KeptInv
        <3>2. CASE chip'.todo # chip.todo
          <4>1. chip'.todo = chip.frame /\ ~IsLost /\ chip.frame # <<>> /\ stage = "WriteStatus"
            BY <1>3, <2>1, <3>2, CommandBytes
          <4>2. InFrame = 3 /\ sent = 3 /\ \A k \in 1 .. InFrame : k <= sent => chip.frame[k] = Out[k]
            BY <4>1, <1>1, FrameFacts DEF OutLen, OfStatus
          <4>3. chip.frame[2] = Out[2] /\ chip.frame[3] = Out[3]
            BY <4>2
          <4>4. Out[2] = cpu.reg1 /\ Out[3] = cpu.reg2
            BY <4>1, OutFacts DEF TypesAndPlace
          <4>5. call.op = "read"
            BY <4>1 DEF TypesAndPlace, PlaceInv, CallInv
          <4>6. Agrees(cpu.reg1, chip.sr1) /\ Agrees(cpu.reg2, chip.sr2)
            BY <2>1, <4>1, <4>5 DEF KeptInv
          <4> QED BY <4>1, <4>2, <4>3, <4>4, <4>6 DEF InFrame
        <3> QED BY <3>1, <3>2
      <2> QED BY <1>1, <1>3, <2>1 DEF KeptInv
    <1> QED BY <1>4, <1>5, <1>8, <1>9, <1>10

-----------------------------------------------------------------------------
(* The bus when a byte is shifted out, and one in.                         *)

\* How many bytes of the frame there can be.
LEMMA FrameRoom ==
    ASSUME TypesAndPlace, SelectInv, HeardInv, ~IsLost, ctl.tx # <<>>
    PROVE  InFrame < MaxFrame \/ (phase = "spin" /\ InFrame >= MaxFrame /\ InFrame > sent)
    <1>1. Selected /\ InTx # 0 /\ InTx \in Nat /\ InFrame \in Nat /\ sent \in Nat /\ Stored \in Nat
            /\ done \in Nat
      BY Lengths DEF SelectInv, TypesAndPlace
    <1>2. PageSize + 7 <= MaxFrame /\ MaxFrame >= 8 /\ MaxFrame \in Nat /\ PageSize \in Nat \ {0}
      BY Constants
    <1>3. stage # "end" /\ OutLen \in 1 .. 7 /\ sent <= OutLen
      <2>1. stage # "end"
        BY <1>1 DEF Selected, TypesAndPlace, PlaceInv, PhaseInv
      <2>2. OutLen \in 1 .. 7
        BY <2>1, OutFacts DEF TypesAndPlace
      <2> QED BY <1>1, <2>1, <2>2 DEF Selected, TypesAndPlace, PlaceInv, PhaseInv
    <1>4. CASE phase = "spin"
      BY <1>1, <1>2, <1>3, <1>4
    <1>5. CASE phase # "spin"
      <2>1. InFrame + InTx = sent + Fed
        BY <1>1, <1>5 DEF HeardInv
      <2>2. Fed \in 0 .. PageSize
        <3>1. CASE stage = "Read" /\ phase = "fetch"
          <4>1. Piece \in 1 .. PageSize /\ done <= Stored /\ Stored < done + Piece
            BY <3>1, PieceFacts DEF TypesAndPlace, PlaceInv, CountInv, CallInv, Stored
          <4>2. Fed = Stored - done + 1
            BY <3>1 DEF Fed
          <4> QED BY <1>1, <1>2, <4>1, <4>2
        <3>2. CASE ~(stage = "Read" /\ phase = "fetch")
          <4>1. phase \notin {"feed", "store", "last", "release"}
            BY DEF SelectInv
          <4>2. Fed = 0
            BY <3>2, <4>1 DEF Fed
          <4> QED BY <4>2, <1>2
        <3> QED BY <3>1, <3>2
      <2>3. \A a, b, c, d \in Nat :
               a + b = c + d /\ b # 0 /\ c <= 7 /\ d <= PageSize => a < MaxFrame
        BY <1>2
      <2>4. Fed \in Nat /\ Fed <= PageSize /\ sent <= 7
        BY <1>1, <1>2, <1>3, <2>2
      <2> QED BY <1>1, <2>1, <2>3, <2>4, Zenon
    <1> QED BY <1>4, <1>5

\* What the chip has heard after it.
LEMMA ShiftFacts ==
    ASSUME TypesAndPlace, SelectInv, Shift
    PROVE  /\ Selected /\ ctl.tx # <<>> /\ phase \in {"send", "spin", "wait", "fetch"}
           /\ UNCHANGED <<driver, hist, kept>> /\ ctl'.ss = ctl.ss /\ ctl'.mode = ctl.mode
           /\ InTx' = InTx - 1 /\ InTx' \in Nat /\ InTx >= 1
           /\ \A k \in 1 .. InTx' : ctl'.tx[k] = ctl.tx[k + 1]
           /\ InRx < FifoDepth =>
                 /\ InRx' = InRx + 1 /\ ctl'.rx[InRx + 1] = Answer(HeardNext)
                 /\ \A k \in 1 .. InRx : ctl'.rx[k] = ctl.rx[k]
           /\ chip' = [chip EXCEPT !.frame = HeardNext] /\ chip'.frame = HeardNext
           /\ chip'.todo = chip.todo /\ chip'.sr1 = chip.sr1 /\ chip'.sr2 = chip.sr2
           /\ chip'.wel = chip.wel
    <1> DEFINE t == ctl.tx
               r == ctl.rx
               a == Answer(HeardNext)
    <1>1. Selected /\ ctl.tx # <<>> /\ phase \in {"send", "spin", "wait", "fetch"} /\ ctl.ss = "low"
      BY DEF Shift, SelectInv, Selected
    <1>2. /\ UNCHANGED <<driver, hist, kept>>
          /\ ctl' = [ctl EXCEPT !.tx = Tail(t),
                            !.rx = IF Len(r) < FifoDepth THEN Append(r, a) ELSE r]
          /\ chip' = [chip EXCEPT !.frame = HeardNext]
      BY <1>1 DEF Shift
    <1>3. t \in Seq(Byte) /\ r \in Seq(Byte) /\ t # <<>> /\ a \in Byte
      BY <1>1, ShiftTypes DEF TypesAndPlace, Fifo
    <1>4. ctl \in Controls /\ ChipTypeOK
      BY TypeParts DEF TypesAndPlace
    <1> HIDE DEF a
    <1>5. /\ ctl'.tx = Tail(t) /\ ctl'.ss = ctl.ss /\ ctl'.mode = ctl.mode
          /\ ctl'.rx = IF Len(r) < FifoDepth THEN Append(r, a) ELSE r
          /\ InTx = Len(t) /\ InRx = Len(r) /\ InTx' = Len(Tail(t))
          /\ InRx' = Len(IF Len(r) < FifoDepth THEN Append(r, a) ELSE r)
      BY <1>2, <1>4 DEF Controls, InTx, InRx
    <1>6. /\ chip'.frame = HeardNext /\ chip'.todo = chip.todo /\ chip'.sr1 = chip.sr1
          /\ chip'.sr2 = chip.sr2 /\ chip'.wel = chip.wel
      BY <1>2, <1>4 DEF ChipTypeOK
    <1> HIDE DEF t, r
    <1>7. Len(Tail(t)) = Len(t) - 1 /\ Len(Tail(t)) \in Nat /\ Len(t) >= 1
            /\ \A k \in 1 .. Len(Tail(t)) : Tail(t)[k] = t[k + 1]
      BY <1>3
    <1>8. /\ Len(Append(r, a)) = Len(r) + 1 /\ Append(r, a)[Len(r) + 1] = a
          /\ \A k \in 1 .. Len(r) : Append(r, a)[k] = r[k]
      BY <1>3
    <1>9. InTx' = InTx - 1 /\ InTx' \in Nat /\ InTx >= 1
            /\ \A k \in 1 .. InTx' : ctl'.tx[k] = ctl.tx[k + 1]
      BY <1>5, <1>7 DEF t
    <1>10. InRx < FifoDepth =>
              /\ InRx' = InRx + 1 /\ ctl'.rx[InRx + 1] = Answer(HeardNext)
              /\ \A k \in 1 .. InRx : ctl'.rx[k] = ctl.rx[k]
      BY <1>5, <1>8 DEF a, r
    <1> QED BY <1>1, <1>2, <1>5, <1>6, <1>9, <1>10

\* The frame it makes: longer by the byte sent, full as before, or lost.
LEMMA NextFrame ==
    ASSUME TypesAndPlace, SelectInv, HeardInv, ctl.tx # <<>>
    PROVE  /\ HeardNext \in Seq(Byte)
           /\ \/ HeardNext = <<Lost>>
              \/ /\ Len(HeardNext) = InFrame + 1 /\ HeardNext[InFrame + 1] = ctl.tx[1]
                 /\ \A k \in 1 .. InFrame : HeardNext[k] = chip.frame[k]
              \/ HeardNext = chip.frame /\ InFrame >= MaxFrame
           /\ IsLost => HeardNext # <<>> /\ HeardNext[1] = Lost
    <1> DEFINE b == Head(ctl.tx)
               h == HeardNext
               f == chip.frame
    <1>1. f \in Seq(Byte) /\ b \in Byte /\ b = ctl.tx[1]
            /\ RightMode(Append(chip.frame, Head(ctl.tx))) \in BOOLEAN /\ MaxFrame > 1
      BY ShiftTypes, Constants DEF TypesAndPlace
    <1>2. h = Heard(b, RightMode(Append(chip.frame, Head(ctl.tx))))
      BY DEF HeardNext
    <1>3. h \in Seq(Byte) /\ (h = <<Lost>> \/ h = Append(f, b)
                                \/ (h = f /\ Len(f) >= MaxFrame))
      BY <1>1, <1>2, HeardCases
    <1> HIDE DEF b, h
    <1>4. InFrame = Len(f) /\ (IsLost <=> f # <<>> /\ f[1] = Lost)
      BY DEF InFrame, IsLost
    <1> HIDE DEF f
    <1>5. Len(Append(f, b)) = Len(f) + 1 /\ Append(f, b)[Len(f) + 1] = b
            /\ \A k \in 1 .. Len(f) : Append(f, b)[k] = f[k]
      BY <1>1
    <1>6. f # <<>> => 1 \in 1 .. Len(f)
      BY <1>1
    <1>7. IsLost => h # <<>> /\ h[1] = Lost
      <2>1. CASE h = <<Lost>>
        BY <2>1
      <2>2. CASE h = Append(f, b)
        <3>1. Append(f, b) # <<>>
          <4>1. Len(f) \in Nat /\ Len(<<>>) = 0
            BY <1>1
          <4> QED BY <4>1, <1>5
        <3> QED BY <1>4, <1>5, <1>6, <2>2, <3>1
      <2>3. CASE h = f
        BY <1>4, <2>3
      <2> QED BY <1>3, <2>1, <2>2, <2>3
    <1> QED BY <1>1, <1>3, <1>4, <1>5, <1>7 DEF h, f

LEMMA ShiftHeard ==
    ASSUME TypesAndPlace, SelectInv, HeardInv, Shift
    PROVE  HeardInv' /\ (IsLost => IsLost')
    <1>1. /\ Selected /\ ctl.tx # <<>> /\ UNCHANGED <<driver, hist, kept>>
          /\ ctl'.mode = ctl.mode /\ chip'.frame = HeardNext
          /\ InTx' = InTx - 1 /\ InTx' \in Nat /\ InTx >= 1
          /\ \A k \in 1 .. InTx' : ctl'.tx[k] = ctl.tx[k + 1]
      BY ShiftFacts
    <1>2. InFrame \in Nat /\ InTx \in Nat /\ sent \in Nat
      BY Lengths DEF TypesAndPlace
    <1>3. /\ HeardNext \in Seq(Byte)
          /\ \/ HeardNext = <<Lost>>
             \/ /\ Len(HeardNext) = InFrame + 1 /\ HeardNext[InFrame + 1] = ctl.tx[1]
                /\ \A k \in 1 .. InFrame : HeardNext[k] = chip.frame[k]
             \/ HeardNext = chip.frame /\ InFrame >= MaxFrame
          /\ IsLost => HeardNext # <<>> /\ HeardNext[1] = Lost
      BY <1>1, NextFrame
    <1>4. IsLost => IsLost'
      BY <1>1, <1>3 DEF IsLost
    <1>5. HeardNext = <<Lost>> => IsLost'
      BY <1>1 DEF IsLost
    <1>6. HeardInv'
      <2> SUFFICES ASSUME ~IsLost'
                   PROVE  HeardInv'
        BY DEF HeardInv
      <2>1. /\ sent' = sent /\ Out' = Out /\ Fed' = Fed /\ phase' = phase /\ InFrame' = Len(HeardNext)
        BY <1>1, SameFrame DEF driver, place, kept, Fed, Stored, InFrame
      <2>2. /\ ~IsLost /\ Heads /\ InFrame + InTx >= sent + Fed
            /\ phase # "spin" => InFrame + InTx = sent + Fed
            /\ ctl.mode # "single" => InFrame >= 1
            /\ ctl.mode = "in" => InFrame >= 7
        BY <1>1, <1>4 DEF HeardInv
      <2>3. CASE /\ Len(HeardNext) = InFrame + 1 /\ HeardNext[InFrame + 1] = ctl.tx[1]
                 /\ \A k \in 1 .. InFrame : HeardNext[k] = chip.frame[k]
        <3>1. InFrame' = InFrame + 1
          BY <2>1, <2>3
        <3>2. ctl.tx[1] = Out[InFrame + 1] \/ ~(InFrame + 1 <= sent)
          <4>1. 1 \in 1 .. InTx
            BY <1>1, <1>2
          <4> QED BY <4>1, <2>2 DEF Heads
        <3>3. \A k \in 1 .. InFrame' : k <= sent => HeardNext[k] = Out[k]
          <4> SUFFICES ASSUME NEW k \in 1 .. InFrame + 1, k <= sent
                       PROVE  HeardNext[k] = Out[k]
            BY <3>1
          <4>1. CASE k \in 1 .. InFrame
            BY <4>1, <2>2, <2>3 DEF Heads
          <4>2. CASE k = InFrame + 1
            BY <4>2, <2>3, <3>2
          <4> QED BY <4>1, <4>2, <1>2
        <3>4. \A k \in 1 .. InTx' : InFrame' + k <= sent => ctl'.tx[k] = Out[InFrame' + k]
          <4> SUFFICES ASSUME NEW k \in 1 .. InTx', InFrame' + k <= sent
                       PROVE  ctl'.tx[k] = Out[InFrame' + k]
            OBVIOUS
          <4>1. k \in Nat /\ k + 1 \in 1 .. InTx
            BY <1>1, <1>2
          <4>2. InFrame' + k = InFrame + (k + 1)
            BY <1>2, <3>1, <4>1
          <4>3. ctl.tx[k + 1] = Out[InFrame + (k + 1)]
            BY <4>1, <4>2, <2>2 DEF Heads
          <4> QED BY <1>1, <4>2, <4>3
        <3>5. /\ InFrame' + InTx' >= sent + Fed
              /\ phase # "spin" => InFrame' + InTx' = sent + Fed
          <4>1. InFrame' + InTx' = InFrame + InTx
            <5>1. \A x, y \in Nat : (x + 1) + (y - 1) = x + y
              OBVIOUS
            <5> QED BY <1>1, <1>2, <3>1, <5>1, Zenon
          <4> QED BY <4>1, <2>2
        <3>6. InFrame' >= 1 /\ (InFrame >= 7 => InFrame' >= 7)
          BY <1>2, <3>1
        <3> HIDE DEF Fed
        <3> QED BY <1>1, <2>1, <2>2, <3>3, <3>4, <3>5, <3>6 DEF HeardInv, Heads
      <2>4. CASE HeardNext = chip.frame /\ InFrame >= MaxFrame
        <3>1. phase = "spin" /\ InFrame > sent
          <4>1. InFrame < MaxFrame \/ (phase = "spin" /\ InFrame > sent)
            BY <1>1, <2>2, FrameRoom
          <4> QED BY <4>1, <2>4, <1>2, Constants
        <3>2. InFrame' = InFrame /\ chip'.frame = chip.frame
          BY <1>1, <2>1, <2>4 DEF InFrame
        <3>3. Fed = 0
          BY <3>1 DEF Fed
        <3>4. InFrame + InTx' >= sent + 0
          <4>1. \A x, y, z \in Nat : x > z => x + y >= z + 0
            OBVIOUS
          <4> QED BY <4>1, <1>1, <1>2, <3>1, Zenon
        <3>5. Heads'
          <4>1. \A k \in 1 .. InFrame : k <= sent => chip.frame[k] = Out[k]
            BY <2>2 DEF Heads
          <4>2. \A k \in 1 .. InTx' : ~(InFrame + k <= sent)
            BY <1>1, <1>2, <3>1
          <4> QED BY <4>1, <4>2, <2>1, <3>2 DEF Heads
        <3>6. ctl.mode = "single"
          <4>1. stage = "Program"
            BY <3>1 DEF TypesAndPlace, PlaceInv, PhaseInv
          <4> QED BY <4>1 DEF SelectInv, Mode
        <3> QED BY <1>1, <2>1, <3>1, <3>2, <3>3, <3>4, <3>5, <3>6 DEF HeardInv
      <2> QED BY <1>3, <1>5, <2>3, <2>4
    <1> QED BY <1>4, <1>6

\* A status is read also from a busy chip.
LEMMA ShiftStatus ==
    ASSUME TypesAndPlace, SelectInv, HeardInv, StatusHeard, Shift, OfStatus(stage)
    PROVE  /\ ~IsLost' /\ InFrame' = InFrame + 1 /\ phase # "spin"
           /\ InFrame' >= 1 /\ HeardNext[1] = Opcode /\ HeardNext # <<Lost>>
    <1> DEFINE b == Head(ctl.tx)
               f == chip.frame
               clear == RightMode(Append(chip.frame, Head(ctl.tx)))
    <1>1. Selected /\ ctl.tx # <<>> /\ chip'.frame = HeardNext /\ InTx >= 1 /\ InTx \in Nat
            /\ InFrame \in Nat /\ sent \in Nat
      BY ShiftFacts, Lengths DEF TypesAndPlace
    <1>2. f \in Seq(Byte) /\ b \in Byte /\ b = ctl.tx[1] /\ clear \in BOOLEAN /\ MaxFrame > 1
            /\ MaxFrame \in Nat
      BY <1>1, ShiftTypes, Constants DEF TypesAndPlace
    <1>3. ~IsLost /\ phase # "spin" /\ stage # "end"
      BY DEF StatusHeard, TypesAndPlace, PlaceInv, PhaseInv, OfStatus
    <1>4. Opcode \in {READ_STATUS, READ_STATUS2} /\ Opcode # FAST_READ_QUAD /\ Opcode # Lost
      BY DEF Opcode, OfStatus, READ_STATUS, READ_STATUS2, FAST_READ_QUAD, Lost
    <1>5. Out[1] = Opcode /\ OutLen = 2
      BY <1>3, OutFacts DEF TypesAndPlace, OutLen, OfStatus
    <1>6. InFrame < MaxFrame /\ InFrame + InTx = sent + 0
      BY <1>1, <1>3, FrameRoom DEF HeardInv, Fed, OfStatus
    <1>7. sent >= 1 /\ (InFrame = 0 => b = Opcode)
      <2>1. \A x, y, z \in Nat : x + y = z + 0 /\ y >= 1 => z >= 1
        OBVIOUS
      <2>2. sent >= 1
        BY <1>1, <1>6, <2>1, Zenon
      <2>3. 1 \in 1 .. InTx
        BY <1>1
      <2>4. InFrame = 0 => ctl.tx[1] = Out[0 + 1]
        BY <1>1, <1>3, <2>2, <2>3 DEF HeardInv, Heads
      <2> QED BY <1>2, <1>5, <2>2, <2>4
    <1>8. InFrame # 0 => f[1] = Opcode
      BY <1>1, <1>3, <1>5, <1>7 DEF HeardInv, Heads
    <1>9. ctl.mode = "single"
      BY DEF SelectInv, Mode, OfStatus
    <1> HIDE DEF b, f
    <1>10. InFrame = Len(f) /\ (f = <<>> <=> InFrame = 0)
      BY Lengths DEF InFrame, f, TypesAndPlace
    <1>11. /\ Append(f, b) \in Seq(Byte) /\ Len(Append(f, b)) = InFrame + 1
           /\ Append(f, b)[1] = Opcode
      <2>1. Append(f, b) \in Seq(Byte) /\ Len(Append(f, b)) = Len(f) + 1
              /\ Append(f, b)[Len(f) + 1] = b /\ \A k \in 1 .. Len(f) : Append(f, b)[k] = f[k]
        BY <1>2
      <2>2. CASE InFrame = 0
        BY <1>7, <1>10, <2>1, <2>2
      <2>3. CASE InFrame # 0
        BY <1>1, <1>8, <1>10, <2>1, <2>3
      <2> QED BY <1>10, <2>1, <2>2, <2>3
    <1>12. clear
      BY <1>4, <1>9, <1>11 DEF RightMode, b, f
    <1> HIDE DEF clear
    <1>13. HeardNext = Append(f, b)
      <2>1. HeardNext = Heard(b, clear)
        BY DEF HeardNext, b, clear
      <2>2. f = <<>> /\ Busy => b \in {READ_STATUS, READ_STATUS2}
        BY <1>4, <1>7, <1>10
      <2>3. Len(f) < MaxFrame
        BY <1>6, <1>10
      <2>4. \/ HeardNext = <<Lost>> /\ ~(clear /\ (f = <<>> /\ Busy => b \in {READ_STATUS, READ_STATUS2}))
            \/ HeardNext = Append(f, b)
            \/ HeardNext = f /\ Len(f) >= MaxFrame
        BY <1>2, <2>1, HeardCases DEF f
      <2>5. Len(f) \in Nat
        BY <1>2
      <2> QED BY <1>2, <1>12, <2>2, <2>3, <2>4, <2>5
    <1>14. HeardNext # <<Lost>> /\ ~IsLost'
      <2>1. HeardNext[1] = Opcode /\ Opcode # Lost
        BY <1>4, <1>11, <1>13, Zenon
      <2>2. <<Lost>>[1] = Lost
        OBVIOUS
      <2> QED BY <1>1, <2>1, <2>2, Zenon DEF IsLost
    <1>15. InFrame' = InFrame + 1
      BY <1>1, <1>11, <1>13 DEF InFrame
    <1> QED BY <1>1, <1>3, <1>11, <1>13, <1>14, <1>15

LEMMA ShiftBus ==
    ASSUME TypesAndPlace, BusInv, Shift
    PROVE  BusInv'
    <1> USE DEF BusInv
    <1>1. /\ Selected /\ ctl.tx # <<>> /\ phase \in {"send", "spin", "wait", "fetch"}
          /\ ctl'.ss = ctl.ss /\ ctl'.mode = ctl.mode /\ chip'.frame = HeardNext
          /\ InTx' = InTx - 1 /\ InTx' \in Nat /\ InTx >= 1
          /\ chip'.todo = chip.todo /\ chip'.sr1 = chip.sr1 /\ chip'.sr2 = chip.sr2
          /\ build' = build /\ stage' = stage /\ phase' = phase /\ sent' = sent /\ done' = done
          /\ qe' = qe /\ cpu' = cpu /\ call' = call /\ hist' = hist
      BY ShiftFacts DEF driver, place, kept
    <1>2. /\ InRx < FifoDepth =>
                /\ InRx' = InRx + 1 /\ ctl'.rx[InRx + 1] = Answer(HeardNext)
                /\ \A k \in 1 .. InRx : ctl'.rx[k] = ctl.rx[k]
      BY ShiftFacts
    <1>3. InTx \in Nat /\ InRx \in Nat /\ InFrame \in Nat /\ sent \in Nat /\ Stored' = Stored
            /\ FifoDepth \in Nat /\ FifoDepth >= 8
      BY <1>1, Lengths, Constants DEF TypesAndPlace, Stored
    <1>4. HeardInv' /\ (IsLost => IsLost')
      BY ShiftHeard
    <1>5. SelectInv'
      BY <1>1 DEF SelectInv, Selected, Mode, QuadMode
    <1>6. StatusHeard'
      BY <1>1, ShiftStatus DEF StatusHeard, OfStatus
    <1>7. stage = "ReadID" \/ OfStatus(stage) \/ phase = "fetch" =>
             InRx < FifoDepth /\ InRx' + InTx' = InRx + InTx
      <2> SUFFICES ASSUME stage = "ReadID" \/ OfStatus(stage) \/ phase = "fetch"
                   PROVE  InRx < FifoDepth /\ InRx' + InTx' = InRx + InTx
        OBVIOUS
      <2>1. PICK n \in 0 .. 7 : InRx + InTx = n
        <3>1. CASE phase = "fetch"
          BY <3>1 DEF RxInv
        <3>2. CASE phase # "fetch"
          <4>1. phase # "spin"
            BY <3>2 DEF TypesAndPlace, PlaceInv, PhaseInv, OfStatus
          <4>2. InRx + InTx = sent
            BY <1>1, <3>2, <4>1 DEF RxInv
          <4>3. sent <= OutLen /\ OutLen \in 1 .. 7
            <5>1. stage # "end"
              BY <1>1 DEF TypesAndPlace, PlaceInv, PhaseInv
            <5>2. OutLen \in 1 .. 7
              BY <5>1, OutFacts DEF TypesAndPlace
            <5> QED BY <1>1, <1>3, <4>1, <3>2, <5>2 DEF TypesAndPlace, PlaceInv, PhaseInv
          <4>4. sent \in 0 .. 7
            BY <1>3, <4>3
          <4> QED BY <4>2, <4>4
        <3> QED BY <3>1, <3>2
      <2>2. \A x, y, z \in Nat : x + y = z /\ z <= 7 /\ y >= 1 => x < FifoDepth
        BY <1>3
      <2>3. InRx < FifoDepth
        <3>1. n \in Nat /\ n <= 7
          OBVIOUS
        <3> QED BY <1>1, <1>3, <2>1, <2>2, <3>1, Zenon
      <2>4. \A x, y \in Nat : (x + 1) + (y - 1) = x + y
        OBVIOUS
      <2>5. InRx' = InRx + 1
        BY <1>2, <2>3
      <2> QED BY <1>1, <1>3, <2>3, <2>4, <2>5, Zenon
    <1>8. RxInv'
      <2>1. stage # "end"
        BY <1>1 DEF TypesAndPlace, PlaceInv, PhaseInv
      <2>2. (stage = "ReadID" \/ OfStatus(stage)) /\ phase \in {"send", "wait"}
               => InRx' + InTx' = sent
        BY <1>7 DEF RxInv
      <2>3. phase = "fetch" => InRx' + InTx' = 1
        BY <1>7 DEF RxInv
      <2>4. stage = "ReadID" => Stored = 0
        BY <1>1 DEF RxInv
      <2> QED BY <1>1, <1>3, <2>1, <2>2, <2>3, <2>4 DEF RxInv, OfStatus, Qspi
    <1>9. StatusInv'
      <2> SUFFICES ASSUME HasStatus'
                   PROVE  StatusInv'
        BY DEF StatusInv
      <2>1. OfStatus(stage) /\ phase = "wait" /\ InRx' = 2 /\ sent = 2 /\ stage # "end"
        <3>1. OfStatus(stage) /\ phase = "wait" /\ InRx' = 2
          BY <1>1 DEF HasStatus, OfStatus
        <3> QED BY <3>1 DEF TypesAndPlace, PlaceInv, PhaseInv, OutLen, OfStatus
      <2>2. InRx = 1
        <3>1. InRx' = InRx + 1
          BY <1>2, <1>7, <2>1
        <3>2. \A x \in Nat : x + 1 = 2 => x = 1
          OBVIOUS
        <3> QED BY <1>3, <2>1, <3>1, <3>2, Zenon
      <2>3. ctl'.rx[2] = Answer(HeardNext)
        <3>1. 1 < FifoDepth /\ 1 + 1 = 2
          BY <1>3
        <3>2. InRx < FifoDepth => ctl'.rx[InRx + 1] = Answer(HeardNext)
          BY <1>2
        <3> QED BY <2>2, <3>1, <3>2, Zenon
      <2>4. InFrame' = 2
        <3>1. InRx + InTx = 2
          BY <1>1, <2>1 DEF RxInv
        <3>2. InTx = 1
          BY <1>3, <2>2, <3>1
        <3>3. ~IsLost
          BY <2>1 DEF StatusHeard
        <3>4. InFrame + InTx = 2 + 0
          BY <1>1, <2>1, <3>3 DEF HeardInv, Fed, OfStatus
        <3>5. InFrame = 1
          BY <1>3, <3>2, <3>4
        <3> QED BY <2>1, <3>5, ShiftStatus
      <2>5. Len(HeardNext) = 2 /\ HeardNext[1] = Opcode
        BY <1>1, <2>1, <2>4, ShiftStatus DEF InFrame
      <2>6. Answer(HeardNext) = IF stage = "Status2" THEN chip.sr2 ELSE Status1
        <3>1. Opcode = IF stage = "Status2" THEN READ_STATUS2 ELSE READ_STATUS
          BY <2>1 DEF Opcode, OfStatus
        <3>2. Len(HeardNext) > 1
          BY <2>5
        <3> QED BY <2>5, <3>1, <3>2, AnswerCases
      <2>7. ChipTypeOK
        BY DEF TypesAndPlace, TypeOK
      <2>8. StatusSeen' = IF stage = "Status2" THEN chip.sr2 ELSE Status1
        BY <1>1, <2>1, <2>3, <2>6 DEF StatusSeen
      <2>9. Busy' = Busy
        BY <1>1 DEF Busy
      <2>10. /\ Status1 % 2 = 0 <=> ~Busy
             /\ Agrees(Status1, chip.sr1) /\ Agrees(chip.sr2, chip.sr2)
        BY <2>7, StatusBits DEF Agrees
      <2> HIDE DEF Busy, Agrees
      <2>11. stage # "Status2" /\ StatusSeen' % 2 = 0 => ~Busy
        BY <2>8, <2>10
      <2>12. Agrees(StatusSeen', IF stage = "Status2" THEN chip.sr2 ELSE chip.sr1)
        BY <2>8, <2>10
      <2> QED BY <1>1, <2>9, <2>11, <2>12 DEF StatusInv, Agrees
    <1>10. KeptInv'
      BY <1>1 DEF KeptInv
    <1> QED BY <1>4, <1>5, <1>6, <1>8, <1>9, <1>10

-----------------------------------------------------------------------------
(* The bus when the chip ends a command, and after a reset.                *)

\* What the chip makes of the two bytes of a status write.
LEMMA WrittenBits ==
    ASSUME NEW v \in Byte
    PROVE  /\ (2 * ((v \div 2) % 4)) \div 4 = (v \div 4) % 2
           /\ (2 * ((v \div 2) % 4)) \div 2 = (v \div 2) % 4
           /\ ((v \div 2) % 4) % 2 = (v \div 2) % 2
    <1> DEFINE q == v \div 8
               r == v % 8
    <1>1. q \in Nat /\ r \in 0 .. 7 /\ v = 8 * q + r /\ v \in Nat
      BY DEF Byte
    <1>2. v \div 2 = 4 * q + (r \div 2) /\ v \div 4 = 2 * q + (r \div 4)
      BY <1>1
    <1> HIDE DEF q, r
    <1>3. (4 * q + (r \div 2)) % 4 = r \div 2 /\ (2 * q + (r \div 4)) % 2 = r \div 4
      BY <1>1
    <1>4. (4 * q + (r \div 2)) % 2 = (r \div 2) % 2
      BY <1>1
    <1>5. (2 * (r \div 2)) \div 4 = r \div 4 /\ (2 * (r \div 2)) \div 2 = r \div 2
      BY <1>1
    <1> QED BY <1>2, <1>3, <1>4, <1>5

\* A status write under way writes back the protection bits it found.
LEMMA EndsKept ==
    ASSUME TypesAndPlace, Executable(chip.todo), KeptInv, ~hist.cut, ChipEnds
    PROVE  chip'.sr1 = chip.sr1 /\ chip'.sr2 \div 4 = chip.sr2 \div 4
    <1>1. ChipTypeOK /\ chip.sr1 \in {0, 4} /\ chip.todo \in Seq(Byte)
      BY DEF TypesAndPlace, TypeOK, ChipTypeOK
    <1>2. CASE ~IsWrite(chip.todo)
      BY <1>1, <1>2, EndsFacts
    <1>3. CASE IsWrite(chip.todo)
      <2>1. /\ Len(chip.todo) = 3
            /\ Agrees(chip.todo[2], chip.sr1) /\ Agrees(chip.todo[3], chip.sr2)
        BY <1>3 DEF KeptInv
      <2>2. /\ chip'.sr1 = IF (chip.todo[2] \div 4) % 2 = 1 THEN 4 ELSE 0
            /\ chip'.sr2 = 2 * ((chip.todo[3] \div 2) % 4)
        BY <1>1, <1>3, <2>1, EndsFacts
      <2>3. chip'.sr1 = chip.sr1
        <3>1. (chip.todo[2] \div 4) % 2 = chip.sr1 \div 4
          BY <2>1 DEF Agrees
        <3> QED BY <1>1, <2>2, <3>1
      <2>4. chip.todo[3] \in Byte
        BY <1>1, <2>1
      <2> QED BY <2>1, <2>2, <2>3, <2>4, WrittenBits DEF Agrees
    <1> QED BY <1>2, <1>3

LEMMA ChipStepBus ==
    ASSUME TypesAndPlace, Executable(chip.todo), BusInv, ChipStep
    PROVE  BusInv'
    <1> USE DEF BusInv
    <1>1. /\ build' = build /\ stage' = stage /\ phase' = phase /\ sent' = sent /\ done' = done
          /\ qe' = qe /\ cpu' = cpu /\ call' = call /\ hist' = hist /\ ctl' = ctl
      BY DEF ChipStep, driver, place
    <1>2. ChipEnds /\ chip'.todo = <<>> /\ chip'.frame = chip.frame
      BY EndsFacts DEF ChipStep, TypesAndPlace, TypeOK
    <1>3. InFrame' = InFrame /\ InTx' = InTx /\ InRx' = InRx /\ Stored' = Stored /\ IsLost' = IsLost
            /\ Fed' = Fed /\ Out' = Out
      BY <1>1, <1>2, SameFrame DEF InFrame, InTx, InRx, Stored, IsLost, Fed
    <1>4. SelectInv' /\ StatusHeard'
      BY <1>1, <1>2, <1>3 DEF SelectInv, Selected, Mode, QuadMode, StatusHeard, OfStatus
    <1>5. HeardInv'
      BY <1>1, <1>2, <1>3 DEF HeardInv, Heads, Selected
    <1>6. RxInv'
      BY <1>1, <1>3 DEF RxInv, OfStatus, Qspi
    <1>7. ~hist.cut => chip'.sr1 = chip.sr1 /\ chip'.sr2 \div 4 = chip.sr2 \div 4
      BY <1>2, EndsKept
    <1>8. StatusInv'
      <2>1. ~Busy'
        BY <1>2 DEF Busy
      <2>2. HasStatus' = HasStatus /\ StatusSeen' = StatusSeen
        BY <1>1, <1>3 DEF HasStatus, StatusSeen, OfStatus
      <2>3. hist' = hist /\ stage' = stage
        BY <1>1
      <2> HIDE DEF Busy
      <2> QED BY <1>7, <2>1, <2>2, <2>3 DEF StatusInv, Agrees
    <1>9. KeptInv'
      <2>1. ~IsWrite(chip'.todo)
        BY <1>2 DEF IsWrite
      <2> QED BY <1>1, <1>7, <2>1 DEF KeptInv, Agrees
    <1> QED BY <1>4, <1>5, <1>6, <1>8, <1>9

LEMMA RestartBus ==
    ASSUME TypesAndPlace, Restart, ChipTypeOK', chip'.frame = <<>>, ~hist'.cut => KeptInv'
    PROVE  BusInv'
    <1>1. /\ stage' = "end" /\ phase' = "select" /\ sent' = 0 /\ ctl' = NoTraffic
      BY DEF Restart
    <1>2. SelectInv'
      BY <1>1, BlankFacts DEF SelectInv, Selected, Mode
    <1>3. HeardInv' /\ StatusInv' /\ StatusHeard'
      BY <1>1 DEF HeardInv, Selected, StatusInv, HasStatus, StatusHeard, IsLost, OfStatus
    <1>4. RxInv'
      BY <1>1, BlankFacts, EmptiedRxNext
    <1>5. KeptInv'
      BY DEF KeptInv
    <1> QED BY <1>2, <1>3, <1>4, <1>5 DEF BusInv

LEMMA ResetBus ==
    ASSUME TypesAndPlace, BusInv, Reset
    PROVE  BusInv'
    <1>1. Restart /\ ChipTypeOK' /\ hist \in Histories
      BY ResetChip, TypeParts DEF TypesAndPlace
    <1>2. /\ chip'.frame = <<>> /\ chip'.sr1 = chip.sr1 /\ chip'.sr2 = chip.sr2
          /\ \/ chip'.todo = chip.todo
             \/ /\ chip'.todo = chip.frame /\ chip.frame # <<>>
                /\ IsWrite(chip.frame) \/ IsErase(chip.frame) \/ IsProgram(chip.frame)
      BY Taking DEF Reset, BusInv
    <1>3. ~hist'.cut => ~hist.cut /\ ~(chip.frame # <<>> /\ chip.frame[1] = WRITE_STATUS)
      BY <1>1 DEF Restart, Histories
    <1>4. ~hist'.cut => KeptInv'
      <2> SUFFICES ASSUME ~hist'.cut
                   PROVE  KeptInv'
        OBVIOUS
      <2>1. stage' = "end"
        BY <1>1 DEF Restart
      <2>2. IsWrite(chip'.todo) => chip'.todo = chip.todo
        BY <1>2, <1>3, CommandBytes
      <2> QED BY <1>2, <1>3, <2>1, <2>2 DEF KeptInv, BusInv, Agrees
    <1> QED BY <1>1, <1>2, <1>4, RestartBus

LEMMA PowerLossBus ==
    ASSUME TypesAndPlace, Executable(chip.todo), BusInv, PowerLoss
    PROVE  BusInv'
    <1>1. Restart /\ ChipTypeOK' /\ chip'.frame = <<>> /\ chip'.todo = <<>>
      BY PowerFacts DEF PowerLoss, TypesAndPlace, TypeOK
    <1>2. KeptInv'
      <2>1. stage' = "end" /\ ~IsWrite(chip'.todo)
        BY <1>1 DEF Restart, IsWrite
      <2> QED BY <2>1 DEF KeptInv
    <1> QED BY <1>1, <1>2, RestartBus

\* A wait that has given up is never forgotten.
LEMMA StuckStays ==
    ASSUME TypesAndPlace, Next, ~hist'.stuck
    PROVE  ~hist.stuck
    <1>1. hist \in Histories
      BY TypeParts DEF TypesAndPlace
    <1>2. CASE Initialize \/ Call
      BY <1>2, BegunFacts
    <1>3. CASE Move
      BY <1>1, <1>3, MoveChip
    <1>4. CASE Release \/ Shift \/ ChipStep
      BY <1>4 DEF Release, Shift, ChipStep
    <1>5. CASE Reset \/ PowerLoss
      BY <1>1, <1>5 DEF Reset, PowerLoss, Restart, Histories
    <1> QED BY <1>2, <1>3, <1>4, <1>5, NextCases, GiveUpPlace

LEMMA MoveCases ==
    ASSUME Initialize \/ Call \/ Move
    PROVE  Turn \/ Within
    BY DEF Turn, Within, Move

LEMMA NextBus ==
    ASSUME TypesAndPlace, Executable(chip.todo), ~hist.stuck => BusInv, Next, ~hist'.stuck
    PROVE  BusInv'
    <1>1. BusInv
      BY StuckStays
    <1> QED BY <1>1, NextCases, MoveCases, TurnBus, WithinBus, GiveUpPlace, ReleaseBus, ShiftBus,
               ChipStepBus, ResetBus, PowerLossBus

-----------------------------------------------------------------------------
(* What the chip may change.                                               *)

\* What a step of the driver leaves of the call.
LEMMA MoveCall ==
    ASSUME TypesAndPlace, Move
    PROVE  /\ call'.op = call.op /\ call'.addr = call.addr /\ call'.len = call.len
           /\ stage = "end" => stage' = "end"
           /\ stage' # "end" => call' = call
    <1>1. call \in Calls
      BY TypeParts DEF TypesAndPlace
    <1>2. CASE Within
      BY <1>2, WithinFacts
    <1>3. CASE CheckId
      BY <1>1, <1>3 DEF CheckId, Leave, Calls
    <1>4. CASE KeepStatus \/ Enabled \/ StartPolling
      BY <1>4 DEF KeepStatus, Enabled, StartPolling, Go
    <1>5. CASE Count \/ Test
      <2>1. stage = "Poll"
        BY <1>5 DEF Count, Test, TypesAndPlace, PlaceInv, PhaseInv
      <2> QED BY <1>1, <1>5, <2>1 DEF Count, Test, Polled, Go, Leave, NextPiece, Calls
    <1>6. CASE PieceRead
      BY <1>6 DEF PieceRead, Go, NextPiece
    <1>7. CASE Return
      BY <1>1, <1>7 DEF Return, place, Calls
    <1> QED BY <1>2, <1>3, <1>4, <1>5, <1>6, <1>7 DEF Within, Move

\* Wherever the frame is cut off, a command that it happens to be is one whose effect
\* is owed.
LEMMA FrameOwes ==
    ASSUME TypesAndPlace, SelectInv, HeardInv, OwedInv, FlashSize <= ChipSize,
           chip.frame # <<>>, ~IsLost
    PROVE  Owes(chip.frame)
    <1> DEFINE f == chip.frame
    <1>1. /\ stage # "end" /\ InFrame \in Nat /\ sent \in Nat /\ f[1] = Opcode
          /\ \A k \in 1 .. InFrame : k <= sent => f[k] = Out[k]
          /\ sent <= OutLen /\ InFrame = Len(f)
          /\ phase = "spin" => stage = "Program" /\ sent = 4
          /\ phase # "spin" /\ stage # "Read" => InFrame <= sent
      BY FrameFacts DEF InFrame
    <1>2. ASSUME stage \in {"Erase", "Program"}
          PROVE  /\ Addr = call.addr /\ call.addr \in Cell
                 /\ sent = 4 /\ InFrame >= 4 => AddressOf(f) = call.addr
      <2>1. done = 0 /\ call.addr < FlashSize /\ call.addr \in Nat
        BY <1>2, TypeParts DEF TypesAndPlace, PlaceInv, CallInv, Calls
      <2>2. Addr = call.addr /\ call.addr \in Cell
        BY <2>1, Constants DEF Addr, Cell
      <2>3. ASSUME sent = 4, InFrame >= 4
            PROVE  AddressOf(f) = call.addr
        <3>1. \A k \in 1 .. 4 : f[k] = Out[k]
          BY <1>1, <2>3
        <3>2. AddressOf(f) = AddressOf(Out)
          <4> HIDE DEF f
          <4>1. 4 \in Nat /\ 4 >= 4
            OBVIOUS
          <4> QED BY <3>1, <4>1, SameAddress
        <3>3. AddressOf(Out) = Addr
          BY <1>1, <1>2, <2>2, OutFacts DEF TypesAndPlace
        <3> QED BY <2>2, <3>2, <3>3
      <2> QED BY <2>2, <2>3
    <1>3. ASSUME IsErase(f)
          PROVE  Sector(AddressOf(f)) \subseteq owed
      <2>1. stage = "Erase" /\ InFrame = 4
        BY <1>1, <1>3, StageOf, CommandBytes DEF TypesAndPlace, IsErase
      <2>2. sent = 4
        BY <1>1, <2>1 DEF OutLen, OfStatus
      <2>3. call.op = "erase"
        BY <2>1 DEF TypesAndPlace, PlaceInv, CallInv
      <2> QED BY <1>1, <1>2, <2>1, <2>2, <2>3 DEF OwedInv
    <1>4. ASSUME IsProgram(f)
          PROVE  Page(AddressOf(f)) \subseteq owed
      <2>1. stage = "Program"
        BY <1>1, <1>4, StageOf, CommandBytes DEF TypesAndPlace
      <2>2. InFrame >= 5
        BY <1>1, <1>4, Constants DEF IsProgram
      <2>3. sent = 4
        BY <1>1, <2>1, <2>2 DEF OutLen, OfStatus
      <2>4. call.op = "program" /\ 0 < call.len /\ call.len \in Nat
        BY <2>1, TypeParts DEF TypesAndPlace, PlaceInv, CallInv, Calls
      <2>5. call.addr \in Span(call.addr, call.len)
        <3>1. call.addr \in Nat /\ call.addr \in Cell
          BY <1>2, <2>1, TypeParts DEF TypesAndPlace, Calls
        <3> QED BY <2>4, <3>1 DEF Span
      <2>6. Page(call.addr) \subseteq owed
        BY <1>1, <2>4, <2>5 DEF OwedInv
      <2> QED BY <1>1, <1>2, <2>1, <2>2, <2>3, <2>6
    <1> QED BY <1>3, <1>4 DEF Owes

\* An idle chip owes nothing.
LEMMA NothingOwed ==
    ~IsErase(<<>>) /\ ~IsProgram(<<>>)
    <1>1. Len(<<>>) = 0 /\ ~(0 \in 5 .. MaxFrame)
      BY Constants
    <1> QED BY <1>1 DEF IsErase, IsProgram

\* The cells that the chip touches are owed.
LEMMA TouchedOwed ==
    ASSUME OwedInv
    PROVE  Touched(chip.todo) \subseteq owed
    BY CommandBytes DEF OwedInv, Owes, Touched

LEMMA NextOwed ==
    ASSUME TypesAndPlace, Executable(chip.todo), BusInv, OwedInv, FlashSize <= ChipSize, Next,
           ~hist'.stuck
    PROVE  OwedInv'
    <1>1. CASE Initialize \/ Call
      <2>1. /\ chip' = chip /\ pre' = mem /\ mem' = mem
            /\ Busy => owed \subseteq owed'
            /\ stage' # "end" /\ call'.op = "program" =>
                  \A a \in Span(call'.addr, call'.len) : Page(a) \subseteq owed'
            /\ stage' # "end" /\ call'.op = "erase" => Sector(call'.addr) \subseteq owed'
        BY <1>1, BegunFacts
      <2>2. /\ IsErase(chip.todo) => Sector(AddressOf(chip.todo)) \subseteq owed'
            /\ IsProgram(chip.todo) => Page(AddressOf(chip.todo)) \subseteq owed'
        <3>1. CASE Busy
          BY <2>1, <3>1 DEF OwedInv, Owes
        <3>2. CASE ~Busy
          BY <3>2, NothingOwed DEF Busy, Owes
        <3> QED BY <3>1, <3>2
      <2> QED BY <2>1, <2>2 DEF OwedInv, Span, Owes
    <1>2. CASE Move
      <2>1. chip' = chip /\ mem' = mem /\ pre' = pre /\ owed' = owed
        BY <1>2, MoveChip, TypeParts DEF TypesAndPlace
      <2> QED BY <1>2, <2>1, MoveCall DEF OwedInv, Owes, Span
    <1>3. CASE Release
      <2>1. /\ stage' = stage /\ call' = call /\ mem' = mem /\ pre' = pre /\ owed' = owed
            /\ chip'.todo = chip.todo \/ (chip'.todo = chip.frame /\ ~IsLost /\ chip.frame # <<>>)
        BY <1>3, Taking DEF Release, BusInv, kept
      <2>2. Owes(chip'.todo)
        BY <2>1, FrameOwes DEF BusInv, OwedInv
      <2> QED BY <2>1, <2>2 DEF OwedInv, Owes, Span
    <1>4. CASE Shift
      <2>1. chip'.todo = chip.todo /\ UNCHANGED <<driver, kept>>
        BY <1>4, ShiftFacts DEF BusInv
      <2> QED BY <2>1 DEF OwedInv, Owes, Span, driver, place, kept
    <1>5. CASE ChipStep
      <2>1. /\ chip'.todo = <<>> /\ \A a \in Cell \ Touched(chip.todo) : mem'[a] = mem[a]
            /\ UNCHANGED <<driver, pre, owed>>
        BY <1>5, EndsFacts DEF ChipStep, TypesAndPlace, TypeOK
      <2> QED BY <2>1, NothingOwed, TouchedOwed DEF OwedInv, Owes, Span, driver, place
    <1>6. CASE Reset
      <2>1. /\ stage' = "end" /\ mem' = mem /\ pre' = pre /\ owed' = owed
            /\ chip'.todo = chip.todo \/ (chip'.todo = chip.frame /\ ~IsLost /\ chip.frame # <<>>)
        BY <1>6, Taking DEF Reset, Restart, BusInv
      <2>2. Owes(chip'.todo)
        BY <2>1, FrameOwes DEF BusInv, OwedInv
      <2> QED BY <2>1, <2>2 DEF OwedInv, Owes
    <1>7. CASE PowerLoss
      <2>1. /\ chip'.todo = <<>> /\ \A a \in Cell \ Touched(chip.todo) : mem'[a] = mem[a]
            /\ stage' = "end" /\ pre' = pre /\ owed' = owed
        BY <1>7, PowerFacts DEF PowerLoss, Restart, TypesAndPlace, TypeOK
      <2> QED BY <2>1, NothingOwed, TouchedOwed DEF OwedInv, Owes
    <1> QED BY <1>1, <1>2, <1>3, <1>4, <1>5, <1>6, <1>7, NextCases, GiveUpPlace

-----------------------------------------------------------------------------
(* While WaitReady has not given up: steps between frames.                 *)

\* A reset forgets the call, and gives up its frame.
LEMMA RestartTimely ==
    ASSUME Restart, chip'.frame = <<>>
    PROVE  TimelyInv'
    <1>1. /\ call'.op = "none" /\ call'.ret = OK /\ stage' = "end" /\ phase' = "select"
      BY BlankFacts DEF Restart, NoCall
    <1>2. ~IsLost' /\ BusyInv' /\ EnabledInv'
      BY <1>1 DEF IsLost, BusyInv, EnabledInv, Issued
    <1> QED BY <1>1, <1>2 DEF TimelyInv, AllHeard, QEInv, ReadInv, EraseInv

\* A wait that was too long for WaitReady is forgotten by a reset only.
LEMMA SlowStays ==
    ASSUME TypesAndPlace, Next, ~Reset, ~PowerLoss, InTime'
    PROVE  InTime
    <1>1. hist \in Histories
      BY TypeParts DEF TypesAndPlace
    <1>2. ~hist.stuck
      BY StuckStays DEF InTime
    <1>3. CASE Initialize \/ Call
      BY <1>2, <1>3, BegunFacts DEF InTime
    <1>4. CASE Count
      BY <1>1, <1>2, <1>4 DEF Count, InTime, Histories
    <1>5. CASE Move /\ ~Count
      <2>1. hist' = hist
        BY <1>5 DEF Move, ClearRx, Select, WriteTx, Spin, Feed, WaitIdle, Store, SetLines, ReadRx,
                    Drain, CheckId, KeepStatus, Enabled, StartPolling, Test, PieceRead, Return, Between
      <2> QED BY <2>1, <1>2 DEF InTime
    <1>6. CASE Release \/ Shift \/ ChipStep
      BY <1>2, <1>6 DEF Release, Shift, ChipStep, InTime
    <1> QED BY <1>3, <1>4, <1>5, <1>6, NextCases, GiveUpPlace DEF InTime

\* A call finds the chip idle, but for the first.
LEMMA BegunTimely ==
    ASSUME TypesAndPlace, BusInv, TimelyInv, Initialize \/ Call
    PROVE  TimelyInv'
    <1>1. /\ stage = "end" /\ cpu' = NoLocals /\ UNCHANGED <<build, ctl, chip, mem>>
          /\ call'.op # "none" /\ call'.ret \in {OK, ERROR_PARAMETER}
          /\ stage' # "end" =>
                stage' = CASE call'.op = "init" -> "ReadID"
                           [] call'.op = "read" -> IF QuadMode THEN "Status1" ELSE "Read"
                           [] OTHER -> "WriteEnable"
          /\ stage' = "end" =>
                call'.op # "init" /\ (call'.ret = OK => call'.op # "erase" /\ call'.len = 0)
          /\ phase' = IF stage' = "Status1" THEN "empty" ELSE "select"
      BY BegunFacts
    <1>2. phase = "select" /\ ctl.rx = <<>> /\ chip.frame = <<>> /\ ~IsLost
      BY <1>1 DEF TypesAndPlace, PlaceInv, PhaseInv, BusInv, RxInv, SelectInv, Selected, IsLost
    <1>3. InRx' = 0 /\ Stored' = 0
      BY <1>1, <1>2, BlankFacts DEF InRx, Stored
    <1>4. ~Issued' /\ phase' # "next" /\ QuadMode' = QuadMode /\ Busy' = Busy
      BY <1>1 DEF Issued, QuadMode, Busy
    <1>5. BusyInv'
      <2>1. CASE Call
        <3>1. Up
          BY <2>1 DEF Call
        <3>2. ~Busy
          BY <1>1, <3>1 DEF TimelyInv, BusyInv, Up, Issued, TypesAndPlace, PlaceInv, CallInv, OK, ERROR
        <3> QED BY <1>4, <3>2 DEF BusyInv
      <2>2. CASE Initialize
        <3>1. stage' = "ReadID"
          BY <2>2 DEF Initialize, Begin, Begins
        <3> QED BY <3>1, <1>1, <1>2, <1>3 DEF BusyInv, NoId
      <2> QED BY <2>1, <2>2
    <1>6. AllHeard' /\ EnabledInv'
      BY <1>1, <1>2, <1>4 DEF AllHeard, EnabledInv, IsLost
    <1>7. QEInv' /\ EraseInv'
      BY <1>1, <1>4 DEF QEInv, EraseInv
    <1>8. ReadInv'
      BY <1>1, <1>3 DEF ReadInv
    <1> QED BY <1>5, <1>6, <1>7, <1>8 DEF TimelyInv

\* What the steps between frames have in common.
LEMMA TurnSame ==
    ASSUME TypesAndPlace, BusInv, Turn, Move
    PROVE  /\ ctl' = ctl /\ chip' = chip /\ mem' = mem /\ build' = build
           /\ call'.op = call.op /\ call'.addr = call.addr /\ call'.len = call.len
           /\ phase' \in {"count", "empty", "select"}
           /\ Busy' = Busy /\ QuadMode' = QuadMode /\ QE' = QE /\ InRx' = InRx
           /\ SectorErased' = SectorErased
           /\ AllHeard'
    <1>1. /\ ctl' = ctl /\ chip' = chip /\ mem' = mem /\ build' = build /\ ~Selected
          /\ phase' \in {"count", "empty", "select"}
      BY TurnFacts
    <1>2. call'.op = call.op /\ call'.addr = call.addr /\ call'.len = call.len
      BY MoveCall
    <1>3. chip.frame = <<>>
      BY <1>1 DEF BusInv, SelectInv
    <1> QED BY <1>1, <1>2, <1>3 DEF Busy, QuadMode, QE, InRx, SectorErased, Sector, AllHeard, IsLost

\* Nothing is read between frames.
LEMMA TurnRead ==
    ASSUME TypesAndPlace, BusInv, ReadInv, Turn, Move,
           Stored' = Stored, cpu'.stored = cpu.stored, call'.ret = OK => call.ret = OK
    PROVE  ReadInv'
    <1>1. phase' \notin {"fetch", "store"}
      BY TurnSame
    <1> QED BY <1>1, TurnSame DEF ReadInv

LEMMA ReturnTimely ==
    ASSUME TypesAndPlace, BusInv, TimelyInv, Return
    PROVE  TimelyInv'
    <1>1. Turn /\ Move
      BY DEF Turn, Move
    <1>2. /\ stage = "end" /\ stage' = stage /\ cpu' = cpu /\ qe' = qe
          /\ call'.ret = call.ret /\ phase' # "next"
      BY <1>1, TypeParts, TurnSame DEF Return, place, TypesAndPlace, Calls
    <1>3. BusyInv' /\ EnabledInv'
      BY <1>1, <1>2, TurnSame DEF TimelyInv, BusyInv, EnabledInv, Issued
    <1>4. QEInv' /\ EraseInv'
      BY <1>1, <1>2, TurnSame DEF TimelyInv, QEInv, EraseInv, Issued
    <1>5. ReadInv'
      BY <1>1, <1>2, TurnRead DEF TimelyInv, Stored
    <1> QED BY <1>1, <1>3, <1>4, <1>5, TurnSame DEF TimelyInv

\* Only a chip that is ready gives its id.
LEMMA CheckIdTimely ==
    ASSUME TypesAndPlace, BusInv, TimelyInv, CheckId
    PROVE  TimelyInv'
    <1>1. Turn /\ Move
      BY DEF Turn, Move
    <1>2. /\ stage = "ReadID" /\ phase = "next" /\ call.op = "init" /\ stage' = "end" /\ phase' # "next"
          /\ cpu' = cpu /\ Stored = 5
      BY DEF CheckId, Between, Leave, BusInv, RxInv, TypesAndPlace, PlaceInv, CallInv
    <1>3. Busy => call'.ret = ERROR
      <2> SUFFICES ASSUME Busy PROVE call'.ret = ERROR
        OBVIOUS
      <2>1. \A k \in 1 .. Stored : cpu.stored[k] = 255
        BY <1>2 DEF TimelyInv, BusyInv, NoId, Issued
      <2>2. cpu.stored[2] = 255 /\ cpu.stored[3] = 255 /\ cpu.stored[4] = 255 /\ Len(cpu.stored) >= 4
        BY <1>2, <2>1 DEF Stored
      <2>3. <<cpu.stored[2], cpu.stored[3], cpu.stored[4]>> \notin KnownIds
        BY <2>2, SpiAssumption
      <2>4. Leave(ERROR)
        BY <2>2, <2>3 DEF CheckId, IsKnown
      <2>5. call \in Calls
        BY TypeParts DEF TypesAndPlace
      <2> QED BY <2>4, <2>5 DEF Leave, Calls
    <1>4. call'.op = "init" /\ Busy' = Busy
      BY <1>1, <1>2, TurnSame
    <1>5. BusyInv' /\ EnabledInv'
      BY <1>2, <1>3, <1>4 DEF BusyInv, EnabledInv
    <1>6. QEInv' /\ ReadInv' /\ EraseInv'
      BY <1>4 DEF QEInv, ReadInv, EraseInv
    <1> QED BY <1>1, <1>5, <1>6, TurnSame DEF TimelyInv

LEMMA KeepStatusTimely ==
    ASSUME TypesAndPlace, BusInv, TimelyInv, KeepStatus
    PROVE  TimelyInv'
    <1>1. Turn /\ Move
      BY DEF Turn, Move
    <1>2. cpu \in Cpus /\ qe \in {0, 2}
      BY TypeParts DEF TypesAndPlace, TypePlace
    <1>3. /\ phase = "next" /\ call' = call /\ qe' = qe /\ call.op = "read"
          /\ \/ stage = "Status1" /\ stage' = "Status2"
             \/ /\ stage = "Status2" /\ stage' = "WriteEnable"
                /\ cpu' = [cpu EXCEPT !.reg2 = WithQE(cpu.val, qe)]
          /\ cpu'.stored = cpu.stored
      BY <1>2 DEF KeepStatus, Between, Go, Cpus, TypesAndPlace, PlaceInv, CallInv
    <1>4. ~Busy /\ ~Issued' /\ phase' # "next"
      BY <1>1, <1>3, TurnSame DEF TimelyInv, BusyInv, Issued
    <1>5. BusyInv' /\ EnabledInv' /\ EraseInv'
      BY <1>1, <1>3, <1>4, TurnSame DEF BusyInv, EnabledInv, EraseInv
    <1>6. stage' = "WriteEnable" => Bit1(cpu'.reg2) = qe \div 2
      BY <1>2, <1>3, WithQEFacts DEF Bit1, Cpus
    <1>7. QEInv'
      BY <1>3, <1>4, <1>6 DEF QEInv
    <1>8. ReadInv'
      BY <1>1, <1>3, TurnRead DEF TimelyInv, Stored
    <1> QED BY <1>1, <1>5, <1>7, <1>8, TurnSame DEF TimelyInv

LEMMA EnabledTimely ==
    ASSUME TypesAndPlace, BusInv, TimelyInv, Enabled
    PROVE  TimelyInv'
    <1>1. Turn /\ Move
      BY DEF Turn, Move
    <1>2. /\ phase = "next" /\ stage = "WriteEnable" /\ call' = call /\ qe' = qe /\ cpu' = cpu
          /\ call.op \in {"read", "program", "erase"}
          /\ stage' = CASE call.op = "read" -> "WriteStatus"
                        [] call.op = "program" -> "Program"
                        [] call.op = "erase" -> "Erase"
      BY DEF Enabled, Between, Go, TypesAndPlace, PlaceInv, CallInv
    <1>3. ~Busy /\ chip.wel /\ ~Issued' /\ phase' # "next"
      BY <1>1, <1>2, TurnSame DEF TimelyInv, BusyInv, EnabledInv, Issued, TypesAndPlace, PlaceInv, CallInv
    <1>4. BusyInv' /\ EnabledInv'
      BY <1>1, <1>3, TurnSame DEF BusyInv, EnabledInv
    <1>5. QEInv' /\ EraseInv'
      BY <1>1, <1>2, <1>3, TurnSame DEF TimelyInv, QEInv, EraseInv
    <1>6. ReadInv'
      BY <1>1, <1>2, TurnRead DEF TimelyInv, Stored
    <1> QED BY <1>1, <1>4, <1>5, <1>6, TurnSame DEF TimelyInv

\* The chip stays given the command that is waited for.
LEMMA PollTimely ==
    ASSUME TypesAndPlace, BusInv, TimelyInv, Turn, Move, Issued, stage' = "Poll",
           call' = call, qe' = qe, cpu'.stored = cpu.stored
    PROVE  TimelyInv'
    <1>1. Issued' /\ phase' # "next"
      BY TurnSame DEF Issued
    <1>2. BusyInv' /\ EnabledInv'
      BY <1>1 DEF BusyInv, EnabledInv
    <1>3. QEInv' /\ EraseInv'
      BY <1>1, TurnSame DEF TimelyInv, QEInv, EraseInv
    <1>4. ReadInv'
      BY TurnRead DEF TimelyInv, Stored
    <1> QED BY <1>2, <1>3, <1>4, TurnSame DEF TimelyInv

\* Once the chip is ready the erase is done, or quad mode is switched.
LEMMA PolledTimely ==
    ASSUME TypesAndPlace, BusInv, TimelyInv, Turn, Move, stage = "Poll", ~Busy, Polled(OK),
           cpu' = cpu
    PROVE  TimelyInv'
    <1>1. Issued /\ call.ret = OK /\ call \in Calls
      BY TypeParts DEF Issued, TypesAndPlace, PlaceInv, CallInv
    <1>2. ~Busy' /\ phase' # "next" /\ Stored' = Stored
      BY TurnSame DEF Stored
    <1>3. call'.ret = OK
      BY <1>1 DEF Polled, Leave, Go, NextPiece, Calls
    <1>4. ReadInv' /\ BusyInv'
      BY <1>1, <1>2, TurnRead DEF TimelyInv, BusyInv
    <1>5. CASE call.op = "erase"
      <2>1. stage' = "end"
        BY <1>5 DEF Polled, Leave
      <2>2. EnabledInv' /\ ~Issued'
        BY <1>2, <2>1 DEF EnabledInv, Issued
      <2>3. EraseInv'
        BY <1>1, <1>2, <1>5, <2>2, TurnSame DEF TimelyInv, EraseInv
      <2>4. QEInv'
        BY <1>5, TurnSame DEF QEInv
      <2> QED BY <1>4, <2>2, <2>3, <2>4, TurnSame DEF TimelyInv
    <1>6. CASE call.op = "read"
      <2>1. QuadMode /\ (QE <=> qe = 2)
        <3>1. QuadMode
          BY <1>6 DEF TypesAndPlace, PlaceInv, CallInv
        <3>2. ~IsWrite(chip.todo)
          BY DEF Busy, IsWrite
        <3> QED BY <1>1, <1>6, <3>1, <3>2 DEF TimelyInv, QEInv
      <2>2. \/ qe = 2 /\ stage' = "Read"
            \/ qe = 0 /\ stage' \in {"Status1", "end"}
        BY <1>6, <2>1 DEF Polled, Go, NextPiece, Begins
      <2>3. EnabledInv' /\ ~Issued'
        BY <1>2, <2>2 DEF EnabledInv, Issued
      <2>4. QEInv'
        BY <2>1, <2>2, <2>3, TurnSame DEF QEInv
      <2>5. EraseInv'
        BY <1>6, TurnSame DEF EraseInv
      <2> QED BY <1>4, <2>3, <2>4, <2>5, TurnSame DEF TimelyInv
    <1> QED BY <1>5, <1>6 DEF Polled

LEMMA WaitReadyTimely ==
    ASSUME TypesAndPlace, BusInv, TimelyInv, StartPolling \/ Count \/ Test, InTime'
    PROVE  TimelyInv'
    <1>1. Turn /\ Move
      BY DEF Turn, Move
    <1>2. cpu \in Cpus /\ hist \in Histories
      BY TypeParts DEF TypesAndPlace
    <1>3. CASE StartPolling
      <2>1. /\ Issued /\ stage' = "Poll" /\ call' = call /\ qe' = qe
        BY <1>3 DEF StartPolling, Between, Go, Issued
      <2>2. cpu'.stored = cpu.stored
        BY <1>2, <1>3 DEF StartPolling, Cpus
      <2> QED BY <1>1, <2>1, <2>2, PollTimely
    <1>4. CASE Count
      <2>1. cpu.polls # 1
        BY <1>2, <1>4 DEF Count, InTime, Histories
      <2>2. Issued /\ stage' = "Poll" /\ call' = call /\ qe' = qe
        BY <1>4, <2>1 DEF Count, Issued, TypesAndPlace, PlaceInv, PhaseInv
      <2>3. cpu'.stored = cpu.stored
        BY <1>2, <1>4 DEF Count, Cpus
      <2> QED BY <1>1, <2>2, <2>3, PollTimely
    <1>5. CASE Test /\ cpu.val % 2 = 1
      <2>1. Issued /\ stage' = "Poll" /\ call' = call /\ qe' = qe /\ cpu' = cpu
        BY <1>5 DEF Test, Between, Go, Issued
      <2> QED BY <1>1, <2>1, PollTimely
    <1>6. CASE Test /\ cpu.val % 2 # 1
      <2>1. stage = "Poll" /\ phase = "next" /\ Polled(OK) /\ cpu' = cpu
        BY <1>6 DEF Test, Between
      <2>2. cpu.val % 2 = 0
        <3>1. \A b \in Byte : b % 2 # 1 => b % 2 = 0
          BY DEF Byte
        <3> QED BY <1>2, <1>6, <3>1 DEF Cpus
      <2>3. ~Busy
        BY <2>1, <2>2 DEF BusInv, StatusInv, HasStatus, StatusSeen, OfStatus
      <2> QED BY <1>1, <2>1, <2>3, PolledTimely
    <1> QED BY <1>3, <1>4, <1>5, <1>6

LEMMA PieceReadTimely ==
    ASSUME TypesAndPlace, BusInv, TimelyInv, PieceRead
    PROVE  TimelyInv'
    <1>1. Turn /\ Move
      BY DEF Turn, Move
    <1>2. /\ stage = "Read" /\ call.op = "read" /\ cpu' = cpu /\ call' = call
          /\ \/ QuadMode /\ stage' = "Status1"
             \/ ~QuadMode /\ stage' \in {"Read", "end"}
      BY DEF PieceRead, Between, Go, NextPiece, Begins, TypesAndPlace, PlaceInv, CallInv
    <1>3. ~Busy /\ ~Issued' /\ phase' # "next"
      BY <1>1, <1>2, TurnSame DEF TimelyInv, BusyInv, Issued
    <1>4. BusyInv' /\ EnabledInv' /\ EraseInv' /\ QEInv'
      BY <1>1, <1>2, <1>3, TurnSame DEF BusyInv, EnabledInv, EraseInv, QEInv
    <1>5. ReadInv'
      BY <1>1, <1>2, TurnRead DEF TimelyInv, Stored
    <1> QED BY <1>1, <1>4, <1>5, TurnSame DEF TimelyInv

LEMMA TurnTimely ==
    ASSUME TypesAndPlace, BusInv, TimelyInv, Turn, InTime'
    PROVE  TimelyInv'
    BY BegunTimely, CheckIdTimely, KeepStatusTimely, EnabledTimely, WaitReadyTimely, PieceReadTimely,
       ReturnTimely DEF Turn

-----------------------------------------------------------------------------
(* While WaitReady has not given up: steps of a frame.                     *)

\* A step within a frame does not change which command the chip has been given.
LEMMA WithinIssued ==
    ASSUME TypesAndPlace, Within
    PROVE  /\ Issued' <=> Issued
           /\ stage \in {"WriteEnable", "WriteStatus", "Program", "Erase"} =>
                 phase # "next" /\ phase' # "next"
           /\ Busy' = Busy /\ QE' = QE /\ QuadMode' = QuadMode /\ SectorErased' = SectorErased
    <1>1. stage' = stage /\ chip' = chip /\ mem' = mem /\ build' = build /\ call' = call
      BY WithinFacts
    <1>2. TypesAndPlace'
      BY MovePlace DEF Within, Move
    <1>3. stage \in {"WriteEnable", "WriteStatus", "Program", "Erase"} =>
             phase # "next" /\ phase' # "next"
      <2> SUFFICES ASSUME stage \in {"WriteEnable", "WriteStatus", "Program", "Erase"}
                   PROVE  phase # "next" /\ phase' # "next"
        OBVIOUS
      <2>1. phase \notin {"store", "lines", "single", "skip", "take", "drain", "feed", "empty"}
        BY DEF TypesAndPlace, PlaceInv, PhaseInv, OfStatus
      <2> QED BY <2>1 DEF Within, ClearRx, Select, WriteTx, Spin, Feed, WaitIdle, Waiting, Waited,
                          Store, SetLines, ReadRx, Drain, driver, place
    <1> QED BY <1>1, <1>3 DEF Issued, Busy, QE, QuadMode, SectorErased, Sector

\* A chip that does not give its id goes on answering nothing.
LEMMA WithinNoId ==
    ASSUME TypesAndPlace, BusInv, NoId, Within, stage = "ReadID"
    PROVE  NoId'
    <1>1. chip' = chip /\ IsLost' = IsLost /\ stage' = stage
      BY WithinFacts
    <1>2. cpu \in Cpus /\ ctl \in Controls
      BY TypeParts DEF TypesAndPlace
    <1>3. phase \notin {"spin", "lines", "single", "clear", "empty", "feed", "fetch", "store", "last",
                        "skip", "take"}
      BY DEF TypesAndPlace, PlaceInv, PhaseInv, OfStatus
    <1>4. CASE Select \/ WriteTx \/ WaitIdle
      <2>1. cpu' = cpu /\ ctl'.rx = ctl.rx
        BY <1>2, <1>4 DEF Select, WriteTx, Queue, WaitIdle, Waited, Controls
      <2> QED BY <1>1, <2>1 DEF NoId, InRx, Stored
    <1>5. CASE Drain
      <2>1. CASE ctl.rx = <<>>
        <3>1. cpu' = cpu /\ ctl' = ctl
          BY <1>5, <2>1 DEF Drain
        <3> QED BY <1>1, <3>1 DEF NoId, InRx, Stored
      <2>2. CASE ctl.rx # <<>>
        <3> DEFINE s == cpu.stored
                   b == Head(ctl.rx)
        <3>1. Taken /\ cpu' = [cpu EXCEPT !.stored = Append(s, b)]
          BY <1>5, <2>2 DEF Drain
        <3>2. /\ InRx' \in Nat /\ InRx' = InRx - 1 /\ b = ctl.rx[1]
              /\ \A k \in 1 .. InRx' : ctl'.rx[k] = ctl.rx[k + 1]
          BY <1>2, <2>2, <3>1, TakenFacts
        <3>3. InRx \in Nat /\ InRx # 0
          BY <2>2, Lengths DEF TypesAndPlace
        <3>4. \A k \in 1 .. InRx' : ctl'.rx[k] = 255
          <4> SUFFICES ASSUME NEW k \in 1 .. InRx'
                       PROVE  ctl'.rx[k] = 255
            OBVIOUS
          <4>1. k + 1 \in 1 .. InRx
            BY <3>2, <3>3
          <4> QED BY <3>2, <4>1 DEF NoId
        <3>5. b = 255
          <4>1. 1 \in 1 .. InRx
            BY <3>3
          <4> QED BY <3>2, <4>1 DEF NoId
        <3>6. s \in Seq(Byte) /\ cpu'.stored = Append(s, b)
          BY <1>2, <3>1 DEF Cpus
        <3> HIDE DEF s, b
        <3>7. Len(Append(s, b)) = Len(s) + 1 /\ Append(s, b)[Len(s) + 1] = b
                /\ \A k \in 1 .. Len(s) : Append(s, b)[k] = s[k]
          BY <3>6
        <3>8. \A k \in 1 .. Len(s) : s[k] = 255
          BY DEF NoId, Stored, s
        <3>9. \A k \in 1 .. Stored' : cpu'.stored[k] = 255
          BY <3>5, <3>6, <3>7, <3>8 DEF Stored
        <3> QED BY <1>1, <3>4, <3>9 DEF NoId
      <2> QED BY <2>1, <2>2
    <1>6. ~(ClearRx \/ Spin \/ Feed \/ Store \/ SetLines \/ ReadRx)
      BY <1>3 DEF ClearRx, Spin, Feed, Store, SetLines, ReadRx
    <1> QED BY <1>4, <1>5, <1>6 DEF Within

\* A byte is stored that is the next one of the chip.
LEMMA StoreRead ==
    ASSUME TypesAndPlace, BusInv, ReadInv, Store
    PROVE  ReadInv'
    <1> DEFINE s == cpu.stored
    <1>1. Within
      BY DEF Within
    <1>2. phase = "store" /\ phase' \in {"feed", "last"} /\ InRx = 1 /\ mem' = mem /\ call' = call
      BY <1>1, WithinFacts DEF Store, BusInv, RxInv
    <1>3. cpu \in Cpus /\ ctl \in Controls /\ ctl.rx # <<>> /\ call.addr \in Nat
      BY <1>2, Lengths, TypeParts DEF TypesAndPlace, Calls
    <1>4. cpu' = [cpu EXCEPT !.stored = Append(s, ctl.rx[1])]
      BY <1>3, TakenFacts DEF Store
    <1>5. s \in Seq(Byte) /\ cpu'.stored = Append(s, ctl.rx[1])
      BY <1>3, <1>4 DEF Cpus
    <1>6. Stored = Len(s)
      BY DEF Stored
    <1> HIDE DEF s
    <1>7. /\ Stored' = Len(s) + 1 /\ Append(s, ctl.rx[1])[Len(s) + 1] = ctl.rx[1] /\ Len(s) \in Nat
          /\ \A k \in 1 .. Len(s) : Append(s, ctl.rx[1])[k] = s[k]
      BY <1>5 DEF Stored
    <1>8. ASSUME call.op = "read", call.ret = OK, NEW k \in 1 .. Stored', call.addr + k <= ChipSize
          PROVE  cpu'.stored[k] = mem[call.addr + k - 1]
      <2>1. CASE k \in 1 .. Len(s)
        BY <1>5, <1>6, <1>7, <1>8, <2>1 DEF ReadInv, s
      <2>2. CASE k = Len(s) + 1
        <3>1. call.addr + Len(s) + 1 <= ChipSize /\ call.addr + k - 1 = call.addr + Len(s)
          BY <1>3, <1>7, <1>8, <2>2
        <3>2. ctl.rx[1] = mem[call.addr + Len(s)]
          BY <1>2, <1>6, <1>8, <3>1 DEF ReadInv
        <3> QED BY <1>5, <1>7, <2>2, <3>1, <3>2
      <2> QED BY <1>7, <2>1, <2>2
    <1> QED BY <1>2, <1>8 DEF ReadInv

LEMMA WithinRead ==
    ASSUME TypesAndPlace, BusInv, ReadInv, Within
    PROVE  ReadInv'
    <1>1. mem' = mem /\ call' = call /\ cpu \in Cpus /\ ctl \in Controls
      BY WithinFacts, TypeParts DEF TypesAndPlace
    <1>2. CASE Drain
      <2>1. call.op # "read"
        BY <1>2 DEF Drain, TypesAndPlace, PlaceInv, CallInv, PhaseInv
      <2> QED BY <1>1, <2>1 DEF ReadInv
    <1>3. CASE ClearRx \/ Select \/ WriteTx \/ Spin \/ SetLines \/ ReadRx
      <2>1. phase' \notin {"fetch", "store"} /\ cpu'.stored = cpu.stored
        BY <1>1, <1>3 DEF ClearRx, Select, WriteTx, Spin, SetLines, ReadRx, driver, place, Cpus
      <2> QED BY <1>1, <2>1 DEF ReadInv, Stored
    <1>4. CASE Feed
      <2>1. ctl'.rx = ctl.rx /\ ctl.rx = <<>> /\ cpu' = cpu
        BY <1>1, <1>4 DEF Feed, Queue, Controls, BusInv, RxInv
      <2>2. InRx' = 0
        BY <2>1 DEF InRx
      <2> QED BY <1>1, <2>1, <2>2 DEF ReadInv, Stored
    <1>5. CASE WaitIdle
      <2>1. ctl' = ctl /\ cpu' = cpu /\ (phase' \in {"fetch", "store"} => phase = "fetch")
        BY <1>5 DEF WaitIdle, Waiting, Waited
      <2> QED BY <1>1, <2>1 DEF ReadInv, Stored, InRx
    <1> QED BY <1>2, <1>3, <1>4, <1>5, StoreRead DEF Within

LEMMA WithinTimely ==
    ASSUME TypesAndPlace, BusInv, TimelyInv, Within
    PROVE  TimelyInv'
    <1>1. /\ stage' = stage /\ qe' = qe /\ call' = call /\ chip' = chip /\ mem' = mem
          /\ cpu'.reg2 = cpu.reg2 /\ IsLost' = IsLost /\ stage # "end"
      BY WithinFacts
    <1>2. BusyInv'
      <2> SUFFICES ASSUME Busy PROVE BusyInv'
        BY WithinIssued DEF BusyInv
      <2>1. (stage = "ReadID" /\ NoId) \/ Issued
        BY <1>1 DEF TimelyInv, BusyInv, TypesAndPlace, PlaceInv, CallInv
      <2> QED BY <1>1, <2>1, WithinIssued, WithinNoId DEF BusyInv
    <1>3. AllHeard'
      BY <1>1 DEF TimelyInv, AllHeard
    <1>4. EnabledInv'
      BY <1>1, WithinIssued DEF TimelyInv, EnabledInv
    <1>5. QEInv' /\ EraseInv'
      BY <1>1, WithinIssued DEF TimelyInv, QEInv, EraseInv
    <1> QED BY <1>2, <1>3, <1>4, <1>5, WithinRead DEF TimelyInv

\* When a frame ends the chip has heard the whole of it.
LEMMA WholeFrame ==
    ASSUME TypesAndPlace, SelectInv, HeardInv, ~IsLost, phase = "release", stage # "Read"
    PROVE  /\ chip.frame # <<>> /\ Len(chip.frame) = OutLen /\ OutLen \in 1 .. 7
           /\ chip.frame[1] = Opcode /\ \A k \in 1 .. OutLen : chip.frame[k] = Out[k]
    <1>1. stage # "end" /\ InFrame \in Nat /\ InTx = 0 /\ sent = OutLen
      BY Lengths DEF SelectInv, TypesAndPlace, PlaceInv, PhaseInv
    <1>2. OutLen \in 1 .. 7
      BY <1>1, OutFacts DEF TypesAndPlace
    <1>3. InFrame + 0 = OutLen + 0
      BY <1>1 DEF HeardInv, Selected, Fed
    <1>4. chip.frame # <<>>
      BY <1>1, <1>2, <1>3, Lengths DEF TypesAndPlace
    <1> QED BY <1>1, <1>2, <1>4, FrameFacts DEF InFrame

\* The commands reach the chip: it takes a write enable, and being enabled, a write of
\* its status registers or, unless it is protected, an erase.
LEMMA ReleaseTakes ==
    ASSUME TypesAndPlace, BusInv, TimelyInv, phase = "release", NEW c \in Deselected(chip.frame)
    PROVE  /\ c.frame = <<>> /\ c.sr1 = chip.sr1 /\ c.sr2 = chip.sr2
           /\ stage \notin {"WriteStatus", "Erase"} => c.todo = chip.todo
           /\ stage = "WriteEnable" => c.wel
           /\ stage = "WriteStatus" =>
                 IsWrite(c.todo) /\ Len(c.todo) = 3 /\ c.todo[3] = cpu.reg2
           /\ stage = "Erase" =>
                 /\ chip.sr1 = 0 => c.todo # <<>>
                 /\ c.todo # <<>> => IsErase(c.todo) /\ (Addr \in Cell => AddressOf(c.todo) = Addr)
    <1> DEFINE f == chip.frame
    <1>1. /\ c.frame = <<>> /\ c.sr1 = chip.sr1 /\ c.sr2 = chip.sr2
          /\ \/ c.todo = chip.todo
             \/ stage \in {"WriteStatus", "Erase", "Program"}
      BY Taking DEF BusInv
    <1>2. stage # "Program"
      BY DEF TypesAndPlace, PlaceInv, PhaseInv
    <1>3. f \in Seq(Byte) /\ ChipTypeOK /\ TypeOK
      BY DEF TypesAndPlace, TypeOK, ChipTypeOK
    <1>4. ASSUME stage \in {"WriteEnable", "WriteStatus", "Erase"}
          PROVE  /\ f # <<>> /\ Len(f) = OutLen /\ f[1] = Opcode /\ \A k \in 1 .. OutLen : f[k] = Out[k]
                 /\ ~Issued /\ ~Busy /\ (stage # "WriteEnable" => chip.wel)
      <2>1. ~IsLost
        BY <1>4 DEF TimelyInv, AllHeard
      <2>2. ~Issued
        BY <1>4 DEF Issued
      <2>3. ~Busy
        BY <1>4, <2>2 DEF TimelyInv, BusyInv, TypesAndPlace, PlaceInv, CallInv
      <2>4. stage # "WriteEnable" => chip.wel
        BY <1>4, <2>2 DEF TimelyInv, EnabledInv
      <2> QED BY <1>4, <2>1, <2>2, <2>3, <2>4, WholeFrame DEF BusInv
    <1>5. CASE stage = "WriteEnable"
      <2>1. Len(f) = 1 /\ f[1] = WRITE_ENABLE
        BY <1>4, <1>5 DEF OutLen, Opcode, OfStatus
      <2>2. f = <<WRITE_ENABLE>>
        BY <1>3, <2>1
      <2>3. c.wel
        BY <1>3, <2>2, DeselectedCases
      <2> QED BY <1>1, <1>5, <2>3
    <1>6. CASE stage = "WriteStatus"
      <2>1. Len(f) = 3 /\ f[1] = WRITE_STATUS /\ f[3] = Out[3]
        BY <1>4, <1>6 DEF OutLen, Opcode, OfStatus
      <2>2. IsWrite(f)
        BY <2>1 DEF IsWrite
      <2>3. c.todo = f
        BY <1>3, <1>4, <1>6, <2>2, DeselectedCases
      <2>4. Out[3] = cpu.reg2
        BY <1>3, <1>6, OutFacts
      <2> QED BY <1>1, <1>6, <2>1, <2>2, <2>3, <2>4
    <1>7. CASE stage = "Erase"
      <2>1. Len(f) = 4 /\ f[1] = SECTOR_ERASE /\ \A k \in 1 .. 4 : f[k] = Out[k]
        BY <1>4, <1>7 DEF OutLen, Opcode, OfStatus
      <2>2. IsErase(f)
        BY <2>1 DEF IsErase
      <2>3. chip.sr1 = 0 => c.todo = f
        BY <1>3, <1>4, <1>7, <2>2, DeselectedCases
      <2>4. c.todo \in {chip.todo, f} /\ chip.todo = <<>>
        BY <1>3, <1>4, <1>7, DeselectedCases DEF Busy
      <2>5. AddressOf(f) = AddressOf(Out)
        <3> HIDE DEF f
        <3>1. 4 \in Nat /\ 4 >= 4
          OBVIOUS
        <3> QED BY <2>1, <3>1, SameAddress
      <2>6. Addr \in Cell => AddressOf(Out) = Addr
        BY <1>3, <1>7, OutFacts
      <2>7. f # <<>>
        BY <1>4, <1>7
      <2> HIDE DEF f
      <2> QED BY <1>1, <1>7, <2>2, <2>3, <2>4, <2>5, <2>6, <2>7
    <1> QED BY <1>1, <1>2, <1>5, <1>6, <1>7

LEMMA ReleaseTimely ==
    ASSUME TypesAndPlace, BusInv, TimelyInv, Release
    PROVE  TimelyInv'
    <1>1. /\ phase = "release" /\ cpu' = cpu /\ stage' = stage /\ call' = call /\ build' = build
          /\ qe' = qe /\ done' = done /\ mem' = mem
          /\ phase' = CASE stage = "ReadID"            -> "drain"
                        [] OfStatus(stage)             -> "skip"
                        [] stage = "Read" /\ QuadMode  -> "single"
                        [] OTHER                       -> "next"
          /\ ctl'.rx = ctl.rx
      BY TypeParts DEF Release, kept, TypesAndPlace, Controls
    <1>2. /\ chip'.frame = <<>> /\ chip'.sr1 = chip.sr1 /\ chip'.sr2 = chip.sr2
          /\ stage \notin {"WriteStatus", "Erase"} => chip'.todo = chip.todo
          /\ stage = "WriteEnable" => chip'.wel
          /\ stage = "WriteStatus" =>
                IsWrite(chip'.todo) /\ Len(chip'.todo) = 3 /\ chip'.todo[3] = cpu.reg2
          /\ stage = "Erase" =>
                /\ chip.sr1 = 0 => chip'.todo # <<>>
                /\ chip'.todo # <<>> =>
                      IsErase(chip'.todo) /\ (Addr \in Cell => AddressOf(chip'.todo) = Addr)
      BY <1>1, ReleaseTakes DEF Release
    <1>3. stage \notin {"Program", "end"} /\ QE' = QE /\ QuadMode' = QuadMode
            /\ SectorErased' = SectorErased
      BY <1>1, <1>2 DEF TypesAndPlace, PlaceInv, PhaseInv, QE, QuadMode, SectorErased, Sector
    <1>4. Issued' <=> stage \in {"Poll", "WriteStatus", "Erase"}
      BY <1>1 DEF Issued, OfStatus
    <1>5. ~IsLost' /\ AllHeard'
      BY <1>2 DEF IsLost, AllHeard
    <1>6. BusyInv'
      <2>1. CASE stage \in {"Poll", "WriteStatus", "Erase"}
        BY <1>4, <2>1 DEF BusyInv
      <2>2. CASE stage = "ReadID"
        BY <1>1, <1>2, <1>5, <2>2 DEF TimelyInv, BusyInv, Busy, NoId, InRx, Stored, Issued,
                                      TypesAndPlace, PlaceInv, CallInv
      <2>3. CASE stage \notin {"Poll", "WriteStatus", "Erase", "ReadID"}
        BY <1>2, <1>3, <2>3 DEF TimelyInv, BusyInv, Busy, Issued, TypesAndPlace, PlaceInv, CallInv
      <2> QED BY <2>1, <2>2, <2>3
    <1>7. EnabledInv'
      BY <1>1, <1>2, <1>3, <1>4 DEF EnabledInv
    <1>8. QEInv'
      <2> SUFFICES ASSUME call.op = "read", call.ret = OK, QuadMode
                   PROVE  QEInv'
        BY <1>1, <1>3 DEF QEInv
      <2>1. stage # "Erase"
        BY DEF TypesAndPlace, PlaceInv, CallInv
      <2>2. CASE stage = "WriteStatus"
        BY <1>1, <1>2, <2>2 DEF TimelyInv, QEInv
      <2>3. CASE stage # "WriteStatus"
        <3>1. chip'.todo = chip.todo /\ Busy' = Busy /\ (Issued' => Issued)
          BY <1>2, <1>4, <2>1, <2>3 DEF Busy, Issued
        <3> QED BY <1>1, <1>3, <3>1 DEF TimelyInv, QEInv
      <2> QED BY <2>2, <2>3
    <1>9. EraseInv'
      <2> SUFFICES ASSUME call.op = "erase", call.ret = OK
                   PROVE  EraseInv'
        BY <1>1 DEF EraseInv
      <2>1. stage # "WriteStatus" /\ done = 0 /\ call.addr \in Nat
        BY TypeParts DEF TypesAndPlace, PlaceInv, CallInv, Calls
      <2>2. Addr = call.addr
        BY <2>1 DEF Addr
      <2>3. CASE stage = "Erase"
        BY <1>1, <1>2, <2>2, <2>3 DEF EraseInv, Busy
      <2>4. CASE stage # "Erase"
        <3>1. chip'.todo = chip.todo /\ Busy' = Busy /\ (Issued' => Issued)
          BY <1>2, <1>4, <2>1, <2>4 DEF Busy, Issued
        <3> QED BY <1>1, <1>2, <1>3, <3>1 DEF TimelyInv, EraseInv
      <2> QED BY <2>3, <2>4
    <1>10. ReadInv'
      <2>1. phase' \notin {"fetch", "store"}
        BY <1>1
      <2> QED BY <1>1, <2>1 DEF TimelyInv, ReadInv, Stored
    <1> QED BY <1>5, <1>6, <1>7, <1>8, <1>9, <1>10 DEF TimelyInv

-----------------------------------------------------------------------------
(* While WaitReady has not given up: the chip ends a command.              *)

\* There is no sector behind the chip.
LEMMA NoSector ==
    ASSUME NEW addr \in Nat, addr \notin Cell
    PROVE  Sector(addr) = {}
    <1>1. ChipSize \in Nat \ {0} /\ EraseSize \in Nat \ {0} /\ ChipSize % EraseSize = 0
            /\ addr >= ChipSize
      BY Constants DEF Cell
    <1>2. ASSUME NEW a \in Cell
          PROVE  a \div EraseSize # addr \div EraseSize
      <2> DEFINE q == ChipSize \div EraseSize
                 x == a \div EraseSize
                 r == a % EraseSize
                 y == addr \div EraseSize
                 t == addr % EraseSize
      <2>1. a \in Nat /\ a < ChipSize
        BY <1>1 DEF Cell
      <2>2. q \in Nat /\ ChipSize = EraseSize * q
        BY <1>1, DivMod
      <2>3. x \in Nat /\ r \in 0 .. (EraseSize - 1) /\ a = EraseSize * x + r
        BY <1>1, <2>1, DivMod
      <2>4. y \in Nat /\ t \in 0 .. (EraseSize - 1) /\ addr = EraseSize * y + t
        BY <1>1, DivMod
      <2> HIDE DEF q, x, r, y, t
      <2>5. x < q
        <3> SUFFICES ASSUME x >= q PROVE FALSE
          BY <2>2, <2>3
        <3>1. EraseSize * x >= EraseSize * q
          BY <1>1, <2>2, <2>3, SMT
        <3>2. EraseSize * x \in Nat
          BY <1>1, <2>3, SMT
        <3> QED BY <1>1, <2>1, <2>2, <2>3, <3>1, <3>2
      <2>6. y >= q
        <3> SUFFICES ASSUME y + 1 <= q PROVE FALSE
          BY <2>2, <2>4
        <3>1. EraseSize * (y + 1) <= EraseSize * q
          BY <1>1, <2>2, <2>4, SMT
        <3>2. EraseSize * (y + 1) = EraseSize * y + EraseSize /\ EraseSize * y \in Nat
          BY <1>1, <2>4, SMT
        <3> QED BY <1>1, <2>2, <2>4, <3>1, <3>2
      <2>7. x # y
        BY <2>2, <2>3, <2>4, <2>5, <2>6
      <2> QED BY <2>7 DEF x, y
    <1> QED BY <1>2 DEF Sector

LEMMA ChipStepTimely ==
    ASSUME TypesAndPlace, Executable(chip.todo), BusInv, TimelyInv, ChipStep
    PROVE  TimelyInv'
    <1>1. UNCHANGED <<build, driver, ctl, hist>>
      BY DEF ChipStep
    <1>2. /\ stage' = stage /\ phase' = phase /\ done' = done /\ qe' = qe /\ cpu' = cpu
          /\ call' = call /\ ctl' = ctl /\ QuadMode' = QuadMode /\ Issued' = Issued
          /\ InRx' = InRx /\ Stored' = Stored
      BY <1>1 DEF driver, place, QuadMode, Issued, InRx, Stored
    <1>3. ChipTypeOK /\ chip.todo \in Seq(Byte)
      BY DEF TypesAndPlace, TypeOK, ChipTypeOK
    <1>4. /\ Busy /\ chip'.todo = <<>> /\ chip'.frame = chip.frame
          /\ \A a \in Cell \ Touched(chip.todo) : mem'[a] = mem[a]
          /\ IsErase(chip.todo) => \A a \in Sector(AddressOf(chip.todo)) : mem'[a] = 255
          /\ ~IsWrite(chip.todo) => chip'.sr1 = chip.sr1 /\ chip'.sr2 = chip.sr2
          /\ IsWrite(chip.todo) =>
                /\ mem' = mem
                /\ Len(chip.todo) = 3 => chip'.sr2 = 2 * ((chip.todo[3] \div 2) % 4)
      BY <1>3, EndsFacts DEF ChipStep
    <1>5. ~Busy' /\ BusyInv'
      BY <1>4 DEF Busy, BusyInv
    <1>6. \/ call.op = "none"
          \/ stage = "ReadID" /\ call.op = "init"
          \/ call.op = "init" /\ stage = "end"
          \/ Issued
      <2>1. Busy
        BY <1>4
      <2>2. stage = "ReadID" => call.op = "init"
        BY DEF TypesAndPlace, PlaceInv, CallInv
      <2> QED BY <2>1, <2>2 DEF TimelyInv, BusyInv
    <1>7. AllHeard'
      BY <1>2, <1>4 DEF TimelyInv, AllHeard, IsLost
    <1>8. EnabledInv'
      BY <1>2, <1>6 DEF EnabledInv, Issued, TypesAndPlace, PlaceInv, CallInv
    <1>9. ASSUME call.op = "read", call.ret = OK
          PROVE  /\ stage \in {"Poll", "WriteStatus"} /\ QuadMode /\ IsWrite(chip.todo)
                 /\ Issued /\ Len(chip.todo) = 3 /\ Bit1(chip.todo[3]) = qe \div 2
      <2>1. Issued
        BY <1>6, <1>9
      <2>2. stage \in {"Poll", "WriteStatus"} /\ QuadMode
        BY <1>9, <2>1 DEF Issued, TypesAndPlace, PlaceInv, CallInv
      <2> QED BY <1>4, <1>9, <2>1, <2>2 DEF TimelyInv, QEInv
    <1>10. QEInv'
      <2> SUFFICES ASSUME call.op = "read", call.ret = OK
                   PROVE  QEInv'
        BY <1>2 DEF QEInv
      <2> DEFINE v == chip.todo[3]
      <2>1. v \in Byte /\ chip'.sr2 = 2 * ((v \div 2) % 4) /\ Bit1(v) = qe \div 2 /\ qe \in {0, 2}
        BY <1>3, <1>4, <1>9 DEF TypesAndPlace, TypeOK
      <2> HIDE DEF v
      <2>2. (chip'.sr2 \div 2) % 2 = (v \div 2) % 2
        BY <2>1, WrittenBits
      <2>3. QE' <=> (v \div 2) % 2 = 1
        BY <2>2 DEF QE
      <2>4. (v \div 2) % 2 = qe \div 2
        BY <2>1 DEF Bit1
      <2>5. QE' <=> qe = 2
        BY <2>1, <2>3, <2>4
      <2>6. stage \in {"Poll", "WriteStatus"} /\ (stage = "WriteStatus" => Bit1(cpu.reg2) = qe \div 2)
        BY <1>9 DEF TimelyInv, QEInv
      <2> HIDE DEF QE, Busy
      <2> QED BY <1>2, <1>5, <1>9, <2>5, <2>6 DEF QEInv
    <1>11. ReadInv'
      <2> SUFFICES ASSUME call.op = "read", call.ret = OK
                   PROVE  ReadInv'
        BY <1>2 DEF ReadInv
      <2>1. mem' = mem
        BY <1>4, <1>9
      <2> QED BY <1>2, <2>1 DEF TimelyInv, ReadInv
    <1>12. EraseInv'
      <2> SUFFICES ASSUME call.op = "erase", call.ret = OK
                   PROVE  EraseInv'
        BY <1>2 DEF EraseInv
      <2>1. /\ IsErase(chip.todo) /\ (call.addr \in Cell => AddressOf(chip.todo) = call.addr)
        BY <1>4, <1>6 DEF TimelyInv, EraseInv
      <2>2. call.addr \in Nat
        BY DEF TypesAndPlace, TypeOK
      <2>3. \A a \in Sector(call.addr) : mem'[a] = 255
        <3>1. CASE call.addr \in Cell
          BY <1>4, <2>1, <3>1
        <3>2. CASE call.addr \notin Cell
          BY <2>2, <3>2, NoSector
        <3> QED BY <3>1, <3>2
      <2>4. SectorErased'
        BY <1>2, <2>3 DEF SectorErased, Sector
      <2> HIDE DEF SectorErased, Busy
      <2> QED BY <1>2, <1>5, <2>4 DEF EraseInv
    <1> QED BY <1>5, <1>7, <1>8, <1>10, <1>11, <1>12 DEF TimelyInv

-----------------------------------------------------------------------------
(* While WaitReady has not given up: a byte goes to the chip.              *)

\* What the chip hears and what it says when it hears its driver.
HeardOut == Append(chip.frame, Head(ctl.tx))

\* The frame goes on as it began.
LEMMA HeardOutFacts ==
    ASSUME TypesAndPlace, SelectInv, HeardInv, ~IsLost, ctl.tx # <<>>
    PROVE  /\ Selected /\ stage # "end" /\ HeardOut \in Seq(Byte) /\ Len(HeardOut) = InFrame + 1
           /\ HeardOut[1] = Opcode /\ (InFrame = 0 => Head(ctl.tx) = Opcode)
           /\ InTx >= 1 /\ InTx \in Nat /\ InFrame \in Nat /\ sent \in Nat /\ sent >= 1
           /\ OutLen \in 1 .. 7 /\ sent <= OutLen
    <1> DEFINE b == Head(ctl.tx)
               f == chip.frame
    <1>1. Selected /\ stage # "end" /\ InFrame \in Nat /\ InTx \in Nat /\ InTx >= 1 /\ sent \in Nat
      BY Lengths DEF SelectInv, Selected, TypesAndPlace, PlaceInv, PhaseInv
    <1>2. OutLen \in 1 .. 7 /\ Out[1] = Opcode
      BY <1>1, OutFacts DEF TypesAndPlace
    <1>3. sent <= OutLen
      BY <1>1, <1>2 DEF TypesAndPlace, PlaceInv, PhaseInv, Selected
    <1>4. f \in Seq(Byte) /\ b \in Byte /\ b = ctl.tx[1]
      BY <1>1, ShiftTypes DEF TypesAndPlace
    <1>5. sent >= 1
      <2> SUFFICES ASSUME sent = 0 PROVE FALSE
        BY <1>1
      <2>1. phase = "send"
        BY <1>1, <1>2 DEF TypesAndPlace, PlaceInv, PhaseInv, Selected
      <2>2. InFrame + InTx = 0 + 0
        BY <1>1, <2>1 DEF HeardInv, Fed
      <2> QED BY <1>1, <2>2
    <1>6. InFrame = 0 => b = Opcode
      <2>1. 1 \in 1 .. InTx
        BY <1>1
      <2>2. InFrame = 0 => ctl.tx[1] = Out[0 + 1]
        BY <1>1, <1>5, <2>1 DEF HeardInv, Heads
      <2> QED BY <1>2, <1>4, <2>2
    <1>7. InFrame # 0 => f[1] = Opcode
      BY <1>1, <1>2, <1>5 DEF HeardInv, Heads
    <1>8. InFrame = Len(f)
      BY DEF InFrame
    <1> HIDE DEF b, f
    <1>9. /\ Append(f, b) \in Seq(Byte) /\ Len(Append(f, b)) = Len(f) + 1
          /\ Append(f, b)[Len(f) + 1] = b /\ \A k \in 1 .. Len(f) : Append(f, b)[k] = f[k]
      BY <1>4
    <1>10. Append(f, b)[1] = Opcode
      <2>1. CASE InFrame = 0
        BY <1>6, <1>8, <1>9, <2>1
      <2>2. CASE InFrame # 0
        BY <1>1, <1>7, <1>8, <1>9, <2>2
      <2> QED BY <2>1, <2>2
    <1>11. HeardOut = Append(f, b)
      BY DEF HeardOut, b, f
    <1> QED BY <1>1, <1>2, <1>3, <1>5, <1>6, <1>8, <1>9, <1>10, <1>11 DEF b

\* The controller sends each byte on the lines that the chip listens to.
LEMMA RightModeHeld ==
    ASSUME TypesAndPlace, BusInv, TimelyInv, Shift, ~IsLost
    PROVE  RightMode(HeardOut)
    <1>1. /\ Selected /\ ctl.tx # <<>> /\ phase \in {"send", "spin", "wait", "fetch"}
          /\ stage # "end" /\ HeardOut \in Seq(Byte) /\ Len(HeardOut) = InFrame + 1
          /\ HeardOut[1] = Opcode /\ InTx >= 1 /\ InTx \in Nat /\ InFrame \in Nat /\ sent \in Nat
          /\ sent >= 1 /\ OutLen \in 1 .. 7 /\ sent <= OutLen
      BY ShiftFacts, HeardOutFacts DEF BusInv
    <1>2. RightMode(HeardOut) <=>
             /\ ctl.mode = IF Opcode # FAST_READ_QUAD \/ InFrame + 1 = 1 THEN "single"
                           ELSE IF InFrame + 1 <= 7 THEN "out" ELSE "in"
             /\ Opcode = FAST_READ_QUAD => QE
      BY <1>1 DEF RightMode
    <1>3. ctl.mode = Mode
      BY DEF BusInv, SelectInv
    <1>4. CASE ~(stage = "Read" /\ QuadMode)
      <2>1. Opcode # FAST_READ_QUAD
        BY <1>1, <1>4, StageOf DEF TypesAndPlace
      <2>2. Mode = "single"
        BY <1>4 DEF Mode
      <2> QED BY <1>2, <1>3, <2>1, <2>2
    <1>5. CASE stage = "Read" /\ QuadMode
      <2>1. QE
        BY <1>5 DEF TypesAndPlace, PlaceInv, CallInv, TimelyInv, QEInv
      <2>2. phase # "spin" /\ OutLen = 7 /\ Opcode = FAST_READ_QUAD
        BY <1>5 DEF TypesAndPlace, PlaceInv, PhaseInv, OutLen, Opcode, OfStatus
      <2>3. InFrame + InTx = sent + Fed
        BY <1>1, <2>2 DEF BusInv, HeardInv
      <2>4. CASE phase = "send"
        <3>1. sent <= 6 /\ ctl.mode = "out"
          BY <1>1, <1>3, <1>5, <2>2, <2>4 DEF Mode, TypesAndPlace, PlaceInv, PhaseInv
        <3>2. InFrame >= 1
          BY <1>1, <3>1 DEF BusInv, HeardInv
        <3>3. InFrame + InTx = sent + 0
          BY <2>3, <2>4 DEF Fed
        <3>4. InFrame + 1 <= 7 /\ InFrame + 1 # 1
          BY <1>1, <3>1, <3>2, <3>3
        <3> QED BY <1>2, <2>1, <2>2, <3>1, <3>4
      <2>5. CASE phase = "wait" /\ sent = 1
        <3>1. InFrame + InTx = 1 + 0
          BY <2>3, <2>5 DEF Fed
        <3>2. InFrame + 1 = 1
          BY <1>1, <3>1
        <3>3. Mode = "single"
          BY <2>5 DEF Mode
        <3> QED BY <1>2, <1>3, <2>1, <3>2, <3>3
      <2>6. CASE phase = "wait" /\ sent # 1
        <3>1. sent = 7 /\ ctl.mode = "out"
          BY <1>3, <1>5, <2>2, <2>6 DEF Mode, TypesAndPlace, PlaceInv, PhaseInv
        <3>2. InFrame >= 1
          BY <1>1, <3>1 DEF BusInv, HeardInv
        <3>3. InFrame + InTx = 7 + 0
          BY <2>3, <2>6, <3>1 DEF Fed
        <3>4. InFrame + 1 <= 7 /\ InFrame + 1 # 1
          BY <1>1, <3>2, <3>3
        <3> QED BY <1>2, <2>1, <2>2, <3>1, <3>4
      <2>7. CASE phase = "fetch"
        <3>1. ctl.mode = "in"
          BY <1>3, <1>5, <2>7 DEF Mode
        <3>2. InFrame >= 7
          BY <1>1, <3>1 DEF BusInv, HeardInv
        <3>3. ~(InFrame + 1 <= 7) /\ InFrame + 1 # 1
          BY <1>1, <3>2
        <3> QED BY <1>2, <2>1, <2>2, <3>1, <3>3
      <2> QED BY <1>1, <2>2, <2>4, <2>5, <2>6, <2>7
    <1> QED BY <1>4, <1>5

\* The chip hears the byte, unless it is busy and asked for its id.
LEMMA ShiftOut ==
    ASSUME TypesAndPlace, BusInv, TimelyInv, Shift, stage # "ReadID"
    PROVE  /\ ~IsLost /\ ~IsLost'
           /\ phase # "spin" => HeardNext = HeardOut
    <1> DEFINE b == Head(ctl.tx)
               f == chip.frame
               takes == f = <<>> /\ Busy => b \in {READ_STATUS, READ_STATUS2}
    <1>1. ~IsLost
      BY DEF TimelyInv, AllHeard
    <1>2. /\ ctl.tx # <<>> /\ phase \in {"send", "spin", "wait", "fetch"} /\ chip'.frame = HeardNext
          /\ stage # "end" /\ HeardOut \in Seq(Byte) /\ Len(HeardOut) = InFrame + 1
          /\ HeardOut[1] = Opcode /\ InFrame \in Nat /\ (InFrame = 0 => b = Opcode)
      BY <1>1, ShiftFacts, HeardOutFacts DEF BusInv
    <1>3. f \in Seq(Byte) /\ b \in Byte /\ MaxFrame > 1 /\ MaxFrame \in Nat
      BY <1>2, ShiftTypes, Constants DEF TypesAndPlace
    <1>4. takes
      <2> SUFFICES ASSUME f = <<>>, Busy
                   PROVE  b \in {READ_STATUS, READ_STATUS2}
        OBVIOUS
      <2>1. b = Opcode
        BY <1>2, Lengths DEF TypesAndPlace
      <2>2. stage = "Poll"
        BY <1>2 DEF TimelyInv, BusyInv, Issued, TypesAndPlace, PlaceInv, CallInv
      <2> QED BY <2>1, <2>2 DEF Opcode
    <1>5. RightMode(HeardOut)
      BY <1>1, RightModeHeld
    <1>6. HeardNext = Heard(b, TRUE)
      BY <1>5, <1>2 DEF HeardNext, HeardOut, RightMode
    <1>7. \/ HeardNext = HeardOut
          \/ HeardNext = f /\ Len(f) >= MaxFrame
      BY <1>3, <1>4, <1>6, HeardCases DEF HeardOut
    <1>8. InFrame < MaxFrame \/ phase = "spin"
      BY <1>1, <1>2, FrameRoom DEF BusInv
    <1>9. Opcode # Lost
      BY <1>2, StageOf DEF TypesAndPlace
    <1>10. InFrame = Len(f)
      BY DEF InFrame
    <1>11. ~IsLost'
      BY <1>1, <1>2, <1>7, <1>9 DEF IsLost
    <1> HIDE DEF f, b
    <1>12. phase # "spin" => HeardNext = HeardOut
      BY <1>2, <1>3, <1>7, <1>8, <1>10
    <1> QED BY <1>1, <1>11, <1>12

\* A busy chip that is asked for its id answers nothing.
LEMMA ShiftNoId ==
    ASSUME TypesAndPlace, BusInv, NoId, Busy, Shift, stage = "ReadID"
    PROVE  NoId'
    <1> DEFINE b == Head(ctl.tx)
               f == chip.frame
               clear == RightMode(HeardOut)
    <1>1. /\ ctl.tx # <<>> /\ chip'.frame = HeardNext /\ cpu' = cpu
          /\ InRx < FifoDepth =>
                /\ InRx' = InRx + 1 /\ ctl'.rx[InRx + 1] = Answer(HeardNext)
                /\ \A k \in 1 .. InRx : ctl'.rx[k] = ctl.rx[k]
          /\ InTx >= 1 /\ InTx \in Nat
      <2>1. SelectInv
        BY DEF BusInv
      <2>2. UNCHANGED driver
        BY <2>1, ShiftFacts
      <2>3. cpu' = cpu
        BY <2>2 DEF driver
      <2> QED BY <2>1, <2>3, ShiftFacts, Lengths DEF TypesAndPlace
    <1>2. f \in Seq(Byte) /\ b \in Byte /\ MaxFrame > 1 /\ clear \in BOOLEAN /\ InRx \in Nat
            /\ InFrame \in Nat /\ sent \in Nat
      BY <1>1, ShiftTypes, Constants, Lengths DEF TypesAndPlace, HeardOut
    <1>3. HeardNext # <<>> /\ HeardNext[1] = Lost
      <2>1. CASE f # <<>>
        <3>1. IsLost
          BY <2>1 DEF NoId
        <3> QED BY <1>1, <3>1, NextFrame DEF BusInv
      <2>2. CASE f = <<>>
        <3>1. ~IsLost /\ InFrame = 0
          BY <2>2, Lengths DEF IsLost, TypesAndPlace
        <3>2. b = JEDEC_ID
          BY <1>1, <3>1, HeardOutFacts DEF BusInv, Opcode
        <3>3. b \notin {READ_STATUS, READ_STATUS2}
          BY <3>2 DEF JEDEC_ID, READ_STATUS, READ_STATUS2
        <3>4. HeardNext = Heard(b, clear)
          BY DEF HeardNext, HeardOut
        <3>5. ~(Len(f) >= MaxFrame)
          BY <1>2, <2>2, EmptySeq, Constants
        <3> HIDE DEF clear, b
        <3>6. HeardNext = <<Lost>>
          BY <1>2, <2>2, <3>3, <3>4, <3>5, HeardCases
        <3> QED BY <3>6
      <2> QED BY <2>1, <2>2
    <1>4. Answer(HeardNext) = 255
      BY <1>3, AnswerFacts DEF Lost
    <1>5. InRx < FifoDepth
      <2>1. InRx + InTx = sent /\ sent <= 5
        <3>1. phase \in {"send", "wait"} /\ OutLen = 5
          BY ShiftFacts DEF BusInv, OutLen, OfStatus, TypesAndPlace, PlaceInv, PhaseInv
        <3> QED BY <1>2, <3>1 DEF BusInv, RxInv, TypesAndPlace, PlaceInv, PhaseInv
      <2>2. \A x, y, z \in Nat : x + y = z /\ z <= 5 => x <= 5
        OBVIOUS
      <2>3. InRx <= 5
        BY <1>1, <1>2, <2>1, <2>2, Zenon
      <2> QED BY <1>2, <2>3, Constants
    <1>6. \A k \in 1 .. InRx' : ctl'.rx[k] = 255
      BY <1>1, <1>2, <1>4, <1>5 DEF NoId
    <1>7. IsLost'
      BY <1>1, <1>3 DEF IsLost
    <1> QED BY <1>1, <1>6, <1>7 DEF NoId, Stored

\* The byte the chip gives is the next one of the read.
LEMMA ShiftRead ==
    ASSUME TypesAndPlace, BusInv, TimelyInv, Shift
    PROVE  ReadInv'
    <1>1. /\ phase' = phase /\ stage' = stage /\ call' = call /\ mem' = mem /\ cpu' = cpu
          /\ Stored' = Stored /\ phase \in {"send", "spin", "wait", "fetch"} /\ ctl.tx # <<>>
          /\ chip'.frame = HeardNext
      BY ShiftFacts DEF BusInv, driver, place, kept, Stored
    <1>2. ASSUME call.op = "read", call.ret = OK, phase \in {"fetch", "store"}, InRx' = 1,
                 call.addr + Stored + 1 <= ChipSize
          PROVE  ctl'.rx[1] = mem[call.addr + Stored]
      <2> DEFINE h == HeardNext
                 n == InFrame + 1
      <2>1. phase = "fetch" /\ stage = "Read" /\ sent = OutLen
        BY <1>1, <1>2 DEF TypesAndPlace, PlaceInv, PhaseInv
      <2>2. ~IsLost /\ h = HeardOut
        BY <2>1, ShiftOut
      <2>3. /\ h \in Seq(Byte) /\ Len(h) = n /\ h[1] = Opcode
            /\ InTx >= 1 /\ InTx \in Nat /\ InFrame \in Nat /\ OutLen \in 1 .. 7
            /\ stage # "end"
        BY <1>1, <2>2, HeardOutFacts DEF BusInv
      <2>4. InRx + InTx = 1 /\ InRx \in Nat /\ Stored \in Nat /\ done \in Nat
        BY <2>1, Lengths DEF BusInv, RxInv, TypesAndPlace
      <2>5. InTx = 1 /\ InRx = 0
        BY <2>3, <2>4
      <2>6. ctl'.rx[1] = Answer(h)
        <3>1. InRx < FifoDepth => ctl'.rx[InRx + 1] = Answer(h)
          BY ShiftFacts DEF BusInv
        <3>2. 0 < FifoDepth /\ 0 + 1 = 1
          BY Constants
        <3> QED BY <2>5, <3>1, <3>2
      <2>7. done <= Stored
        BY <1>2, <2>1 DEF TypesAndPlace, PlaceInv, CountInv, Stored
      <2>8. n = OutLen + (Stored - done) + 1
        <3>1. InFrame + 1 = OutLen + Fed
          BY <1>1, <2>1, <2>2, <2>5 DEF BusInv, HeardInv, Selected
        <3>2. Fed = Stored - done + 1
          BY <2>1 DEF Fed
        <3> QED BY <2>3, <2>4, <2>7, <3>1, <3>2
      <2>9. call.addr \in Nat /\ Addr = call.addr + done /\ Addr \in Cell
              /\ Addr + (Stored - done) = call.addr + Stored /\ call.addr + Stored \in Cell
        <3>1. call.addr \in Nat /\ ChipSize \in Nat
          BY Constants DEF TypesAndPlace, TypeOK
        <3> QED BY <1>2, <2>4, <2>7, <3>1 DEF Addr, Cell
      <2>10. AddressOf(h) = Addr
        <3>1. OutLen >= 4 /\ OutLen \in Nat
          BY <2>1 DEF OutLen, OfStatus
        <3>2. HeardInv' /\ ~IsLost' /\ Selected'
          BY <1>1, <2>1, ShiftHeard, ShiftOut DEF BusInv, Selected
        <3>3. sent' = sent /\ Out' = Out /\ InFrame' = n
          <4>1. UNCHANGED <<driver, kept>> /\ Len(h) = n
            BY <2>3, ShiftFacts DEF BusInv
          <4>2. InFrame' = Len(h)
            BY <1>1 DEF InFrame
          <4> QED BY <4>1, <4>2, SameFrame DEF driver, place, kept
        <3>4. \A k \in 1 .. n : k <= OutLen => h[k] = Out[k]
          BY <1>1, <2>1, <3>2, <3>3 DEF HeardInv, Heads
        <3>5. n >= 4 /\ n \in Nat
          BY <2>3, <2>4, <2>7, <2>8, <3>1
        <3>6. \A k \in 1 .. 4 : h[k] = Out[k]
          <4> HIDE DEF n, h
          <4> QED BY <3>1, <3>4, <3>5
        <3>7. AddressOf(h) = AddressOf(Out)
          <4> HIDE DEF h
          <4>1. 4 \in Nat /\ 4 >= 4
            OBVIOUS
          <4> QED BY <3>6, <4>1, SameAddress
        <3>8. AddressOf(Out) = Addr
          BY <2>1, <2>9, OutFacts DEF TypesAndPlace
        <3> QED BY <3>7, <3>8
      <2>11. (call.addr + Stored) % ChipSize = call.addr + Stored
        <3>1. \A a \in Cell : a % ChipSize = a
          BY ChipFacts, SMT DEF Cell
        <3> QED BY <2>9, <3>1
      <2>12. CASE QuadMode
        <3>1. Opcode = FAST_READ_QUAD /\ OutLen = 7
          BY <2>1, <2>12 DEF Opcode, OutLen, OfStatus
        <3>2. n > 7 /\ n - 8 = Stored - done
          BY <2>4, <2>7, <2>8, <3>1
        <3> HIDE DEF h, n
        <3>3. Answer(h) = mem[(AddressOf(h) + (n - 8)) % ChipSize]
          BY <2>3, <3>1, <3>2, AnswerCases
        <3> QED BY <2>6, <2>9, <2>10, <2>11, <3>2, <3>3
      <2>13. CASE ~QuadMode
        <3>1. Opcode = READ /\ OutLen = 4
          BY <2>1, <2>13 DEF Opcode, OutLen, OfStatus
        <3>2. n > 4 /\ n - 5 = Stored - done
          BY <2>4, <2>7, <2>8, <3>1
        <3> HIDE DEF h, n
        <3>3. Answer(h) = mem[(AddressOf(h) + (n - 5)) % ChipSize]
          BY <2>3, <3>1, <3>2, AnswerCases
        <3> QED BY <2>6, <2>9, <2>10, <2>11, <3>2, <3>3
      <2> QED BY <2>12, <2>13
    <1> QED BY <1>1, <1>2 DEF TimelyInv, ReadInv

LEMMA ShiftTimely ==
    ASSUME TypesAndPlace, BusInv, TimelyInv, Shift
    PROVE  TimelyInv'
    <1>1. /\ phase' = phase /\ stage' = stage /\ call' = call /\ mem' = mem /\ cpu' = cpu
          /\ qe' = qe /\ build' = build /\ chip'.todo = chip.todo /\ chip'.sr1 = chip.sr1
          /\ chip'.sr2 = chip.sr2 /\ chip'.wel = chip.wel
      BY ShiftFacts DEF BusInv, driver, place, kept
    <1>2. /\ Busy' = Busy /\ QE' = QE /\ QuadMode' = QuadMode /\ Issued' = Issued
          /\ SectorErased' = SectorErased
      BY <1>1 DEF Busy, QE, QuadMode, Issued, SectorErased, Sector
    <1>3. AllHeard'
      BY <1>1, ShiftOut DEF AllHeard
    <1>4. BusyInv'
      BY <1>1, <1>2, ShiftNoId DEF TimelyInv, BusyInv
    <1>5. EnabledInv' /\ QEInv' /\ EraseInv'
      BY <1>1, <1>2 DEF TimelyInv, EnabledInv, QEInv, EraseInv
    <1> QED BY <1>3, <1>4, <1>5, ShiftRead DEF TimelyInv

LEMMA NextTimely ==
    ASSUME TypesAndPlace, Executable(chip.todo), ~hist.stuck => BusInv, InTime => TimelyInv, Next,
           InTime'
    PROVE  TimelyInv'
    <1>1. CASE Reset
      <2>1. chip'.frame = <<>> /\ Restart
        BY <1>1, ResetChip, DeselectedCases DEF TypesAndPlace, TypeOK, ChipTypeOK
      <2> QED BY <2>1, RestartTimely
    <1>2. CASE PowerLoss
      <2>1. chip'.frame = <<>> /\ Restart
        BY <1>2, PowerFacts DEF PowerLoss, TypesAndPlace, TypeOK
      <2> QED BY <2>1, RestartTimely
    <1>3. CASE ~Reset /\ ~PowerLoss
      <2>1. TimelyInv /\ BusInv
        BY <1>3, SlowStays DEF InTime
      <2>2. ~WaitGivesUp
        BY GiveUpPlace DEF InTime
      <2> QED BY <1>3, <2>1, <2>2, NextCases, MoveCases, TurnTimely, WithinTimely, ReleaseTimely,
                 ShiftTimely, ChipStepTimely
    <1> QED BY <1>1, <1>2, <1>3

-----------------------------------------------------------------------------
(* The theorems.                                                           *)

LEMMA InitEstablishes ==
    ASSUME Init
    PROVE  IInv
    <1>1. /\ stage = "end" /\ phase = "select" /\ sent = 0 /\ call = NoCall /\ ctl = NoTraffic
          /\ ChipInit /\ pre = mem /\ owed = {} /\ cpu = NoLocals
      BY DEF Init
    <1>2. TypesAndPlace
      BY InitPlace
    <1>3. chip.frame = <<>> /\ chip.todo = <<>>
      BY <1>1 DEF ChipInit
    <1>4. ~IsLost /\ ~Busy /\ ~Issued /\ ~Selected /\ Executable(chip.todo)
      BY <1>1, <1>3 DEF IsLost, Busy, Issued, Selected, Executable
    <1>5. InRx = 0 /\ InTx = 0
      BY <1>1, BlankFacts DEF InRx, InTx
    <1>6. BusInv
      <2>1. SelectInv
        BY <1>1, <1>3, <1>4, BlankFacts DEF SelectInv, Mode, Selected
      <2>2. RxInv
        BY <1>1, <1>5, BlankFacts DEF RxInv, OfStatus
      <2>3. ~IsWrite(chip.todo) /\ ~HasStatus
        BY <1>1, <1>3 DEF IsWrite, HasStatus, OfStatus
      <2> QED BY <1>1, <1>4, <2>1, <2>2, <2>3 DEF BusInv, HeardInv, StatusInv, KeptInv, StatusHeard
    <1>7. OwedInv
      BY <1>1, <1>3, NothingOwed DEF OwedInv, Owes
    <1>8. TimelyInv
      BY <1>1, <1>4, BlankFacts DEF TimelyInv, BusyInv, AllHeard, EnabledInv, QEInv, ReadInv, EraseInv
    <1> QED BY <1>2, <1>4, <1>6, <1>7, <1>8 DEF IInv, TypesAndPlace

\* A step that leaves everything the invariant speaks of.
LEMMA StutterKeeps ==
    ASSUME IInv, UNCHANGED vars
    PROVE  IInv'
    <1>1. /\ UNCHANGED <<build, stage, phase, sent, done, qe, cpu, call, calls>>
          /\ UNCHANGED <<ctl, chip, mem, pre, owed, hist, resets>>
      BY DEF vars, kept, driver, place
    <1>2. TypesAndPlace'
      BY StutterPlace DEF IInv, TypesAndPlace
    <1>3. Executable(chip.todo)' /\ InTime' = InTime
      BY <1>1 DEF IInv, Executable, IsErase, IsProgram, IsWrite, InTime
    <1>4. ASSUME ~hist.stuck PROVE BusInv'
      <2>1. /\ Selected' = Selected /\ InFrame' = InFrame /\ InTx' = InTx /\ InRx' = InRx
            /\ Stored' = Stored /\ IsLost' = IsLost /\ Busy' = Busy /\ Qspi' = Qspi
            /\ QuadMode' = QuadMode
        BY <1>1 DEF Selected, InFrame, InTx, InRx, Stored, IsLost, Busy, Qspi, QuadMode
      <2>2. BusInv
        BY <1>4 DEF IInv
      <2>3. SelectInv'
        BY <1>1, <2>1, <2>2 DEF BusInv, SelectInv, Mode
      <2>4. HeardInv'
        <3>1. Out' = Out /\ Fed' = Fed
          BY <1>1, <2>1 DEF Out, Fed, Command, Addr
        <3> QED BY <1>1, <2>1, <2>2, <3>1 DEF BusInv, HeardInv, Heads
      <2>5. RxInv'
        BY <1>1, <2>1, <2>2 DEF BusInv, RxInv, OfStatus
      <2>6. StatusInv'
        BY <1>1, <2>1, <2>2 DEF BusInv, StatusInv, HasStatus, StatusSeen, OfStatus, Agrees
      <2>7. KeptInv' /\ StatusHeard'
        BY <1>1, <2>1, <2>2 DEF BusInv, KeptInv, StatusHeard, OfStatus, Agrees, IsWrite
      <2> QED BY <2>3, <2>4, <2>5, <2>6, <2>7 DEF BusInv
    <1>5. ASSUME OwedInv PROVE OwedInv'
      BY <1>1, <1>5 DEF OwedInv, Owes, IsErase, IsProgram, AddressOf, Sector, Page, Span
    <1>6. ASSUME TimelyInv PROVE TimelyInv'
      <2>1. /\ InRx' = InRx /\ Stored' = Stored /\ IsLost' = IsLost /\ Busy' = Busy
            /\ Issued' = Issued /\ QuadMode' = QuadMode /\ QE' = QE
        BY <1>1 DEF InRx, Stored, IsLost, Busy, Issued, QuadMode, QE
      <2>2. BusyInv' /\ AllHeard' /\ EnabledInv'
        BY <1>1, <1>6, <2>1 DEF TimelyInv, BusyInv, NoId, AllHeard, EnabledInv
      <2>3. QEInv'
        BY <1>1, <1>6, <2>1 DEF TimelyInv, QEInv, Bit1, IsWrite
      <2>4. ReadInv'
        BY <1>1, <1>6, <2>1 DEF TimelyInv, ReadInv
      <2>5. EraseInv'
        BY <1>1, <1>6, <2>1 DEF TimelyInv, EraseInv, SectorErased, IsErase, AddressOf, Sector
      <2> QED BY <2>2, <2>3, <2>4, <2>5 DEF TimelyInv
    <1>7. hist' = hist
      BY <1>1
    <1> QED BY <1>2, <1>3, <1>4, <1>5, <1>6, <1>7 DEF IInv, TypesAndPlace

LEMMA NextKeeps ==
    ASSUME IInv, [Next]_vars
    PROVE  IInv'
    <1>1. CASE Next
      <2>1. TypesAndPlace /\ Executable(chip.todo) /\ (~hist.stuck => BusInv) /\ (InTime => TimelyInv)
              /\ (~hist.stuck /\ FlashSize <= ChipSize => OwedInv)
        BY DEF IInv, TypesAndPlace
      <2>2. TypesAndPlace' /\ Executable(chip'.todo)
        BY <1>1, <2>1, NextPlace, NextExecutable
      <2>3. ~hist'.stuck => BusInv' /\ ~hist.stuck
        BY <1>1, <2>1, NextBus, StuckStays
      <2>4. ~hist'.stuck /\ FlashSize <= ChipSize => OwedInv'
        BY <1>1, <2>1, <2>3, NextOwed
      <2>5. InTime' => TimelyInv'
        BY <1>1, <2>1, NextTimely
      <2>6. Executable(chip.todo)'
        BY <2>2 DEF Executable, IsErase, IsProgram, IsWrite
      <2> QED BY <2>2, <2>3, <2>4, <2>5, <2>6 DEF IInv, TypesAndPlace
    <1>2. CASE UNCHANGED vars
      BY <1>2, StutterKeeps
    <1> QED BY <1>1, <1>2

-----------------------------------------------------------------------------
(* The theorems.                                                           *)

\* Where the driver is in its frames, what is on the bus, what the chip may change and
\* what the driver may rely on are the invariant above, through every call, bus wait,
\* reset and loss of power.
THEOREM Invariance == Spec => []IInv
    <1>1. Init => IInv
      BY InitEstablishes
    <1>2. IInv /\ [Next]_vars => IInv'
      BY NextKeeps
    <1> QED BY <1>1, <1>2, PTL DEF Spec

\* What a driver call has come to once it has returned.
LEMMA ReturnedFacts ==
    ASSUME IInv, call.at = "returned"
    PROVE  /\ stage = "end" /\ phase = "select"
           /\ call.op = "read" /\ call.ret = OK => Stored = call.len /\ done = call.len
    <1>1. CallInv /\ PhaseInv /\ CountInv
      BY DEF IInv, PlaceInv
    <1>2. stage = "end" /\ phase = "select"
      BY <1>1 DEF CallInv, PhaseInv
    <1> QED BY <1>1, <1>2 DEF CallInv, CountInv, Stored

\* The driver's variables, the FIFOs, the chip and the memory have their types: the
\* count of WaitReady never goes below zero, and neither FIFO holds more than its depth.
THEOREM TypeCorrect == Spec => []TypeOK
    <1>1. IInv => TypeOK
      BY DEF IInv
    <1> QED BY <1>1, Invariance, PTL

\* Whenever the flash map may call the driver the chip is idle, as long as no wait has
\* given up: Initialize fails on a chip that a reset has left busy, and ReadData and
\* EraseSector wait for its end.
THEOREM ChipIsReady == Spec => []Ready
    <1>1. IInv => Ready
      <2> SUFFICES ASSUME IInv, Up, InTime
                   PROVE  ~Busy
        BY DEF Ready
      <2>1. stage = "end" /\ call.op # "none"
        BY ReturnedFacts DEF Up, IInv, PlaceInv, CallInv
      <2>2. ~Issued
        BY <2>1 DEF Issued
      <2>3. BusyInv
        BY DEF IInv, TimelyInv
      <2> QED BY <2>1, <2>2, <2>3 DEF BusyInv, Up, OK, ERROR
    <1> QED BY <1>1, Invariance, PTL

\* An EraseSector that returns OK on a chip that is not protected has its sector erased:
\* the end that WaitReady saw is that of this very erase.
THEOREM ErasesAreDone == Spec => []EraseDone
    <1>1. IInv => EraseDone
      <2> SUFFICES ASSUME IInv, Returned("erase"), InTime, chip.sr1 = 0
                   PROVE  \A a \in Sector(call.addr) : mem[a] = 255
        BY DEF EraseDone
      <2>1. stage = "end" /\ call.op = "erase" /\ call.ret = OK
        BY ReturnedFacts DEF Returned
      <2>2. EraseInv
        BY DEF IInv, TimelyInv
      <2> QED BY <2>1, <2>2 DEF EraseInv, SectorErased
    <1> QED BY <1>1, Invariance, PTL

\* As long as no wait for the bus has given up, no byte changes but those of the sector
\* that an EraseSector names and of the pages that a ProgramData names, on a chip that
\* holds the device.
THEOREM CallsAreConfined ==
    ASSUME FlashSize <= ChipSize
    PROVE  Spec => []Confined
    <1>1. IInv => Confined
      <2> SUFFICES ASSUME IInv, ~hist.stuck
                   PROVE  \A a \in Cell : mem[a] # pre[a] => a \in owed
        BY DEF Confined
      <2>1. OwedInv
        BY DEF IInv
      <2> QED BY <2>1 DEF OwedInv
    <1> QED BY <1>1, Invariance, PTL

\* A ReadData that returns OK has stored as many bytes as it was asked for, and each is
\* the chip's byte at its address.
THEOREM ReadsAreExact == Spec => []ReadExact
    <1>1. IInv => ReadExact
      <2> SUFFICES ASSUME IInv, Returned("read"), InTime
                   PROVE  /\ Len(cpu.stored) = call.len
                          /\ \A k \in 1 .. Len(cpu.stored) :
                                call.addr + k <= ChipSize => cpu.stored[k] = mem[call.addr + k - 1]
        BY DEF ReadExact
      <2>1. call.op = "read" /\ call.ret = OK /\ Stored = call.len
        BY ReturnedFacts DEF Returned
      <2>2. ReadInv
        BY DEF IInv, TimelyInv
      <2> QED BY <2>1, <2>2 DEF ReadInv, Stored
    <1> QED BY <1>1, Invariance, PTL

\* Every call gives the bus back as it found it, with the chip deselected, both FIFOs
\* empty and the lines in single mode, and a quad read leaves the QE bit off.
THEOREM BusIsReleased == Spec => []BusReleased
    <1>1. IInv => BusReleased
      <2> SUFFICES ASSUME IInv, call.at = "returned", ~hist.stuck
                   PROVE  /\ ctl = NoTraffic
                          /\ QuadMode /\ Returned("read") /\ call.len > 0 /\ ~hist.slow => ~QE
        BY DEF BusReleased
      <2>1. stage = "end" /\ phase = "select" /\ SelectInv /\ RxInv
        BY ReturnedFacts DEF IInv, BusInv
      <2>2. ctl.ss = "high" /\ ctl.mode = "single" /\ ctl.tx = <<>> /\ ctl.rx = <<>>
        BY <2>1 DEF SelectInv, RxInv, Selected, Mode
      <2>3. ctl = NoTraffic
        <3>1. ctl \in Controls
          BY TypeParts DEF IInv
        <3> QED BY <2>2, <3>1 DEF Controls, NoTraffic
      <2>4. ASSUME QuadMode, Returned("read"), call.len > 0, ~hist.slow
            PROVE  ~QE
        <3>1. QEInv
          BY <2>4 DEF IInv, InTime, TimelyInv
        <3> QED BY <2>1, <2>4, <3>1 DEF QEInv, Returned
      <2> QED BY <2>3, <2>4
    <1> QED BY <1>1, Invariance, PTL

\* What a step does to the bits that protect the chip.
LEMMA ProtectionStep ==
    ASSUME IInv, [Next]_vars, ~hist'.stuck, ~hist'.cut
    PROVE  chip'.sr1 = chip.sr1 /\ chip'.sr2 \div 4 = chip.sr2 \div 4
    <1>1. TypesAndPlace /\ Executable(chip.todo) /\ hist \in Histories
      BY TypeParts DEF IInv, TypesAndPlace
    <1>2. CASE UNCHANGED vars
      BY <1>2 DEF vars
    <1>3. CASE Next
      <2>1. ~hist.stuck /\ BusInv
        BY <1>1, <1>3, StuckStays DEF IInv
      <2>2. CASE Initialize \/ Call
        BY <1>1, <2>2, BegunFacts
      <2>3. CASE Move
        BY <1>1, <2>3, MoveChip
      <2>4. CASE Release \/ Reset
        BY <1>1, <2>1, <2>4, Taking DEF Release, Reset, BusInv
      <2>5. CASE Shift
        BY <1>1, <2>1, <2>5, ShiftFacts DEF BusInv
      <2>6. CASE ChipStep
        <3>1. ChipEnds /\ hist' = hist
          BY <2>6 DEF ChipStep
        <3> QED BY <1>1, <2>1, <3>1, EndsKept DEF BusInv
      <2>7. CASE PowerLoss
        BY <1>1, <2>7, PowerFacts DEF PowerLoss, TypesAndPlace, TypeOK
      <2>8. CASE WaitGivesUp
        BY <1>1, <2>8, GiveUpPlace
      <2> QED BY <1>3, <2>2, <2>3, <2>4, <2>5, <2>6, <2>7, <2>8, NextCases
    <1> QED BY <1>2, <1>3

\* No step changes the protection bits, although a quad read writes both status registers
\* twice, unless a reset has cut such a write or a wait for the bus has given up.
THEOREM ProtectionIsKept == Spec => ProtectionKept
    <1>1. IInv /\ [Next]_vars =>
              [~hist'.stuck /\ ~hist'.cut =>
                 chip'.sr1 = chip.sr1 /\ chip'.sr2 \div 4 = chip.sr2 \div 4]_vars
      BY ProtectionStep
    <1> QED BY <1>1, Invariance, PTL DEF Spec, ProtectionKept
=============================================================================
