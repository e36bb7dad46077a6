-------------------------- MODULE SpimFlashProofs ---------------------------
(***************************************************************************)
(* Theorems about SpimFlash.                                               *)
(***************************************************************************)
EXTENDS SpimFlash, NorFlashProofs

-----------------------------------------------------------------------------
(* The inductive invariant.                                                *)

\* Which stages belong to which call.
StageOps ==
    /\ stage = "ReadID" => call.op = "init"
    /\ stage = "Read" => call.op = "read"
    /\ stage \in {"WriteEnable", "Enabled"} => call.op \in {"program", "erase"}
    /\ stage \in {"Program", "Programmed"} => call.op = "program"
    /\ stage \in {"Erase", "Erased"} => call.op = "erase"

\* The call that runs is one whose range was accepted, and has bytes left; a
\* call that ended well has none.
CallInv ==
    /\ StageOps
    /\ stage # "end" => call.at = "running" /\ call.ret = OK
    /\ stage = "end" => phase = "select"
    /\ call.op = "none" => stage = "end" /\ call.at = "none"
    /\ call.op = "init" => done = 0
    /\ call.op \in {"read", "program", "erase"} =>
          /\ call.at # "none"
          /\ call.ret # ERROR_PARAMETER => call.addr + call.len <= FlashSize
          /\ stage # "end" => done < call.len
          /\ stage = "end" /\ call.ret = OK => done >= call.len
          /\ call.op # "erase" => done <= call.len
    /\ call.op = "program" /\ stage # "end" => done % PageSize = 0
    /\ call.op = "erase" => done % SectorSize = 0

\* What the call may change is owed.
OwedInv ==
    stage # "end" =>
        /\ call.op = "program" => \A a \in Span(call.addr, call.len) : Page(a) \subseteq owed
        /\ call.op = "erase" => \A a \in Span(call.addr, call.len) : Sector(a) \subseteq owed

\* The chip has heard what was sent, unless it was busy when the id was asked for.
LostId == stage = "ReadID" /\ chip.frame # <<>> /\ chip.frame[1] = Lost
FrameInv ==
    /\ phase \in {"select", "next"} => chip.frame = <<>>
    /\ phase = "send" => sent <= Len(Out) /\ Len(chip.frame) = sent /\ mode = ModeOut
    /\ phase \in {"receive", "release"} => sent = Len(Out) /\ Len(chip.frame) >= sent
    /\ phase = "receive" => mode = ModeIn /\ (Polling \/ In > 0)
    /\ phase \in {"receive", "release"} /\ ~Polling =>
          Len(chip.frame) = sent + IF In > 0 THEN Len(bytes) - done ELSE 0
    /\ phase \in {"send", "receive", "release"} =>
          LostId \/ \A k \in 1 .. sent : chip.frame[k] = Out[k]

\* The bytes received: those of the pieces done and of the piece in hand.
CountInv ==
    call.op \in {"init", "read"} =>
        /\ phase \in {"select", "send"} /\ stage # "end" => Len(bytes) = done
        /\ phase = "receive" => done <= Len(bytes) /\ Len(bytes) < done + In
        /\ phase \in {"release", "next"} => Len(bytes) = done + In
        /\ call.op = "init" => Len(bytes) <= 3
        /\ call.op = "read" /\ stage = "end" /\ call.ret = OK => Len(bytes) = done

\* A command that the chip executes changes what is owed and nothing else.
Owes(f) ==
    \/ f = <<>>
    \/ IsErase(f) /\ Sector(AddressOf(f)) \subseteq owed
    \/ IsProgram(f) /\ Len(f) <= PageSize + 4 /\ Page(AddressOf(f)) \subseteq owed
TodoInv == Owes(chip.todo)

\* The chip has been given the command for the piece in hand.
Issued ==
    \/ stage \in {"Programmed", "Erased"}
    \/ stage \in {"Program", "Erase"} /\ phase = "next"

\* When the chip may be busy: after a reset, while its id is asked for in vain, and
\* while the driver waits for it.
BusyInv ==
    Busy =>
        \/ call.op = "none"
        \/ /\ stage = "ReadID"
           /\ chip.frame # <<>> => chip.frame[1] = Lost
           /\ \A k \in 1 .. Len(bytes) : bytes[k] = 255
        \/ call.op = "init" /\ stage = "end" /\ call.ret = ERROR
        \/ Issued /\ ~(Polling /\ phase \in {"release", "next"})

\* The chip is write enabled from the write enable to the command.
EnabledInv ==
    \/ stage = "WriteEnable" /\ phase = "next"
    \/ stage \in {"Enabled", "Program", "Erase"} /\ ~Issued
    => chip.wel

\* Whatever the driver reads comes from the chip.
ReadInv ==
    call.op = "read" /\ call.ret = OK =>
        \A k \in 1 .. Len(bytes) : bytes[k] = mem[call.addr + k - 1]

\* How far an erase has come.
ErasedTo(d) == \A a \in Cell : call.addr <= a /\ a < call.addr + d => mem[a] = 255
EraseInv ==
    call.op = "erase" /\ call.ret = OK /\ chip.sr1 = 0 /\ call.addr % SectorSize = 0 =>
        /\ ErasedTo(done)
        /\ Issued =>
              \/ IsErase(chip.todo) /\ AddressOf(chip.todo) = Addr
              \/ ~Busy /\ ErasedTo(done + SectorSize)

\* How far a program has come; a protected chip is noticed at the first piece.
ProgrammedTo(d) ==
    \A k \in 1 .. call.len :
        mem[call.addr + k - 1] =
            IF k <= d THEN BitAnd(pre[call.addr + k - 1], Source[k]) ELSE pre[call.addr + k - 1]
ProgramInv ==
    call.op = "program" /\ call.ret = OK =>
        /\ chip.sr1 # 0 => done = 0
        /\ stage = "Programmed" /\ phase \in {"release", "next"} /\ chip.sr1 # 0 => status # 0
        /\ chip.sr1 = 0 /\ FitsPages(call.addr, call.len) =>
              IF Issued
              THEN \/ /\ ProgrammedTo(done)
                      /\ IsProgram(chip.todo) /\ AddressOf(chip.todo) = Addr
                      /\ Len(chip.todo) = 4 + Piece
                      /\ \A k \in 1 .. Piece : chip.todo[4 + k] = Source[done + k]
                   \/ ~Busy /\ ProgrammedTo(done + Piece)
              ELSE ProgrammedTo(done)

IInv ==
    /\ TypeOK /\ CallInv /\ OwedInv /\ FrameInv /\ CountInv
    /\ TodoInv /\ BusyInv /\ EnabledInv
    /\ ReadInv /\ EraseInv /\ ProgramInv
    /\ Confined

-----------------------------------------------------------------------------
(* The frames of a call.                                                   *)

LEMMA Constants ==
    /\ FlashSize \in Nat \ {0} /\ FlashSize <= ChipSize /\ ChipSize \in Nat \ {0}
    /\ PageSize \in Nat \ {0} /\ SectorSize \in Nat \ {0} /\ EraseSize \in Nat \ {0}
    /\ EraseSize % SectorSize = 0
    /\ MaxFrame \in Nat /\ MaxFrame >= PageSize + 4 /\ MaxFrame >= 5
    BY ChipFacts, SpimAssumption

\* While a range is worked on, the piece in hand begins in the range, and those of
\* a read or a program end in it.
LEMMA PieceFacts ==
    ASSUME TypeOK, CallInv, stage # "end", call.op # "init"
    PROVE  /\ Addr \in Cell /\ Addr \in Span(call.addr, call.len) /\ Addr < FlashSize
           /\ Addr = call.addr + done
           /\ Piece \in Nat \ {0}
           /\ call.op = "erase" => Piece = SectorSize
           /\ call.op \in {"read", "program"} =>
                 /\ Piece <= PageSize /\ done + Piece <= call.len
                 /\ done + Piece < call.len => Piece = PageSize
    <1>1. call.op \in {"read", "program", "erase"}
      BY DEF TypeOK, CallInv
    <1>2. call.addr \in Nat /\ call.len \in Nat /\ done \in Nat
      BY DEF TypeOK
    <1>3. call.addr + call.len <= FlashSize /\ done < call.len
      BY <1>1 DEF CallInv, OK, ERROR_PARAMETER
    <1>4. Addr \in Cell /\ Addr \in Span(call.addr, call.len) /\ Addr < FlashSize
      BY <1>2, <1>3, Constants DEF Addr, Cell, Span
    <1>5. CASE call.op = "erase"
      BY <1>4, <1>5, Constants DEF Piece, Addr
    <1>6. CASE call.op # "erase"
      BY <1>2, <1>3, <1>4, <1>6, Constants DEF Piece, Addr
    <1> QED BY <1>5, <1>6

LEMMA OutFacts ==
    ASSUME TypeOK, CallInv, stage # "end"
    PROVE  /\ Out \in Seq(Byte) /\ Len(Out) \in 1 .. MaxFrame
           /\ stage = "ReadID" => Out = <<JEDEC_ID>>
           /\ stage = "WriteEnable" => Out = <<WRITE_ENABLE>>
           /\ Polling => Out = <<READ_STATUS>>
           /\ stage = "Read" => Len(Out) = 4 /\ Out[1] = READ /\ AddressOf(Out) = Addr
           /\ stage = "Erase" => IsErase(Out) /\ AddressOf(Out) = Addr
           /\ stage = "Program" =>
                 /\ IsProgram(Out) /\ AddressOf(Out) = Addr /\ Len(Out) = 4 + Piece
                 /\ \A k \in 1 .. Piece : Out[4 + k] = Source[done + k]
    <1>1. stage \in {"ReadID", "Read", "WriteEnable", "Enabled", "Program", "Programmed",
                     "Erase", "Erased"}
      BY DEF TypeOK
    <1>2. \A b \in {JEDEC_ID, READ, WRITE_ENABLE, READ_STATUS, PAGE_PROGRAM, SECTOR_ERASE} :
             b \in Byte
      BY DEF JEDEC_ID, READ, WRITE_ENABLE, READ_STATUS, PAGE_PROGRAM, SECTOR_ERASE, Byte
    <1>3. \A b \in Byte : <<b>> \in Seq(Byte) /\ Len(<<b>>) = 1
      OBVIOUS
    <1>4. ASSUME NEW b \in Byte, call.op # "init"
          PROVE  LET f == <<b>> \o Digits(Addr)
                 IN  f \in Seq(Byte) /\ Len(f) = 4 /\ f[1] = b /\ AddressOf(f) = Addr
      <2>1. Addr \in Cell /\ Addr \in Nat
        BY <1>4, PieceFacts DEF Cell
      <2> QED BY <2>1, <1>4, CommandFacts
    <1>5. CASE stage = "ReadID"
      BY <1>2, <1>3, <1>5, Constants DEF Out, Polling
    <1>6. CASE stage = "WriteEnable"
      BY <1>2, <1>3, <1>6, Constants DEF Out, Polling
    <1>7. CASE Polling
      BY <1>2, <1>3, <1>7, Constants DEF Out, Polling
    <1>8. CASE stage = "Read"
      <2>1. Out = <<READ>> \o Digits(Addr)
        BY <1>8 DEF Out, Polling
      <2>2. call.op # "init"
        BY <1>8 DEF CallInv, StageOps
      <2> QED BY <2>1, <2>2, <1>2, <1>4, <1>8, Constants DEF Polling
    <1>9. CASE stage = "Erase"
      <2>1. Out = <<SECTOR_ERASE>> \o Digits(Addr)
        BY <1>9 DEF Out, Polling
      <2>2. call.op # "init"
        BY <1>9 DEF CallInv, StageOps
      <2> QED BY <2>1, <2>2, <1>2, <1>4, <1>9, Constants DEF Polling, IsErase
    <1>10. CASE stage = "Program"
      <2> DEFINE f == <<PAGE_PROGRAM>> \o Digits(Addr)
                 g == SubSeq(Source, done + 1, done + Piece)
      <2>1. call.op = "program"
        BY <1>10 DEF CallInv, StageOps
      <2>2. f \in Seq(Byte) /\ Len(f) = 4 /\ f[1] = PAGE_PROGRAM /\ AddressOf(f) = Addr
        BY <2>1, <1>2, <1>4
      <2>3. Piece \in Nat \ {0} /\ Piece <= PageSize /\ done \in Nat /\ done + Piece <= call.len
        BY <2>1, <1>10, PieceFacts DEF TypeOK
      <2>4. call.len <= FlashSize
        BY <2>1, <1>10, Constants DEF CallInv, TypeOK, OK, ERROR_PARAMETER
      <2>5. Source \in Seq(Byte) /\ done + Piece <= Len(Source)
        BY <2>3, <2>4, Constants, SpimAssumption DEF TypeOK
      <2>6. g \in Seq(Byte) /\ Len(g) = Piece /\ \A k \in 1 .. Piece : g[k] = Source[done + k]
        BY <2>3, <2>5
      <2>7. Out = f \o g
        BY <1>10 DEF Out, Polling
      <2> HIDE DEF f, g
      <2>8. /\ f \o g \in Seq(Byte) /\ Len(f \o g) = 4 + Piece
            /\ (f \o g)[1] = f[1] /\ (f \o g)[2] = f[2] /\ (f \o g)[3] = f[3] /\ (f \o g)[4] = f[4]
            /\ \A k \in 1 .. Piece : (f \o g)[4 + k] = g[k]
        <3>1. /\ f \o g \in Seq(Byte) /\ Len(f \o g) = Len(f) + Len(g)
              /\ \A i \in 1 .. Len(f) : (f \o g)[i] = f[i]
              /\ \A i \in 1 .. Len(g) : (f \o g)[Len(f) + i] = g[i]
          BY <2>2, <2>6, Joined
        <3>2. /\ Len(f \o g) = 4 + Piece
              /\ \A i \in 1 .. 4 : (f \o g)[i] = f[i]
              /\ \A i \in 1 .. Piece : (f \o g)[4 + i] = g[i]
          BY <3>1, <2>2, <2>6
        <3>3. \A h : (\A i \in 1 .. 4 : h[i] = f[i])
                        => h[1] = f[1] /\ h[2] = f[2] /\ h[3] = f[3] /\ h[4] = f[4]
          OBVIOUS
        <3> QED BY <3>1, <3>2, <3>3, Zenon
      <2> HIDE DEF Out
      <2>9. AddressOf(Out) = Addr
        BY <2>2, <2>7, <2>8 DEF AddressOf
      <2>10. Len(Out) \in 5 .. MaxFrame
        BY <2>3, <2>7, <2>8, Constants
      <2> QED BY <1>10, <2>2, <2>6, <2>7, <2>8, <2>9, <2>10, Constants DEF Polling, IsProgram
    <1> QED BY <1>1, <1>5, <1>6, <1>7, <1>8, <1>9, <1>10 DEF Polling

\* What the chip has heard of the frame under way.
LEMMA FrameHead ==
    ASSUME TypeOK, CallInv, FrameInv, chip.frame # <<>>
    PROVE  /\ stage # "end" /\ phase \in {"send", "receive", "release"}
           /\ sent \in 1 .. Len(Out) /\ Len(chip.frame) >= sent
           /\ \/ stage = "ReadID" /\ chip.frame[1] = Lost
              \/ chip.frame[1] = Out[1] /\ \A k \in 1 .. sent : chip.frame[k] = Out[k]
    <1>1. phase \in {"send", "receive", "release"} /\ stage # "end"
      BY DEF TypeOK, FrameInv, CallInv
    <1>2. Len(Out) \in Nat \ {0} /\ sent \in Nat
      BY <1>1, OutFacts, Constants DEF TypeOK
    <1>3. Len(chip.frame) \in Nat \ {0}
      BY EmptySeq DEF TypeOK, ChipTypeOK
    <1>4. sent \in 1 .. Len(Out) /\ Len(chip.frame) >= sent
      BY <1>1, <1>2, <1>3 DEF FrameInv
    <1>5. 1 \in 1 .. sent
      BY <1>2, <1>4
    <1> QED BY <1>1, <1>4, <1>5 DEF FrameInv, LostId

\* The first byte of a frame tells what the driver is doing.
LEMMA Commands ==
    ASSUME TypeOK, CallInv, stage # "end"
    PROVE  /\ Out[1] \notin {WRITE_STATUS, Lost}
           /\ Out[1] = SECTOR_ERASE => stage = "Erase"
           /\ Out[1] = PAGE_PROGRAM => stage = "Program"
           /\ Out[1] = WRITE_ENABLE => stage = "WriteEnable"
    <1>1. stage \in {"ReadID", "Read", "WriteEnable", "Program", "Erase"} \/ Polling
      BY DEF TypeOK, Polling
    <1>2. Out[1] = CASE stage = "ReadID" -> JEDEC_ID
                     [] stage = "Read" -> READ
                     [] stage = "WriteEnable" -> WRITE_ENABLE
                     [] stage = "Program" -> PAGE_PROGRAM
                     [] stage = "Erase" -> SECTOR_ERASE
                     [] OTHER -> READ_STATUS
      <2>1. \A b : <<b>>[1] = b
        OBVIOUS
      <2> QED BY <1>1, <2>1, OutFacts DEF Polling, IsErase, IsProgram
    <1> QED BY <1>1, <1>2
            DEF WRITE_STATUS, Lost, JEDEC_ID, READ, WRITE_ENABLE, READ_STATUS, PAGE_PROGRAM,
                SECTOR_ERASE, Polling

\* Wherever the frame is cut off, a command that it happens to be is one whose
\* effect is owed; and it is no write of the status registers.
LEMMA FrameOwes ==
    ASSUME TypeOK, CallInv, OwedInv, FrameInv
    PROVE  /\ chip.frame \in Seq(Byte)
           /\ chip.frame = <<>> \/ chip.frame[1] # WRITE_STATUS
           /\ IsErase(chip.frame) \/ IsProgram(chip.frame) =>
                 /\ Owes(chip.frame) /\ AddressOf(chip.frame) = Addr
                 /\ stage \in {"Erase", "Program"}
                 /\ \A k \in 1 .. sent : chip.frame[k] = Out[k]
           /\ IsErase(chip.frame) => stage = "Erase"
           /\ IsProgram(chip.frame) => stage = "Program"
    <1> DEFINE f == chip.frame
    <1>1. f \in Seq(Byte) /\ Len(f) \in Nat
      BY DEF TypeOK, ChipTypeOK
    <1>2. f = <<>> \/ f[1] # WRITE_STATUS
      BY FrameHead, Commands DEF Lost, WRITE_STATUS
    <1>3. ASSUME IsErase(f) \/ IsProgram(f)
          PROVE  /\ Owes(f) /\ AddressOf(f) = Addr /\ stage \in {"Erase", "Program"}
                 /\ \A k \in 1 .. sent : f[k] = Out[k]
                 /\ IsErase(f) => stage = "Erase"
                 /\ IsProgram(f) => stage = "Program"
      <2>1. Len(f) >= 4 /\ f[1] \in {SECTOR_ERASE, PAGE_PROGRAM} /\ f # <<>>
        <3>1. Len(f) # 0 /\ Len(f) >= 4 /\ f[1] \in {SECTOR_ERASE, PAGE_PROGRAM}
          <4> HIDE DEF f
          <4>1. CASE IsErase(f)
            BY <4>1 DEF IsErase
          <4>2. CASE IsProgram(f)
            BY <4>2, Constants DEF IsProgram
          <4> QED BY <1>3, <4>1, <4>2
        <3>2. Len(<<>>) = 0
          OBVIOUS
        <3> QED BY <3>1, <3>2
      <2>2. /\ stage # "end" /\ sent \in 1 .. Len(Out) /\ Len(f) >= sent
            /\ f[1] = Out[1] /\ \A k \in 1 .. sent : f[k] = Out[k]
        BY <2>1, FrameHead DEF Lost, SECTOR_ERASE, PAGE_PROGRAM
      <2>3. /\ stage \in {"Erase", "Program"}
            /\ IsErase(f) => stage = "Erase"
            /\ IsProgram(f) => stage = "Program"
        BY <2>1, <2>2, Commands DEF IsErase, IsProgram, SECTOR_ERASE, PAGE_PROGRAM
      <2>4. Len(f) = sent /\ sent \in Nat /\ ~Polling /\ In = 0
        <3>1. ~Polling /\ In = 0
          BY <2>3 DEF Polling, In
        <3> QED BY <3>1, <2>1, <2>2, <1>1, FrameHead DEF FrameInv, TypeOK
      <2>5. AddressOf(f) = AddressOf(Out)
        BY <2>1, <2>2, <2>4, SameAddress
      <2>6. AddressOf(Out) = Addr
        BY <2>2, <2>3, OutFacts
      <2>7. Addr \in Span(call.addr, call.len)
        BY <2>2, <2>3, PieceFacts DEF CallInv, StageOps
      <2>8. CASE IsErase(f)
        <3>1. Sector(Addr) \subseteq owed
          BY <2>2, <2>3, <2>7, <2>8 DEF OwedInv, CallInv, StageOps
        <3> QED BY <3>1, <2>2, <2>3, <2>5, <2>6, <2>8 DEF Owes
      <2>9. CASE IsProgram(f)
        <3>1. stage = "Program" /\ call.op = "program"
          BY <2>3, <2>9 DEF CallInv, StageOps
        <3>2. Page(Addr) \subseteq owed
          BY <3>1, <2>7 DEF OwedInv
        <3>3. Len(f) <= PageSize + 4
          <4>1. Piece \in Nat /\ Piece <= PageSize
            BY <3>1, PieceFacts
          <4>2. Len(Out) = 4 + Piece
            BY <3>1, OutFacts
          <4> QED BY <4>1, <4>2, <2>2, <2>4, Constants
        <3> QED BY <3>2, <3>3, <2>2, <2>3, <2>5, <2>6, <2>9 DEF Owes
      <2> QED BY <1>3, <2>8, <2>9
    <1> QED BY <1>1, <1>2, <1>3

-----------------------------------------------------------------------------
(* The invariant holds at first, and every step keeps it.                  *)

LEMMA InitEstablishes ==
    ASSUME Init
    PROVE  IInv
    <1> USE DEF Init, NoCall
    <1>1. ChipTypeOK
      <2>1. PICK p \in Protection, id \in ChipIds :
               chip = [frame |-> <<>>, todo |-> <<>>, wel |-> FALSE, sr1 |-> p[1], sr2 |-> p[2],
                       id |-> id]
        BY DEF ChipInit
      <2>2. p[1] \in {0, 4} /\ p[2] \in {0, 4}
        BY NorAssumption
      <2>3. mem \in [Cell -> Byte]
        BY NorAssumption DEF ChipInit
      <2>4. <<>> \in Seq(Byte)
        OBVIOUS
      <2> QED BY <2>1, <2>2, <2>3, <2>4 DEF ChipTypeOK
    <1>2. chip.frame = <<>> /\ chip.todo = <<>> /\ ~Busy
      BY DEF ChipInit, Busy
    <1>3. TypeOK
      <2>1. <<>> \in Seq(Byte) /\ Len(<<>>) = 0
        OBVIOUS
      <2>2. pre \in [Cell -> Byte]
        BY <1>1 DEF ChipTypeOK
      <2> QED BY <1>1, <2>1, <2>2, SpimAssumption DEF TypeOK, Byte, OK, ERROR, ERROR_PARAMETER
    <1>4. CallInv
      BY DEF CallInv, StageOps
    <1>5. OwedInv /\ FrameInv /\ CountInv /\ TodoInv /\ BusyInv /\ EnabledInv
      BY <1>2 DEF OwedInv, FrameInv, CountInv, TodoInv, Owes, BusyInv, EnabledInv, Polling, Issued
    <1>6. ReadInv /\ EraseInv /\ ProgramInv /\ Confined
      BY DEF ReadInv, EraseInv, ProgramInv, Confined
    <1> QED BY <1>3, <1>4, <1>5, <1>6 DEF IInv

\* A step that leaves everything the invariant speaks of.
LEMMA StutterKeeps ==
    ASSUME IInv, UNCHANGED vars
    PROVE  IInv'
    <1> USE DEF vars, place, request
    <1>1. (TypeOK /\ CallInv /\ OwedInv)'
      BY DEF IInv, TypeOK, ChipTypeOK, CallInv, StageOps, OwedInv, Span
    <1>2. (FrameInv /\ CountInv)'
      <2>1. /\ Out' = Out /\ In' = In /\ Polling' = Polling /\ LostId' = LostId
            /\ ModeOut' = ModeOut /\ ModeIn' = ModeIn
        BY DEF Out, In, Polling, LostId, ModeOut, ModeIn, Piece, Addr
      <2> QED BY <2>1 DEF IInv, FrameInv, CountInv
    <1>3. (TodoInv /\ BusyInv /\ EnabledInv)'
      BY DEF IInv, TodoInv, Owes, BusyInv, EnabledInv, Busy, Issued, Polling
    <1>4. (ReadInv /\ EraseInv /\ ProgramInv /\ Confined)'
      BY DEF IInv, ReadInv, EraseInv, ProgramInv, Confined, ErasedTo, ProgrammedTo, Issued, Piece,
             Addr, Busy
    <1> QED BY <1>1, <1>2, <1>3, <1>4 DEF IInv

LEMMA SelectKeeps ==
    ASSUME IInv, Select
    PROVE  IInv'
    <1> USE DEF request
    <1>1. TypeOK'
      BY DEF IInv, TypeOK, ChipTypeOK, Select, ModeOut
    <1>2. (CallInv /\ OwedInv)'
      BY DEF IInv, CallInv, StageOps, OwedInv, Span, Select
    <1>3. FrameInv'
      <2>1. Len(Out) \in Nat /\ Out' = Out
        BY OutFacts, Constants DEF IInv, Select, Out, Polling, Addr, Piece
      <2>2. chip.frame = <<>> /\ Len(<<>>) = 0
        BY DEF IInv, FrameInv, Select
      <2>3. mode' = ModeOut'
        BY DEF Select, ModeOut
      <2>4. chip' = chip /\ phase' = "send" /\ sent' = 0
        BY DEF Select
      <2> QED BY <2>1, <2>2, <2>3, <2>4 DEF FrameInv
    <1>4. CountInv'
      BY DEF IInv, CountInv, Select
    <1>5. (TodoInv /\ BusyInv /\ EnabledInv)'
      BY DEF IInv, TodoInv, Owes, BusyInv, EnabledInv, Busy, Issued, Polling, Select
    <1>6. (ReadInv /\ EraseInv /\ Confined)'
      BY DEF IInv, ReadInv, EraseInv, Confined, ErasedTo, Issued, Addr, Busy, Select
    <1>7. ProgramInv'
      BY DEF IInv, ProgramInv, ProgrammedTo, Issued, Piece, Addr, Busy, Select
    <1> QED BY <1>1, <1>2, <1>3, <1>4, <1>5, <1>6, <1>7 DEF IInv

LEMMA SendByteKeeps ==
    ASSUME IInv, SendByte
    PROVE  IInv'
    <1> USE DEF request
    <1> DEFINE h == Heard(Out[sent + 1], TRUE)
    <1>1. stage # "end" /\ phase = "send" /\ mode = ModeOut /\ Len(chip.frame) = sent
            /\ sent \in Nat
      BY DEF IInv, SendByte, CallInv, FrameInv, TypeOK
    <1>2. Out \in Seq(Byte) /\ Len(Out) \in 1 .. MaxFrame /\ sent + 1 \in 1 .. Len(Out)
      BY <1>1, OutFacts DEF IInv, SendByte
    <1>3. Out[sent + 1] \in Byte
      BY <1>2, ElementOfSeq
    <1>4. chip' = [chip EXCEPT !.frame = h] /\ sent' = sent + 1 /\ phase' = "send"
            /\ UNCHANGED <<stage, done, status, bytes, mode, mem, call, calls, pre, owed, resets>>
      BY <1>1 DEF SendByte, Transfer
    <1>5. chip.frame \in Seq(Byte) /\ chip \in [frame : Seq(Byte), todo : Seq(Byte), wel : BOOLEAN,
              sr1 : {0, 4}, sr2 : {0, 2, 4, 6}, id : ChipIds]
      BY DEF IInv, TypeOK, ChipTypeOK
    <1>6. /\ h \in Seq(Byte)
          /\ chip.frame = <<>> /\ Busy /\ Out[sent + 1] \notin {READ_STATUS, READ_STATUS2} =>
                h = <<Lost>>
          /\ ~(chip.frame = <<>> /\ Busy /\ Out[sent + 1] \notin {READ_STATUS, READ_STATUS2}) =>
                h = Append(chip.frame, Out[sent + 1])
      <2>1. Len(chip.frame) < MaxFrame
        BY <1>1, <1>2, Constants
      <2> QED BY <2>1, <1>3, <1>5, HeardFacts
    <1> HIDE DEF h
    <1>7. /\ chip'.frame = h /\ chip'.todo = chip.todo /\ chip'.wel = chip.wel /\ chip'.sr1 = chip.sr1
          /\ chip' \in [frame : Seq(Byte), todo : Seq(Byte), wel : BOOLEAN,
                        sr1 : {0, 4}, sr2 : {0, 2, 4, 6}, id : ChipIds]
      BY <1>4, <1>5, <1>6
    <1>8. /\ Out' = Out /\ In' = In /\ Polling' = Polling /\ ModeOut' = ModeOut /\ Addr' = Addr
          /\ Piece' = Piece /\ Busy' = Busy /\ Issued' = Issued
      BY <1>1, <1>4, <1>7 DEF Out, In, Polling, ModeOut, Piece, Addr, Busy, Issued
    <1>9. ASSUME h = <<Lost>>, chip.frame = <<>>, Busy,
                 Out[sent + 1] \notin {READ_STATUS, READ_STATUS2}
          PROVE  (FrameInv /\ BusyInv)'
      <2>1. sent = 0 /\ stage = "ReadID"
        <3>1. sent = 0
          BY <1>1, <1>9, EmptySeq
        <3>2. Out[1] # READ_STATUS
          BY <3>1, <1>9
        <3>3. ~Polling
          BY <3>2, <1>1, OutFacts DEF IInv
        <3> QED BY <3>1, <3>3, <1>1, <1>9 DEF IInv, BusyInv, CallInv, Issued, Polling
      <2>2. LostId' /\ Len(h) = 1 /\ h[1] = Lost
        BY <2>1, <1>4, <1>7, <1>9 DEF LostId
      <2>3. FrameInv'
        BY <2>1, <2>2, <1>1, <1>2, <1>4, <1>7, <1>8 DEF FrameInv, Polling
      <2>4. BusyInv'
        <3>1. \A k \in 1 .. Len(bytes) : bytes[k] = 255
          BY <2>1, <1>9 DEF IInv, BusyInv, CallInv, StageOps, Issued
        <3> QED BY <3>1, <2>1, <2>2, <1>4, <1>7 DEF BusyInv
      <2> QED BY <2>3, <2>4
    <1>10. ASSUME h = Append(chip.frame, Out[sent + 1]),
                  ~(chip.frame = <<>> /\ Busy /\ Out[sent + 1] \notin {READ_STATUS, READ_STATUS2})
           PROVE  (FrameInv /\ BusyInv)'
      <2>1. Len(h) = sent + 1 /\ h[sent + 1] = Out[sent + 1]
              /\ \A k \in 1 .. sent : h[k] = chip.frame[k]
        BY <1>1, <1>3, <1>5, <1>10
      <2>2. LostId => LostId'
        <3>1. chip.frame # <<>> => sent >= 1
          BY <1>1, <1>5, EmptySeq
        <3>2. h # <<>>
          BY <2>1, <1>1, EmptySeq
        <3>3. LostId => h[1] = Lost
          BY <2>1, <3>1, <1>1 DEF LostId
        <3> QED BY <3>2, <3>3, <1>4, <1>7 DEF LostId
      <2>3. LostId' \/ \A k \in 1 .. sent' : chip'.frame[k] = Out'[k]
        <3>1. CASE LostId
          BY <3>1, <2>2
        <3>2. CASE \A k \in 1 .. sent : chip.frame[k] = Out[k]
          BY <3>2, <2>1, <1>1, <1>4, <1>7, <1>8
        <3> QED BY <3>1, <3>2, <1>1 DEF IInv, FrameInv
      <2>4. FrameInv'
        <3>1. sent' <= Len(Out') /\ Len(chip'.frame) = sent' /\ mode' = ModeOut'
          BY <2>1, <1>1, <1>2, <1>4, <1>7, <1>8
        <3> QED BY <3>1, <2>3, <1>4 DEF FrameInv
      <2>5. BusyInv'
        <3>1. CASE stage = "ReadID" /\ Busy
          <4>1. chip.frame # <<>>
            <5>1. chip.frame = <<>> => sent = 0
              BY <1>1, EmptySeq
            <5>2. chip.frame = <<>> => Out[sent + 1] = JEDEC_ID
              BY <5>1, <3>1, <1>1, OutFacts DEF IInv
            <5> QED BY <5>2, <3>1, <1>10 DEF JEDEC_ID, READ_STATUS, READ_STATUS2
          <4>2. chip.frame[1] = Lost /\ \A k \in 1 .. Len(bytes) : bytes[k] = 255
            BY <3>1, <4>1 DEF IInv, BusyInv, CallInv, StageOps, Issued
          <4>3. sent >= 1
            BY <4>1, <1>1, <1>5, EmptySeq
          <4>4. h[1] = Lost
            BY <4>2, <4>3, <2>1, <1>1
          <4> QED BY <4>2, <4>4, <3>1, <1>4, <1>7 DEF BusyInv
        <3>2. CASE stage # "ReadID" /\ Busy
          BY <3>2, <1>1, <1>4, <1>7, <1>8 DEF IInv, BusyInv
        <3>3. CASE ~Busy
          BY <3>3, <1>8 DEF BusyInv
        <3> QED BY <3>1, <3>2, <3>3
      <2> QED BY <2>4, <2>5
    <1>11. (FrameInv /\ BusyInv)'
      BY <1>6, <1>9, <1>10
    <1>12. TypeOK'
      BY <1>1, <1>4, <1>7 DEF IInv, TypeOK, ChipTypeOK
    <1>13. (CallInv /\ OwedInv)'
      BY <1>1, <1>4 DEF IInv, CallInv, StageOps, OwedInv, Span
    <1>14. (CountInv /\ TodoInv /\ EnabledInv)'
      BY <1>1, <1>4, <1>7, <1>8 DEF IInv, CountInv, TodoInv, Owes, EnabledInv
    <1>15. (ReadInv /\ EraseInv /\ Confined)'
      BY <1>1, <1>4, <1>7, <1>8 DEF IInv, ReadInv, EraseInv, Confined, ErasedTo
    <1>16. ProgramInv'
      BY <1>1, <1>4, <1>7, <1>8 DEF IInv, ProgramInv, ProgrammedTo
    <1> QED BY <1>11, <1>12, <1>13, <1>14, <1>15, <1>16 DEF IInv

LEMMA TurnKeeps ==
    ASSUME IInv, Turn
    PROVE  IInv'
    <1> USE DEF request
    <1>1. stage # "end" /\ phase = "send" /\ sent = Len(Out) /\ Len(chip.frame) = sent
      BY DEF IInv, Turn, CallInv, FrameInv
    <1>2. /\ phase' \in {"receive", "release"}
          /\ phase' = "receive" => mode' = ModeIn /\ (Polling \/ In > 0)
          /\ phase' = "release" => ~Polling /\ ~(In > 0) /\ mode' = mode
          /\ UNCHANGED <<stage, sent, done, status, bytes, chip, mem, call, calls, pre, owed, resets>>
      BY DEF Turn
    <1>3. call.op \in {"init", "read"} => stage \in {"ReadID", "Read"} /\ Len(bytes) = done
      BY <1>1 DEF IInv, CallInv, StageOps, CountInv, TypeOK
    <1>4. stage \in {"ReadID", "Read"} => In \in Nat \ {0} /\ ~Polling /\ call.op \in {"init", "read"}
      <2>1. CASE stage = "ReadID"
        BY <2>1 DEF IInv, In, Polling, CallInv, StageOps
      <2>2. CASE stage = "Read"
        BY <2>2, PieceFacts DEF IInv, In, Polling, CallInv, StageOps
      <2> QED BY <2>1, <2>2
    <1>5. stage \notin {"ReadID", "Read"} => In = 0
      BY DEF In
    <1>6. /\ Out' = Out /\ In' = In /\ Polling' = Polling /\ LostId' = LostId
          /\ ModeIn' = ModeIn /\ Addr' = Addr /\ Piece' = Piece /\ Busy' = Busy /\ Issued' = Issued
      BY <1>1, <1>2 DEF Out, In, Polling, LostId, ModeIn, Piece, Addr, Busy, Issued
    <1>7. TypeOK'
      BY <1>2 DEF IInv, TypeOK, ChipTypeOK, ModeIn
    <1>8. (CallInv /\ OwedInv)'
      BY <1>1, <1>2 DEF IInv, CallInv, StageOps, OwedInv, Span
    <1>9. CountInv'
      <2>1. done \in Nat
        BY DEF IInv, TypeOK
      <2> QED BY <2>1, <1>1, <1>2, <1>3, <1>4, <1>6 DEF IInv, CountInv
    <1>10. FrameInv'
      <2>1. sent \in Nat /\ Len(chip.frame) = sent /\ done \in Nat
        BY <1>1 DEF IInv, TypeOK
      <2>2. ~Polling => Len(chip.frame) = sent + IF In > 0 THEN Len(bytes) - done ELSE 0
        BY <2>1, <1>3, <1>4, <1>5
      <2>3. LostId \/ \A k \in 1 .. sent : chip.frame[k] = Out[k]
        BY <1>1 DEF IInv, FrameInv
      <2> HIDE DEF LostId, Out, In, Polling, ModeIn
      <2> QED BY <2>1, <2>2, <2>3, <1>1, <1>2, <1>6 DEF FrameInv
    <1>11. (TodoInv /\ BusyInv /\ EnabledInv)'
      BY <1>1, <1>2, <1>6 DEF IInv, TodoInv, Owes, BusyInv, EnabledInv
    <1>12. (ReadInv /\ EraseInv /\ Confined)'
      BY <1>2, <1>6 DEF IInv, ReadInv, EraseInv, Confined, ErasedTo
    <1>13. ProgramInv'
      <2>1. ~(stage = "Programmed" /\ phase' = "release")
        BY <1>2 DEF Polling
      <2> QED BY <2>1, <1>1, <1>2, <1>6 DEF IInv, ProgramInv, ProgrammedTo
    <1> QED BY <1>7, <1>8, <1>9, <1>10, <1>11, <1>12, <1>13 DEF IInv

LEMMA GetByteKeeps ==
    ASSUME IInv, GetByte
    PROVE  IInv'
    <1> USE DEF request
    <1> DEFINE h == Heard(0, TRUE)
               b == Answer(h)
               T == [frame : Seq(Byte), todo : Seq(Byte), wel : BOOLEAN,
                     sr1 : {0, 4}, sr2 : {0, 2, 4, 6}, id : ChipIds]
    <1>1. /\ stage # "end" /\ phase = "receive" /\ ~Polling /\ In > 0 /\ mode = ModeIn
          /\ sent = Len(Out) /\ Len(chip.frame) = sent + (Len(bytes) - done)
      BY DEF IInv, GetByte, CallInv, FrameInv
    <1>2. stage \in {"ReadID", "Read"}
      BY <1>1 DEF In
    <1>4. /\ stage = "ReadID" => call.op = "init" /\ In = 3 /\ done = 0 /\ sent = 1
          /\ stage = "Read" => call.op = "read" /\ In = Piece /\ Piece \in Nat \ {0}
                                  /\ Piece <= PageSize /\ done + Piece <= call.len /\ sent = 4
      <2>1. CASE stage = "ReadID"
        BY <2>1, <1>1, OutFacts DEF IInv, In, CallInv, StageOps
      <2>2. CASE stage = "Read"
        BY <2>2, <1>1, OutFacts, PieceFacts DEF IInv, In, CallInv, StageOps
      <2> QED BY <1>2, <2>1, <2>2
    <1>5. done \in Nat /\ bytes \in Seq(Byte) /\ Len(bytes) \in Nat /\ done <= Len(bytes)
            /\ Len(bytes) < done + In /\ In \in Nat
      BY <1>1, <1>2, <1>4 DEF IInv, CountInv, TypeOK
    <1>6. chip.frame \in Seq(Byte) /\ chip \in T
      BY DEF IInv, TypeOK, ChipTypeOK
    <1>7. Len(chip.frame) < MaxFrame /\ Len(chip.frame) \in Nat \ {0} /\ chip.frame # <<>>
            /\ sent \in Nat \ {0} /\ sent <= Len(chip.frame)
      <2>1. Len(chip.frame) < MaxFrame /\ Len(chip.frame) \in Nat \ {0} /\ sent \in Nat \ {0}
              /\ sent <= Len(chip.frame)
        <3> DEFINE n == Len(chip.frame)
        <3>1. n \in Nat
          BY <1>6
        <3> QED BY <1>1, <1>2, <1>4, <1>5, <3>1, Constants
      <2> QED BY <2>1, EmptySeq
    <1>8. h = Append(chip.frame, 0) /\ h \in Seq(Byte) /\ Len(h) = Len(chip.frame) + 1
            /\ \A k \in 1 .. Len(chip.frame) : h[k] = chip.frame[k]
      <2>1. 0 \in Byte
        BY DEF Byte
      <2>2. h = Append(chip.frame, 0)
        BY <2>1, <1>6, <1>7, HeardFacts
      <2> HIDE DEF h
      <2> QED BY <2>1, <2>2, <1>6
    <1> HIDE DEF h
    <1>9. b \in Byte
      <2>1. Len(h) > 0
        BY <1>7, <1>8
      <2>2. ChipTypeOK
        BY DEF IInv, TypeOK
      <2> QED BY <2>1, <2>2, <1>8, AnswerByte
    <1>10. /\ chip' = [chip EXCEPT !.frame = h] /\ bytes' = Append(bytes, b)
           /\ phase' = IF Len(bytes) + 1 = done + In THEN "release" ELSE "receive"
           /\ UNCHANGED <<stage, sent, done, status, mode, mem, call, calls, pre, owed, resets>>
      BY <1>1 DEF GetByte, Transfer, Got, h
    <1>11. h[1] = chip.frame[1]
      BY <1>7, <1>8
    <1>12. b = IF h[1] = Lost THEN 255 ELSE b
      BY AnswerFacts DEF Lost
    <1>13. stage = "Read" => call.addr + Len(bytes) \in Cell /\ b = mem[call.addr + Len(bytes)]
      <2> SUFFICES ASSUME stage = "Read"
                   PROVE  call.addr + Len(bytes) \in Cell /\ b = mem[call.addr + Len(bytes)]
        OBVIOUS
      <2>1. call.addr \in Nat /\ call.len \in Nat /\ call.addr + call.len <= FlashSize
        BY <1>1, <1>4 DEF IInv, TypeOK, CallInv, OK, ERROR_PARAMETER
      <2>2. call.addr + Len(bytes) \in Cell
        BY <2>1, <1>4, <1>5, Constants DEF Cell
      <2>3. \A k \in 1 .. sent : h[k] = Out[k]
        BY <1>1, <1>7, <1>8 DEF IInv, FrameInv, LostId
      <2>4. Out[1] = READ /\ AddressOf(Out) = Addr
        BY <1>1, OutFacts DEF IInv
      <2>5. AddressOf(h) = Addr /\ h[1] = READ
        BY <2>3, <2>4, <1>4, SameAddress
      <2>6. Len(h) > 4 /\ AddressOf(h) + (Len(h) - 5) = call.addr + Len(bytes)
        <3>1. Len(h) - 5 = Len(bytes) - done /\ Len(h) > 4
          <4> DEFINE m == Len(chip.frame)
                     n == Len(bytes)
          <4>1. m = 4 + (n - done) /\ Len(h) = m + 1 /\ n \in Nat /\ done \in Nat /\ done <= n
            BY <1>1, <1>4, <1>5, <1>8
          <4> HIDE DEF m, n
          <4>2. Len(h) - 5 = n - done /\ Len(h) > 4
            BY <4>1
          <4> QED BY <4>2 DEF n
        <3>2. AddressOf(h) = call.addr + done
          BY <2>5 DEF Addr
        <3> QED BY <3>1, <3>2, <2>1, <1>5
      <2> QED BY <2>2, <2>5, <2>6, AnswerFacts
    <1> HIDE DEF b
    <1>14. bytes' \in Seq(Byte) /\ Len(bytes') = Len(bytes) + 1 /\ bytes'[Len(bytes) + 1] = b
             /\ \A k \in 1 .. Len(bytes) : bytes'[k] = bytes[k]
      BY <1>5, <1>9, <1>10
    <1>15. /\ chip'.frame = h /\ chip'.todo = chip.todo /\ chip'.wel = chip.wel /\ chip'.sr1 = chip.sr1
           /\ chip' \in T
      BY <1>6, <1>8, <1>10
    <1> HIDE DEF T
    <1>16. /\ Out' = Out /\ In' = In /\ Polling' = Polling /\ LostId' = LostId
           /\ ModeIn' = ModeIn /\ Addr' = Addr /\ Piece' = Piece /\ Busy' = Busy /\ Issued' = Issued
      <2>1. h # <<>>
        BY <1>8, <1>7, EmptySeq
      <2> QED BY <2>1, <1>2, <1>7, <1>10, <1>11, <1>15
              DEF Out, In, Polling, LostId, ModeIn, Piece, Addr, Busy, Issued
    <1>17. TypeOK'
      <2>1. call.op = "init" => Len(bytes') <= 3
        BY <1>2, <1>4, <1>5, <1>14
      <2> QED BY <2>1, <1>10, <1>14, <1>15 DEF IInv, TypeOK, ChipTypeOK, T
    <1>18. (CallInv /\ OwedInv)'
      BY <1>1, <1>10 DEF IInv, CallInv, StageOps, OwedInv, Span
    <1>19. CountInv'
      BY <1>1, <1>2, <1>4, <1>5, <1>10, <1>14, <1>16 DEF CountInv
    <1>20. FrameInv'
      <2>1. Len(h) = sent + (Len(bytes') - done) /\ Len(h) >= sent
        BY <1>1, <1>5, <1>7, <1>8, <1>14
      <2>2. LostId \/ \A k \in 1 .. sent : h[k] = Out[k]
        BY <1>1, <1>7, <1>8 DEF IInv, FrameInv
      <2> HIDE DEF LostId, Out, In, Polling, ModeIn
      <2> QED BY <2>1, <2>2, <1>1, <1>10, <1>15, <1>16 DEF FrameInv
    <1>21. (TodoInv /\ EnabledInv)'
      BY <1>2, <1>10, <1>15 DEF IInv, TodoInv, Owes, EnabledInv
    <1>22. BusyInv'
      <2>1. Busy => stage = "ReadID" /\ h[1] = Lost /\ \A k \in 1 .. Len(bytes) : bytes[k] = 255
        BY <1>1, <1>2, <1>4, <1>7, <1>11 DEF IInv, BusyInv, Issued
      <2>2. Busy => \A k \in 1 .. Len(bytes') : bytes'[k] = 255
        BY <2>1, <1>5, <1>12, <1>14
      <2> QED BY <2>1, <2>2, <1>10, <1>15, <1>16 DEF BusyInv
    <1>23. ReadInv'
      BY <1>2, <1>4, <1>5, <1>10, <1>13, <1>14 DEF IInv, ReadInv
    <1>24. (EraseInv /\ ProgramInv)'
      BY <1>2, <1>4, <1>10 DEF EraseInv, ProgramInv
    <1>25. Confined'
      BY <1>10 DEF IInv, Confined
    <1> QED BY <1>17, <1>18, <1>19, <1>20, <1>21, <1>22, <1>23, <1>24, <1>25 DEF IInv

LEMMA PollKeeps ==
    ASSUME IInv, Poll
    PROVE  IInv'
    <1> USE DEF request
    <1> DEFINE h == Heard(0, TRUE)
               T == [frame : Seq(Byte), todo : Seq(Byte), wel : BOOLEAN,
                     sr1 : {0, 4}, sr2 : {0, 2, 4, 6}, id : ChipIds]
    <1>1. stage # "end" /\ phase = "receive" /\ Polling /\ mode = ModeIn
            /\ stage \in {"Enabled", "Programmed", "Erased"}
      BY DEF IInv, Poll, CallInv, FrameInv, Polling
    <1>2. chip.frame \in Seq(Byte) /\ chip \in T
      BY DEF IInv, TypeOK, ChipTypeOK
    <1>3. sent = 1 /\ Len(chip.frame) \in Nat /\ Len(chip.frame) >= 1 /\ chip.frame # <<>>
            /\ chip.frame[1] = READ_STATUS /\ Out = <<READ_STATUS>>
      <2>1. Out = <<READ_STATUS>> /\ Out[1] = READ_STATUS /\ Len(Out) = 1
        BY <1>1, OutFacts DEF IInv
      <2> HIDE DEF Out
      <2>2. sent = 1 /\ Len(chip.frame) >= 1
        BY <2>1, <1>1 DEF IInv, FrameInv
      <2>3. Len(chip.frame) \in Nat /\ Len(<<>>) = 0
        BY <1>2
      <2>4. \A k \in 1 .. 1 : chip.frame[k] = Out[k]
        BY <2>2, <1>1 DEF IInv, FrameInv, LostId
      <2>5. chip.frame[1] = Out[1]
        BY <2>4
      <2>6. chip.frame # <<>>
        BY <2>2, <2>3
      <2> QED BY <2>1, <2>2, <2>3, <2>5, <2>6
    <1>4. h \in Seq(Byte) /\ h[1] = READ_STATUS /\ Len(h) \in Nat /\ Len(h) > 1
      <2>1. 0 \in Byte
        BY DEF Byte
      <2>2. CASE Len(chip.frame) < MaxFrame
        <3>1. h = Append(chip.frame, 0)
          BY <2>1, <2>2, <1>2, <1>3, HeardFacts
        <3> HIDE DEF h
        <3>2. h \in Seq(Byte) /\ Len(h) = Len(chip.frame) + 1 /\ h[1] = chip.frame[1]
          BY <3>1, <2>1, <1>2, <1>3
        <3> QED BY <3>2, <1>3
      <2>3. CASE Len(chip.frame) >= MaxFrame
        <3> DEFINE n == Len(chip.frame)
        <3>1. n \in Nat /\ n >= MaxFrame /\ MaxFrame > 1
          BY <2>3, <1>3, Constants
        <3>2. h = chip.frame
          BY <3>1, <2>1, HeardFull
        <3>3. Len(chip.frame) > 1
          BY <2>3, <1>3, Constants
        <3> QED BY <3>2, <3>3, <1>2, <1>3
      <2>4. Len(chip.frame) < MaxFrame \/ Len(chip.frame) >= MaxFrame
        <3> DEFINE n == Len(chip.frame)
        <3>1. n \in Nat /\ MaxFrame \in Nat
          BY <1>3, Constants
        <3> HIDE DEF n
        <3>2. n < MaxFrame \/ n >= MaxFrame
          BY <3>1
        <3> QED BY <3>2 DEF n
      <2> QED BY <2>2, <2>3, <2>4
    <1> HIDE DEF h
    <1>5. Answer(h) = Status1
      BY <1>4, AnswerFacts
    <1>6. /\ chip' = [chip EXCEPT !.frame = h] /\ status' = Status1
          /\ phase' = IF Seen(Status1) THEN "release" ELSE "receive"
          /\ UNCHANGED <<stage, sent, done, bytes, mode, mem, call, calls, pre, owed, resets>>
      BY <1>1, <1>5 DEF Poll, Transfer, Got, h
    <1>7. /\ chip'.frame = h /\ chip'.todo = chip.todo /\ chip'.wel = chip.wel /\ chip'.sr1 = chip.sr1
          /\ chip' \in T
      BY <1>2, <1>4, <1>6
    <1>8. Status1 \in Byte /\ (BitAnd(Status1, WIP) = 0 => ~Busy) /\ (Status1 = 0 => chip.sr1 = 0)
      BY StatusFacts DEF IInv, TypeOK, WIP
    <1>9. phase' = "release" /\ stage # "Enabled" => ~Busy
      BY <1>6, <1>8 DEF Seen
    <1> HIDE DEF T
    <1>10. /\ Out' = Out /\ In' = In /\ Polling' = Polling /\ ModeIn' = ModeIn /\ Addr' = Addr
           /\ Piece' = Piece /\ Busy' = Busy /\ Issued' = Issued
      BY <1>1, <1>6, <1>7 DEF Out, In, Polling, ModeIn, Piece, Addr, Busy, Issued
    <1>11. TypeOK'
      BY <1>6, <1>7, <1>8 DEF IInv, TypeOK, ChipTypeOK, T
    <1>12. (CallInv /\ OwedInv)'
      BY <1>1, <1>6 DEF IInv, CallInv, StageOps, OwedInv, Span
    <1>13. FrameInv'
      <2>1. h[1] = Out[1] /\ sent = Len(Out)
        BY <1>3, <1>4
      <2>2. \A k \in 1 .. sent : h[k] = Out[k]
        BY <2>1, <1>3
      <2> HIDE DEF Out, In, Polling, ModeIn
      <2> QED BY <2>1, <2>2, <1>1, <1>3, <1>4, <1>6, <1>7, <1>10 DEF FrameInv
    <1>14. CountInv'
      BY <1>1, <1>6 DEF IInv, CountInv, CallInv, StageOps
    <1>15. (TodoInv /\ EnabledInv)'
      BY <1>1, <1>6, <1>7, <1>10 DEF IInv, TodoInv, Owes, EnabledInv
    <1>16. BusyInv'
      BY <1>1, <1>6, <1>9, <1>10 DEF IInv, BusyInv, Issued, CallInv, StageOps
    <1>17. (ReadInv /\ EraseInv /\ Confined)'
      BY <1>6, <1>7, <1>10 DEF IInv, ReadInv, EraseInv, Confined, ErasedTo
    <1>18. ProgramInv'
      BY <1>1, <1>6, <1>7, <1>8, <1>10 DEF IInv, ProgramInv, ProgrammedTo
    <1> QED BY <1>11, <1>12, <1>13, <1>14, <1>15, <1>16, <1>17, <1>18 DEF IInv

LEMMA ReleaseKeeps ==
    ASSUME IInv, Release
    PROVE  IInv'
    <1> USE DEF request
    <1> DEFINE f == chip.frame
               T == [frame : Seq(Byte), todo : Seq(Byte), wel : BOOLEAN,
                     sr1 : {0, 4}, sr2 : {0, 2, 4, 6}, id : ChipIds]
    <1>1. stage # "end" /\ phase = "release" /\ phase' = "next" /\ chip' \in Deselected(f)
            /\ UNCHANGED <<stage, sent, done, status, bytes, mode, mem, call, calls, pre, owed, resets>>
      BY DEF IInv, Release, CallInv
    <1>2. /\ f \in Seq(Byte)
          /\ f = <<>> \/ f[1] # WRITE_STATUS
          /\ IsErase(f) \/ IsProgram(f) => Owes(f) /\ AddressOf(f) = Addr
          /\ IsErase(f) => stage = "Erase"
          /\ IsProgram(f) => stage = "Program"
      BY FrameOwes DEF IInv
    <1>3. /\ chip' \in T
          /\ chip'.frame = <<>> /\ chip'.sr1 = chip.sr1
          /\ f = <<WRITE_ENABLE>> => chip'.wel /\ chip'.todo = chip.todo
          /\ ~(IsErase(f) \/ IsProgram(f)) =>
                chip'.todo = chip.todo /\ (f # <<WRITE_ENABLE>> => chip'.wel = chip.wel)
          /\ chip.sr1 # 0 => chip'.todo = chip.todo
          /\ (IsErase(f) \/ IsProgram(f)) /\ chip.wel /\ chip.sr1 = 0 => chip'.todo = f
          /\ chip'.todo \in {chip.todo, f}
      BY <1>1, <1>2, DeselectedFacts DEF IInv, TypeOK
    <1>4. sent = Len(Out) /\ Len(Out) \in Nat \ {0}
            /\ (stage \in {"WriteEnable", "Program", "Erase"} =>
                   Len(f) = sent /\ \A k \in 1 .. sent : f[k] = Out[k])
      BY <1>1, OutFacts, Constants DEF IInv, FrameInv, Polling, In, LostId
    <1>5. stage = "Erase" => IsErase(f)
      <2> SUFFICES ASSUME stage = "Erase" PROVE IsErase(f)
        OBVIOUS
      <2>1. IsErase(Out) /\ 1 \in 1 .. sent
        BY <1>1, <1>4, OutFacts DEF IInv
      <2> QED BY <2>1, <1>4 DEF IsErase
    <1>6. stage = "Program" =>
            /\ IsProgram(f) /\ Len(f) = 4 + Piece
            /\ \A k \in 1 .. Piece : f[4 + k] = Source[done + k]
      <2> SUFFICES ASSUME stage = "Program"
                   PROVE  /\ IsProgram(f) /\ Len(f) = 4 + Piece
                          /\ \A k \in 1 .. Piece : f[4 + k] = Source[done + k]
        OBVIOUS
      <2>1. IsProgram(Out) /\ 1 \in 1 .. sent /\ Len(Out) = 4 + Piece
               /\ \A k \in 1 .. Piece : Out[4 + k] = Source[done + k]
        BY <1>1, <1>4, OutFacts DEF IInv
      <2>2. Piece \in Nat
        BY <1>1, PieceFacts DEF IInv, CallInv, StageOps
      <2>3. \A k \in 1 .. Piece : 4 + k \in 1 .. sent
        BY <2>1, <2>2, <1>4
      <2> QED BY <2>1, <2>3, <1>4 DEF IsProgram
    <1>7. stage = "WriteEnable" => chip'.wel
      <2> SUFFICES ASSUME stage = "WriteEnable" PROVE chip'.wel
        OBVIOUS
      <2>1. Out = <<WRITE_ENABLE>> /\ Out \in Seq(Byte)
        BY <1>1, OutFacts DEF IInv
      <2>2. f = Out
        <3>1. Len(f) = Len(Out) /\ \A k \in 1 .. Len(f) : f[k] = Out[k]
          BY <1>4
        <3> HIDE DEF f, Out
        <3> QED BY <3>1, <2>1, <1>2, SeqEqual, Zenon
      <2> QED BY <2>1, <2>2, <1>3
    <1>8. stage \in {"Erase", "Program"} => chip.wel
      BY <1>1 DEF IInv, EnabledInv, Issued
    <1>9. stage \in {"Erase", "Program"} /\ chip.sr1 = 0 => chip'.todo = f
      BY <1>3, <1>5, <1>6, <1>8
    <1>10. stage \notin {"Erase", "Program"} => chip'.todo = chip.todo /\ (chip.wel => chip'.wel)
      BY <1>2, <1>3
    <1>11. Busy => stage = "ReadID" /\ \A k \in 1 .. Len(bytes) : bytes[k] = 255
      BY <1>1 DEF IInv, BusyInv, Issued, Polling, CallInv
    <1> HIDE DEF T, f
    <1>12. Out' = Out /\ In' = In /\ Polling' = Polling /\ Addr' = Addr /\ Piece' = Piece
      BY <1>1 DEF Out, In, Polling, Addr, Piece
    <1>13. Issued' <=> stage \in {"Program", "Programmed", "Erase", "Erased"}
      BY <1>1 DEF Issued
    <1>14. TypeOK'
      BY <1>1, <1>3 DEF IInv, TypeOK, ChipTypeOK, T
    <1>15. (CallInv /\ OwedInv)'
      BY <1>1 DEF IInv, CallInv, StageOps, OwedInv, Span
    <1>16. (FrameInv /\ CountInv)'
      BY <1>1, <1>3, <1>12 DEF IInv, FrameInv, CountInv
    <1>17. TodoInv'
      <2>1. Owes(chip.todo) /\ (IsErase(f) \/ IsProgram(f) => Owes(f))
        BY <1>2 DEF IInv, TodoInv
      <2>2. Owes(chip'.todo)
        BY <2>1, <1>3
      <2> QED BY <2>2, <1>1 DEF TodoInv, Owes
    <1>18. BusyInv'
      BY <1>1, <1>3, <1>10, <1>11, <1>13 DEF BusyInv, Busy, Polling
    <1>19. EnabledInv'
      BY <1>1, <1>7, <1>10 DEF IInv, EnabledInv, Issued
    <1>20. (ReadInv /\ Confined)'
      BY <1>1 DEF IInv, ReadInv, Confined
    <1>21. EraseInv'
      <2> SUFFICES ASSUME call.op = "erase", call.ret = OK, chip.sr1 = 0,
                          call.addr % SectorSize = 0
                   PROVE  /\ ErasedTo(done)
                          /\ Issued' => \/ IsErase(chip'.todo) /\ AddressOf(chip'.todo) = Addr
                                        \/ ~Busy' /\ ErasedTo(done + SectorSize)
        BY <1>1, <1>3, <1>12 DEF EraseInv, ErasedTo
      <2>1. ErasedTo(done)
        BY DEF IInv, EraseInv
      <2>2. CASE stage = "Erase"
        BY <2>1, <2>2, <1>2, <1>5, <1>9
      <2>3. CASE stage = "Erased"
        <3>1. Issued /\ ~Busy /\ chip.todo = <<>>
          BY <2>3, <1>11 DEF Issued, Busy
        <3>2. ErasedTo(done + SectorSize)
          <4>1. ~IsErase(chip.todo)
            BY <3>1, EmptySeq DEF IsErase
          <4> QED BY <3>1, <4>1 DEF IInv, EraseInv
        <3> QED BY <2>1, <2>3, <3>1, <3>2, <1>10 DEF Busy
      <2>4. CASE stage \notin {"Erase", "Erased"}
        BY <2>1, <2>4, <1>1, <1>13 DEF IInv, CallInv, StageOps
      <2> QED BY <2>2, <2>3, <2>4
    <1>22. ProgramInv'
      <2> SUFFICES ASSUME call.op = "program", call.ret = OK
                   PROVE  /\ chip.sr1 # 0 => done = 0
                          /\ stage = "Programmed" /\ chip.sr1 # 0 => status # 0
                          /\ chip.sr1 = 0 /\ FitsPages(call.addr, call.len) =>
                                IF Issued'
                                THEN \/ /\ ProgrammedTo(done)
                                        /\ IsProgram(chip'.todo) /\ AddressOf(chip'.todo) = Addr
                                        /\ Len(chip'.todo) = 4 + Piece
                                        /\ \A k \in 1 .. Piece : chip'.todo[4 + k] = Source[done + k]
                                     \/ ~Busy' /\ ProgrammedTo(done + Piece)
                                ELSE ProgrammedTo(done)
        BY <1>1, <1>3, <1>12 DEF ProgramInv, ProgrammedTo
      <2>1. /\ chip.sr1 # 0 => done = 0
            /\ stage = "Programmed" /\ chip.sr1 # 0 => status # 0
        BY <1>1 DEF IInv, ProgramInv
      <2>2. ASSUME chip.sr1 = 0, FitsPages(call.addr, call.len), stage = "Program"
            PROVE  /\ ProgrammedTo(done)
                   /\ IsProgram(chip'.todo) /\ AddressOf(chip'.todo) = Addr
                   /\ Len(chip'.todo) = 4 + Piece
                   /\ \A k \in 1 .. Piece : chip'.todo[4 + k] = Source[done + k]
        <3>1. ProgrammedTo(done)
          BY <2>2, <1>1 DEF IInv, ProgramInv, Issued
        <3> QED BY <3>1, <2>2, <1>2, <1>6, <1>9
      <2>3. ASSUME chip.sr1 = 0, FitsPages(call.addr, call.len), stage = "Programmed"
            PROVE  ~Busy' /\ ProgrammedTo(done + Piece)
        <3>1. Issued /\ ~Busy /\ chip.todo = <<>>
          BY <2>3, <1>11 DEF Issued, Busy
        <3>2. ~IsProgram(chip.todo)
          BY <3>1, EmptySeq, Constants DEF IsProgram
        <3> QED BY <3>1, <3>2, <2>3, <1>10 DEF IInv, ProgramInv, Busy
      <2>4. ASSUME chip.sr1 = 0, FitsPages(call.addr, call.len),
                   stage \notin {"Program", "Programmed"}
            PROVE  ~Issued' /\ ProgrammedTo(done)
        BY <2>4, <1>1, <1>13 DEF IInv, ProgramInv, CallInv, StageOps, Issued
      <2> QED BY <2>1, <2>2, <2>3, <2>4, <1>13
    <1> QED BY <1>14, <1>15, <1>16, <1>17, <1>18, <1>19, <1>20, <1>21, <1>22 DEF IInv

\* Between two frames nothing is being sent and the chip has heard nothing more; it
\* is busy only with the command just given, or when it has given no id.
LEMMA BetweenFacts ==
    ASSUME IInv, Between
    PROVE  /\ stage # "end" /\ phase = "next" /\ chip.frame = <<>>
           /\ call.at = "running" /\ call.ret = OK
           /\ Busy => \/ stage \in {"Program", "Erase"}
                      \/ stage = "ReadID" /\ \A k \in 1 .. Len(bytes) : bytes[k] = 255
           /\ UNCHANGED <<status, bytes, mode, chip, mem, calls, pre, owed, resets>>
    BY DEF IInv, Between, CallInv, StageOps, FrameInv, BusyInv, Issued, Polling

\* Multiples go on to multiples.
LEMMA NextMultiple ==
    ASSUME NEW n \in Nat, NEW u \in Nat \ {0}, n % u = 0
    PROVE  (n + u) % u = 0
    <1>1. n \div u \in Nat /\ n = u * (n \div u)
      BY DivMod
    <1> DEFINE q == n \div u
    <1>2. q + 1 \in Nat /\ u * (q + 1) = u * q + u
      BY <1>1, SMT
    <1>3. (u * (q + 1) + 0) % u = 0
      BY <1>2, DivModUnique
    <1> HIDE DEF q
    <1>4. n + u = u * (q + 1) + 0
      BY <1>1, <1>2 DEF q
    <1> QED BY <1>3, <1>4

LEMMA CheckIdKeeps ==
    ASSUME IInv, CheckId
    PROVE  IInv'
    <1>1. /\ stage = "ReadID" /\ call.op = "init" /\ phase = "next" /\ chip.frame = <<>>
          /\ call.at = "running" /\ call.ret = OK /\ Len(bytes) = 3 /\ done = 0
          /\ Busy => \A k \in 1 .. Len(bytes) : bytes[k] = 255
          /\ stage' = "end" /\ phase' = "select"
          /\ call' = [call EXCEPT !.ret = IF IsId(bytes) THEN OK ELSE ERROR]
          /\ UNCHANGED <<sent, done, status, bytes, mode, chip, mem, calls, pre, owed, resets>>
      <2>1. stage = "ReadID" /\ Between /\ Leave(IF IsId(bytes) THEN OK ELSE ERROR)
        BY DEF CheckId
      <2>2. call.op = "init" /\ done = 0 /\ phase = "next"
        BY <2>1 DEF IInv, CallInv, StageOps, Between
      <2>3. Len(bytes) = done + In /\ In = 3
        BY <2>1, <2>2 DEF IInv, CountInv, In
      <2> QED BY <2>1, <2>2, <2>3, BetweenFacts DEF Leave
    <1>2. Busy => ~IsId(bytes)
      <2> SUFFICES ASSUME Busy PROVE bytes = <<255, 255, 255>>
        BY DEF IsId
      <2>1. bytes \in Seq(Byte) /\ <<255, 255, 255>> \in Seq(Byte) /\ Len(<<255, 255, 255>>) = 3
        BY DEF IInv, TypeOK, Byte
      <2>2. \A k \in 1 .. Len(bytes) : bytes[k] = <<255, 255, 255>>[k]
        BY <1>1
      <2>3. Len(bytes) = Len(<<255, 255, 255>>)
        BY <2>1, <1>1
      <2> QED BY <2>1, <2>2, <2>3, SeqEqual, Zenon
    <1>3. call' \in [op : {"none", "init", "read", "program", "erase"}, addr : Nat, len : Nat,
                     at : {"none", "running", "returned"}, ret : {OK, ERROR, ERROR_PARAMETER}]
            /\ call'.op = "init" /\ call'.at = "running" /\ (Busy => call'.ret = ERROR)
      BY <1>1, <1>2 DEF IInv, TypeOK
    <1>4. TypeOK'
      BY <1>1, <1>3 DEF IInv, TypeOK, ChipTypeOK
    <1>5. (CallInv /\ OwedInv)'
      BY <1>1, <1>3 DEF CallInv, StageOps, OwedInv
    <1>6. (FrameInv /\ CountInv)'
      <2>1. Len(bytes') = 3 /\ chip'.frame = <<>>
        BY <1>1
      <2> QED BY <2>1, <1>1, <1>3 DEF FrameInv, CountInv
    <1>7. (TodoInv /\ BusyInv /\ EnabledInv)'
      BY <1>1, <1>3 DEF IInv, TodoInv, Owes, BusyInv, EnabledInv, Busy
    <1>8. (ReadInv /\ EraseInv /\ ProgramInv /\ Confined)'
      BY <1>1, <1>3 DEF IInv, ReadInv, EraseInv, ProgramInv, Confined
    <1> QED BY <1>4, <1>5, <1>6, <1>7, <1>8 DEF IInv

LEMMA PieceReadKeeps ==
    ASSUME IInv, PieceRead
    PROVE  IInv'
    <1>1. /\ stage = "Read" /\ call.op = "read" /\ phase = "next" /\ chip.frame = <<>> /\ ~Busy
          /\ call.at = "running" /\ call.ret = OK
          /\ done' = done + Piece /\ stage' \in {"Read", "end"} /\ phase' = "select"
          /\ (stage' = "Read") <=> (done' < call.len)
          /\ UNCHANGED <<sent, call, status, bytes, mode, chip, mem, calls, pre, owed, resets>>
      BY BetweenFacts DEF IInv, PieceRead, NextPiece, CallInv, StageOps, Begins
    <1>2. Piece \in Nat \ {0} /\ done \in Nat /\ done + Piece <= call.len /\ call.len \in Nat
      BY <1>1, PieceFacts DEF IInv, TypeOK
    <1>3. Len(bytes) = done'
      BY <1>1 DEF IInv, CountInv, In
    <1>4. TypeOK'
      BY <1>1, <1>2 DEF IInv, TypeOK, ChipTypeOK
    <1>5. (CallInv /\ OwedInv)'
      BY <1>1, <1>2 DEF IInv, CallInv, StageOps, OwedInv
    <1>6. (FrameInv /\ CountInv)'
      BY <1>1, <1>3 DEF FrameInv, CountInv
    <1>7. (TodoInv /\ BusyInv /\ EnabledInv)'
      BY <1>1 DEF IInv, TodoInv, Owes, BusyInv, EnabledInv, Busy, Issued
    <1>8. (ReadInv /\ EraseInv /\ ProgramInv /\ Confined)'
      BY <1>1 DEF IInv, ReadInv, EraseInv, ProgramInv, Confined
    <1> QED BY <1>4, <1>5, <1>6, <1>7, <1>8 DEF IInv

LEMMA CheckEnabledKeeps ==
    ASSUME IInv, CheckEnabled
    PROVE  IInv'
    <1>1. /\ stage = "WriteEnable" /\ phase = "next" /\ chip.frame = <<>> /\ ~Busy
          /\ stage' = "Enabled" /\ phase' = "select" /\ call.op \in {"program", "erase"}
          /\ call.at = "running" /\ call.ret = OK /\ chip.wel
          /\ UNCHANGED <<sent, done, call, status, bytes, mode, chip, mem, calls, pre, owed, resets>>
      BY BetweenFacts DEF IInv, CheckEnabled, Go, CallInv, StageOps, EnabledInv
    <1>2. TypeOK'
      BY <1>1 DEF IInv, TypeOK, ChipTypeOK
    <1>3. (CallInv /\ OwedInv)'
      BY <1>1 DEF IInv, CallInv, StageOps, OwedInv, Span
    <1>4. (FrameInv /\ CountInv)'
      BY <1>1 DEF FrameInv, CountInv
    <1>5. (TodoInv /\ BusyInv /\ EnabledInv)'
      BY <1>1 DEF IInv, TodoInv, Owes, BusyInv, EnabledInv, Busy
    <1>6. (ReadInv /\ EraseInv /\ Confined)'
      BY <1>1 DEF IInv, ReadInv, EraseInv, Confined, ErasedTo, Issued
    <1>7. ProgramInv'
      BY <1>1 DEF IInv, ProgramInv, ProgrammedTo, Issued
    <1> QED BY <1>2, <1>3, <1>4, <1>5, <1>6, <1>7 DEF IInv

LEMMA EnabledKeeps ==
    ASSUME IInv, Enabled
    PROVE  IInv'
    <1>1. /\ stage = "Enabled" /\ phase = "next" /\ chip.frame = <<>> /\ ~Busy
          /\ phase' = "select" /\ call.op \in {"program", "erase"}
          /\ call.at = "running" /\ call.ret = OK /\ chip.wel
          /\ UNCHANGED <<sent, done, status, bytes, mode, chip, mem, calls, pre, owed, resets>>
          /\ \/ stage' = "end" /\ call' = [call EXCEPT !.ret = ERROR]
             \/ stage' = (IF call.op = "program" THEN "Program" ELSE "Erase") /\ call' = call
      BY BetweenFacts DEF IInv, Enabled, Go, Leave, CallInv, StageOps, EnabledInv, Issued
    <1>2. CASE stage' = "end" /\ call' = [call EXCEPT !.ret = ERROR]
      <2>1. /\ call' \in [op : {"none", "init", "read", "program", "erase"}, addr : Nat, len : Nat,
                     at : {"none", "running", "returned"}, ret : {OK, ERROR, ERROR_PARAMETER}]
            /\ call'.op = call.op /\ call'.addr = call.addr /\ call'.len = call.len
            /\ call'.at = "running" /\ call'.ret = ERROR
        BY <1>1, <1>2 DEF IInv, TypeOK
      <2>2. TypeOK'
        BY <1>1, <1>2, <2>1 DEF IInv, TypeOK, ChipTypeOK
      <2>3. (CallInv /\ OwedInv)'
        BY <1>1, <1>2, <2>1 DEF IInv, CallInv, StageOps, OwedInv, OK, ERROR, ERROR_PARAMETER
      <2>4. (FrameInv /\ CountInv)'
        BY <1>1, <1>2, <2>1 DEF FrameInv, CountInv
      <2>5. (TodoInv /\ BusyInv /\ EnabledInv)'
        BY <1>1, <1>2, <2>1 DEF IInv, TodoInv, Owes, BusyInv, EnabledInv, Busy
      <2>6. (ReadInv /\ EraseInv /\ ProgramInv /\ Confined)'
        BY <1>1, <2>1 DEF IInv, ReadInv, EraseInv, ProgramInv, Confined, OK, ERROR
      <2> QED BY <2>2, <2>3, <2>4, <2>5, <2>6 DEF IInv
    <1>3. CASE stage' = (IF call.op = "program" THEN "Program" ELSE "Erase") /\ call' = call
      <2>1. TypeOK'
        BY <1>1, <1>3 DEF IInv, TypeOK, ChipTypeOK
      <2>2. (CallInv /\ OwedInv)'
        BY <1>1, <1>3 DEF IInv, CallInv, StageOps, OwedInv, Span
      <2>3. (FrameInv /\ CountInv)'
        BY <1>1, <1>3 DEF FrameInv, CountInv
      <2>4. (TodoInv /\ BusyInv /\ EnabledInv)'
        BY <1>1, <1>3 DEF IInv, TodoInv, Owes, BusyInv, EnabledInv, Busy
      <2>5. (ReadInv /\ EraseInv /\ Confined)'
        BY <1>1, <1>3 DEF IInv, ReadInv, EraseInv, Confined, ErasedTo, Issued
      <2>6. ProgramInv'
        BY <1>1, <1>3 DEF IInv, ProgramInv, ProgrammedTo, Issued
      <2> QED BY <2>1, <2>2, <2>3, <2>4, <2>5, <2>6 DEF IInv
    <1> QED BY <1>1, <1>2, <1>3

LEMMA CheckDoneKeeps ==
    ASSUME IInv, CheckDone
    PROVE  IInv'
    <1>1. /\ phase = "next" /\ chip.frame = <<>> /\ phase' = "select"
          /\ call.at = "running" /\ call.ret = OK
          /\ \/ stage = "Program" /\ stage' = "Programmed" /\ call.op = "program"
             \/ stage = "Erase" /\ stage' = "Erased" /\ call.op = "erase"
          /\ UNCHANGED <<sent, done, call, status, bytes, mode, chip, mem, calls, pre, owed, resets>>
      BY BetweenFacts DEF IInv, CheckDone, Go, CallInv, StageOps
    <1>2. Issued /\ Issued' /\ Piece' = Piece /\ Addr' = Addr /\ Busy' = Busy
      BY <1>1 DEF Issued, Piece, Addr, Busy
    <1>3. TypeOK'
      BY <1>1 DEF IInv, TypeOK, ChipTypeOK
    <1>4. (CallInv /\ OwedInv)'
      BY <1>1 DEF IInv, CallInv, StageOps, OwedInv, Span
    <1>5. (FrameInv /\ CountInv)'
      BY <1>1 DEF FrameInv, CountInv
    <1>6. (TodoInv /\ BusyInv /\ EnabledInv)'
      BY <1>1, <1>2 DEF IInv, TodoInv, Owes, BusyInv, EnabledInv
    <1>7. (ReadInv /\ EraseInv /\ Confined)'
      BY <1>1, <1>2 DEF IInv, ReadInv, EraseInv, Confined, ErasedTo
    <1>8. ProgramInv'
      BY <1>1, <1>2 DEF IInv, ProgramInv, ProgrammedTo
    <1> QED BY <1>3, <1>4, <1>5, <1>6, <1>7, <1>8 DEF IInv

LEMMA PieceProgrammedKeeps ==
    ASSUME IInv, PieceProgrammed
    PROVE  IInv'
    <1>1. /\ stage = "Programmed" /\ call.op = "program" /\ phase = "next" /\ chip.frame = <<>>
          /\ ~Busy /\ call.at = "running" /\ call.ret = OK /\ Issued /\ phase' = "select"
          /\ UNCHANGED <<sent, status, bytes, mode, chip, mem, calls, pre, owed, resets>>
          /\ \/ stage' = "end" /\ call' = [call EXCEPT !.ret = ERROR] /\ done' = done
             \/ /\ status = 0 /\ call' = call /\ done' = done + Piece
                /\ stage' = IF done' < call.len THEN "WriteEnable" ELSE "end"
      <2>1. /\ stage = "Programmed" /\ Between
            /\ \/ stage' = "end" /\ phase' = "select" /\ call' = [call EXCEPT !.ret = ERROR]
                     /\ sent' = sent /\ done' = done
               \/ status = 0 /\ NextPiece
        BY DEF PieceProgrammed, Leave
      <2>2. call.op = "program" /\ Issued
        BY <2>1 DEF IInv, CallInv, StageOps, Issued
      <2>3. NextPiece => stage' = IF done' < call.len THEN "WriteEnable" ELSE "end"
        BY <2>2 DEF NextPiece, Begins
      <2> QED BY <2>1, <2>2, <2>3, BetweenFacts DEF NextPiece
    <1>2. CASE stage' = "end" /\ call' = [call EXCEPT !.ret = ERROR] /\ done' = done
      <2>1. /\ call' \in [op : {"none", "init", "read", "program", "erase"}, addr : Nat, len : Nat,
                     at : {"none", "running", "returned"}, ret : {OK, ERROR, ERROR_PARAMETER}]
            /\ call'.op = "program" /\ call'.addr = call.addr /\ call'.len = call.len
            /\ call'.at = "running" /\ call'.ret = ERROR
        BY <1>1, <1>2 DEF IInv, TypeOK
      <2>2. TypeOK'
        BY <1>1, <1>2, <2>1 DEF IInv, TypeOK, ChipTypeOK
      <2>3. (CallInv /\ OwedInv)'
        BY <1>1, <1>2, <2>1 DEF IInv, CallInv, StageOps, OwedInv, OK, ERROR, ERROR_PARAMETER
      <2>4. (FrameInv /\ CountInv)'
        BY <1>1, <1>2, <2>1 DEF FrameInv, CountInv
      <2>5. (TodoInv /\ BusyInv /\ EnabledInv)'
        BY <1>1, <1>2, <2>1 DEF IInv, TodoInv, Owes, BusyInv, EnabledInv, Busy
      <2>6. (ReadInv /\ EraseInv /\ ProgramInv /\ Confined)'
        BY <1>1, <2>1 DEF IInv, ReadInv, EraseInv, ProgramInv, Confined, OK, ERROR
      <2> QED BY <2>2, <2>3, <2>4, <2>5, <2>6 DEF IInv
    <1>3. CASE /\ status = 0 /\ call' = call /\ done' = done + Piece
               /\ stage' = IF done' < call.len THEN "WriteEnable" ELSE "end"
      <2>1. /\ Piece \in Nat \ {0} /\ done \in Nat /\ done + Piece <= call.len /\ call.len \in Nat
            /\ done + Piece < call.len => Piece = PageSize
        BY <1>1, PieceFacts DEF IInv, TypeOK
      <2>2. done' < call.len => done' % PageSize = 0
        BY <1>1, <1>3, <2>1, NextMultiple, Constants DEF IInv, CallInv
      <2>3. TypeOK'
        BY <1>1, <1>3, <2>1 DEF IInv, TypeOK, ChipTypeOK
      <2>4. CallInv'
        BY <1>1, <1>3, <2>1, <2>2 DEF IInv, CallInv, StageOps
      <2>5. OwedInv'
        BY <1>1, <1>3 DEF IInv, OwedInv, Span
      <2>6. (FrameInv /\ CountInv)'
        BY <1>1, <1>3 DEF FrameInv, CountInv
      <2>7. (TodoInv /\ BusyInv /\ EnabledInv)'
        BY <1>1, <1>3 DEF IInv, TodoInv, Owes, BusyInv, EnabledInv, Busy
      <2>8. (ReadInv /\ EraseInv /\ Confined)'
        BY <1>1, <1>3 DEF IInv, ReadInv, EraseInv, Confined
      <2>9. ProgramInv'
        <3>1. chip.sr1 = 0
          BY <1>1, <1>3 DEF IInv, ProgramInv
        <3>2. FitsPages(call.addr, call.len) => ProgrammedTo(done + Piece)
          <4>1. ~IsProgram(chip.todo)
            BY <1>1, EmptySeq, Constants DEF Busy, IsProgram
          <4> QED BY <4>1, <3>1, <1>1 DEF IInv, ProgramInv
        <3>3. ~Issued'
          BY <1>1, <1>3 DEF Issued
        <3> QED BY <3>1, <3>2, <3>3, <1>1, <1>3 DEF ProgramInv, ProgrammedTo
      <2> QED BY <2>3, <2>4, <2>5, <2>6, <2>7, <2>8, <2>9 DEF IInv
    <1> QED BY <1>1, <1>2, <1>3

LEMMA PieceErasedKeeps ==
    ASSUME IInv, PieceErased
    PROVE  IInv'
    <1>1. /\ stage = "Erased" /\ call.op = "erase" /\ phase = "next" /\ chip.frame = <<>>
          /\ ~Busy /\ call.at = "running" /\ call.ret = OK /\ Issued /\ phase' = "select"
          /\ UNCHANGED <<sent, call, status, bytes, mode, chip, mem, calls, pre, owed, resets>>
          /\ done' = done + SectorSize
          /\ stage' = IF done' < call.len THEN "WriteEnable" ELSE "end"
      BY BetweenFacts DEF IInv, PieceErased, NextPiece, CallInv, StageOps, Begins, Piece, Issued
    <1>2. done \in Nat /\ done' \in Nat /\ done' % SectorSize = 0 /\ call.len \in Nat
      <2>1. done \in Nat /\ call.len \in Nat /\ SectorSize \in Nat \ {0}
        BY Constants DEF IInv, TypeOK
      <2>2. done % SectorSize = 0
        BY <1>1 DEF IInv, CallInv
      <2>3. (done + SectorSize) % SectorSize = 0
        BY <2>1, <2>2, NextMultiple
      <2> QED BY <2>1, <2>3, <1>1
    <1>3. TypeOK'
      BY <1>1, <1>2 DEF IInv, TypeOK, ChipTypeOK
    <1>4. CallInv'
      BY <1>1, <1>2 DEF IInv, CallInv, StageOps
    <1>5. OwedInv'
      BY <1>1 DEF IInv, OwedInv, Span
    <1>6. (FrameInv /\ CountInv)'
      BY <1>1 DEF FrameInv, CountInv
    <1>7. (TodoInv /\ BusyInv /\ EnabledInv)'
      BY <1>1 DEF IInv, TodoInv, Owes, BusyInv, EnabledInv, Busy
    <1>8. (ReadInv /\ ProgramInv /\ Confined)'
      BY <1>1 DEF IInv, ReadInv, ProgramInv, Confined
    <1>9. EraseInv'
      <2>1. ~IsErase(chip.todo)
        BY <1>1, EmptySeq DEF Busy, IsErase
      <2>2. ~Issued'
        BY <1>1 DEF Issued
      <2> QED BY <2>1, <2>2, <1>1 DEF IInv, EraseInv, ErasedTo
    <1> QED BY <1>3, <1>4, <1>5, <1>6, <1>7, <1>8, <1>9 DEF IInv

LEMMA ReturnKeeps ==
    ASSUME IInv, Return
    PROVE  IInv'
    <1> USE DEF place
    <1>1. /\ stage = "end" /\ phase = "select" /\ call.at = "running" /\ call.op # "none"
          /\ call' = [call EXCEPT !.at = "returned"]
          /\ UNCHANGED <<stage, phase, sent, done, status, bytes, mode, chip, mem, calls, pre, owed,
                         resets>>
      BY DEF IInv, Return, CallInv
    <1>2. /\ call' \in [op : {"none", "init", "read", "program", "erase"}, addr : Nat, len : Nat,
                     at : {"none", "running", "returned"}, ret : {OK, ERROR, ERROR_PARAMETER}]
          /\ call'.op = call.op /\ call'.addr = call.addr /\ call'.len = call.len
          /\ call'.at = "returned" /\ call'.ret = call.ret
      BY <1>1 DEF IInv, TypeOK
    <1>3. TypeOK'
      BY <1>1, <1>2 DEF IInv, TypeOK, ChipTypeOK
    <1>4. (CallInv /\ OwedInv)'
      BY <1>1, <1>2 DEF IInv, CallInv, StageOps, OwedInv
    <1>5. (FrameInv /\ CountInv)'
      BY <1>1, <1>2 DEF IInv, FrameInv, CountInv
    <1>6. (TodoInv /\ BusyInv /\ EnabledInv)'
      BY <1>1, <1>2 DEF IInv, TodoInv, Owes, BusyInv, EnabledInv, Busy, Issued
    <1>7. (ReadInv /\ EraseInv /\ Confined)'
      BY <1>1, <1>2 DEF IInv, ReadInv, EraseInv, Confined, ErasedTo, Issued
    <1>8. ProgramInv'
      BY <1>1, <1>2 DEF IInv, ProgramInv, ProgrammedTo, Issued
    <1> QED BY <1>3, <1>4, <1>5, <1>6, <1>7, <1>8 DEF IInv

\* No call begins while the driver is in one, and but for Initialize none begins
\* while the chip is busy.
LEMMA UpFacts ==
    ASSUME IInv, Up
    PROVE  stage = "end" /\ phase = "select" /\ chip.frame = <<>> /\ ~Busy
    <1>1. stage = "end" /\ phase = "select"
      BY DEF IInv, Up, CallInv
    <1>2. chip.frame = <<>>
      BY <1>1 DEF IInv, FrameInv
    <1>3. ~Busy
      BY <1>1 DEF IInv, Up, BusyInv, CallInv, Issued, OK, ERROR
    <1> QED BY <1>1, <1>2, <1>3

LEMMA BeginKeeps ==
    ASSUME IInv, NEW op \in {"init", "read", "program", "erase"}, NEW addr \in Nat, NEW len \in Nat,
           NEW accepted \in BOOLEAN, NEW cells \in SUBSET Cell,
           Begin(op, addr, len, accepted, cells),
           stage = "end", phase = "select", chip.frame = <<>>,
           calls' \in 0 .. MaxCalls, mode' \in {"out", "in", "page"},
           op = "init" => accepted,
           op # "init" => ~Busy /\ (accepted => addr + len <= FlashSize),
           op = "program" /\ accepted => \A a \in Span(addr, len) : Page(a) \subseteq cells,
           op = "erase" /\ accepted => \A a \in Span(addr, len) : Sector(a) \subseteq cells
    PROVE  IInv'
    <1>1. /\ call' = [op |-> op, addr |-> addr, len |-> len,
                      at |-> IF accepted THEN "running" ELSE "returned",
                      ret |-> IF accepted THEN OK ELSE ERROR_PARAMETER]
          /\ stage' = IF accepted /\ (len > 0 \/ op = "init") THEN Begins(op) ELSE "end"
          /\ phase' = "select" /\ sent' = 0 /\ done' = 0 /\ status' = 0 /\ bytes' = <<>>
          /\ pre' = mem
          /\ owed' = (IF accepted THEN cells ELSE {}) \cup (IF Busy THEN owed ELSE {})
          /\ UNCHANGED <<chip, mem, resets>>
      BY DEF Begin
    <1>2. /\ call'.op = op /\ call'.addr = addr /\ call'.len = len
          /\ call'.at = (IF accepted THEN "running" ELSE "returned")
          /\ call'.ret = (IF accepted THEN OK ELSE ERROR_PARAMETER)
      BY <1>1
    <1>3. stage' \in {"ReadID", "Read", "WriteEnable", "end"}
            /\ (stage' = "ReadID" <=> op = "init") /\ (stage' = "Read" => op = "read")
            /\ (stage' = "WriteEnable" => op \in {"program", "erase"})
            /\ (stage' # "end" => accepted) /\ (stage' # "end" /\ op # "init" => len > 0)
            /\ (stage' = "end" /\ accepted => ~(len > 0))
      BY <1>1 DEF Begins
    <1>4. TypeOK'
      <2>1. <<>> \in Seq(Byte) /\ Len(<<>>) = 0 /\ 0 \in Byte
        BY DEF Byte
      <2>2. owed' \subseteq Cell /\ pre' \in [Cell -> Byte]
        BY <1>1 DEF IInv, TypeOK, ChipTypeOK
      <2>3. call' \in [op : {"none", "init", "read", "program", "erase"}, addr : Nat, len : Nat,
                 at : {"none", "running", "returned"}, ret : {OK, ERROR, ERROR_PARAMETER}]
        BY <1>1
      <2> QED BY <2>1, <2>2, <2>3, <1>1, <1>3 DEF IInv, TypeOK, ChipTypeOK
    <1>5. CallInv'
      <2>1. 0 % PageSize = 0 /\ 0 % SectorSize = 0
        <3>1. \A u \in Nat \ {0} : (u * 0 + 0) % u = 0
          BY DivModUnique, 0 \in Nat
        <3>2. \A u \in Nat \ {0} : u * 0 + 0 = 0
          OBVIOUS
        <3> QED BY <3>1, <3>2, Constants
      <2> QED BY <2>1, <1>1, <1>2, <1>3 DEF CallInv, StageOps, OK, ERROR_PARAMETER
    <1>6. OwedInv'
      BY <1>1, <1>2, <1>3 DEF OwedInv, Span
    <1>7. (FrameInv /\ CountInv)'
      <2>1. Len(<<>>) = 0
        OBVIOUS
      <2> QED BY <2>1, <1>1, <1>2 DEF FrameInv, CountInv
    <1>8. (TodoInv /\ BusyInv /\ EnabledInv)'
      <2>1. Len(<<>>) = 0
        OBVIOUS
      <2>2. TodoInv'
        BY <1>1 DEF IInv, TodoInv, Owes, Busy
      <2>3. BusyInv'
        BY <2>1, <1>1, <1>3 DEF BusyInv, Busy
      <2>4. EnabledInv'
        BY <1>1, <1>3 DEF EnabledInv
      <2> QED BY <2>2, <2>3, <2>4
    <1>9. ReadInv'
      <2>1. Len(<<>>) = 0
        OBVIOUS
      <2> QED BY <2>1, <1>1 DEF ReadInv
    <1>10. EraseInv'
      <2>1. ~Issued'
        BY <1>1, <1>3 DEF Issued
      <2>2. ErasedTo(0)'
        BY <1>2 DEF ErasedTo, Cell
      <2> QED BY <2>1, <2>2, <1>1 DEF EraseInv
    <1>11. ProgramInv'
      <2>1. ~Issued' /\ stage' # "Programmed"
        BY <1>1, <1>3 DEF Issued
      <2>2. ProgrammedTo(0)'
        BY <1>1, <1>2 DEF ProgrammedTo
      <2> QED BY <2>1, <2>2, <1>1 DEF ProgramInv
    <1>12. Confined'
      BY <1>1 DEF Confined
    <1> QED BY <1>4, <1>5, <1>6, <1>7, <1>8, <1>9, <1>10, <1>11, <1>12 DEF IInv

LEMMA InitializeKeeps ==
    ASSUME IInv, Initialize
    PROVE  IInv'
    <1>1. stage = "end" /\ phase = "select" /\ chip.frame = <<>>
      BY DEF IInv, Initialize, CallInv, FrameInv
    <1>2. Begin("init", 0, 0, TRUE, {}) /\ mode' = "out" /\ calls' = calls
      BY DEF Initialize
    <1>3. calls' \in 0 .. MaxCalls /\ mode' \in {"out", "in", "page"}
      BY <1>2 DEF IInv, TypeOK
    <1>4. 0 \in Nat /\ TRUE \in BOOLEAN /\ {} \in SUBSET Cell
      OBVIOUS
    <1>5. "init" \in {"init", "read", "program", "erase"} /\ "init" # "program" /\ "init" # "erase"
      OBVIOUS
    <1> QED BY <1>1, <1>2, <1>3, <1>4, <1>5, BeginKeeps

LEMMA CallKeeps ==
    ASSUME IInv, Call
    PROVE  IInv'
    <1>1. stage = "end" /\ phase = "select" /\ chip.frame = <<>> /\ ~Busy
      BY UpFacts DEF Call
    <1>2. calls' \in 0 .. MaxCalls /\ mode' \in {"out", "in", "page"}
      BY SpimAssumption DEF IInv, TypeOK, Call
    <1>3. PICK addr \in Addrs, cnt \in Counts :
             LET len == cnt * DataWidth
             IN  CallRead(addr, len) \/ CallProgram(addr, len) \/ CallErase(addr, len)
      BY DEF Call
    <1> DEFINE len == cnt * DataWidth
    <1>4. addr \in Nat /\ len \in Nat /\ addr + len < WordMod /\ WordMod \in Nat
      <2>1. addr \in Nat /\ cnt \in Nat /\ DataWidth \in Nat /\ addr + cnt * DataWidth < WordMod
              /\ WordMod \in Nat
        BY SpimAssumption
      <2> QED BY <2>1, SMT
    <1>5. CallRead(addr, len) \/ CallProgram(addr, len) \/ CallErase(addr, len)
      BY <1>3
    <1> HIDE DEF len
    <1>6. InRange(addr, len) \in BOOLEAN /\ (InRange(addr, len) => addr + len <= FlashSize)
      <2> DEFINE n == addr + len
      <2>1. n \in Nat /\ n < WordMod
        BY <1>4
      <2> HIDE DEF n
      <2>2. n % WordMod = n
        BY <2>1, <1>4, SMT
      <2> QED BY <2>2, <1>4 DEF InRange, n
    <1>7. CASE CallRead(addr, len)
      <2> DEFINE ok == InRange(addr, len)
      <2>1. Begin("read", addr, len, ok, {})
        BY <1>7 DEF CallRead
      <2>2. ok \in BOOLEAN /\ (ok => addr + len <= FlashSize)
        BY <1>6
      <2>3. {} \in SUBSET Cell /\ "read" \in {"init", "read", "program", "erase"}
            /\ "read" # "init" /\ "read" # "program" /\ "read" # "erase"
        OBVIOUS
      <2> HIDE DEF ok
      <2> QED BY <2>1, <2>2, <2>3, <1>1, <1>2, <1>4, BeginKeeps, Zenon
    <1>8. CASE CallProgram(addr, len)
      <2> DEFINE cells == UNION {Page(a) : a \in Span(addr, len)}
                 ok == InRange(addr, len)
      <2>1. Begin("program", addr, len, ok, cells)
        BY <1>8 DEF CallProgram
      <2>2. cells \in SUBSET Cell /\ \A a \in Span(addr, len) : Page(a) \subseteq cells
        BY DEF Page
      <2>3. ok \in BOOLEAN /\ (ok => addr + len <= FlashSize)
        BY <1>6
      <2>4. "program" \in {"init", "read", "program", "erase"} /\ "program" # "init" /\ "program" # "erase"
        OBVIOUS
      <2> HIDE DEF cells, ok
      <2> QED BY <2>1, <2>2, <2>3, <2>4, <1>1, <1>2, <1>4, BeginKeeps, Zenon
    <1>9. CASE CallErase(addr, len)
      <2> DEFINE cells == UNION {Sector(a) : a \in Span(addr, len)}
                 ok == addr + len <= FlashSize
      <2>1. Begin("erase", addr, len, ok, cells)
        BY <1>9 DEF CallErase
      <2>2. cells \in SUBSET Cell /\ \A a \in Span(addr, len) : Sector(a) \subseteq cells
        BY DEF Sector
      <2>3. ok \in BOOLEAN /\ (ok => addr + len <= FlashSize)
        OBVIOUS
      <2>4. "erase" \in {"init", "read", "program", "erase"} /\ "erase" # "init" /\ "erase" # "program"
        OBVIOUS
      <2> HIDE DEF cells, ok
      <2> QED BY <2>1, <2>2, <2>3, <2>4, <1>1, <1>2, <1>4, BeginKeeps, Zenon
    <1> QED BY <1>5, <1>7, <1>8, <1>9

-----------------------------------------------------------------------------
(* The chip's own steps, resets and losses of power.                       *)

LEMMA SumMultiple ==
    ASSUME NEW u \in Nat \ {0}, NEW m \in Nat, NEW n \in Nat, m % u = 0, n % u = 0
    PROVE  (m + n) % u = 0
    <1> DEFINE p == m \div u
               q == n \div u
    <1>1. p \in Nat /\ q \in Nat /\ m = u * p /\ n = u * q
      BY DivMod
    <1> HIDE DEF p, q
    <1>2. p + q \in Nat /\ u * (p + q) = u * p + u * q
      BY <1>1, SMT
    <1>3. (u * (p + q) + 0) % u = 0
      BY <1>2, DivModUnique
    <1>4. u * (p + q) + 0 = m + n
      BY <1>1, <1>2
    <1> QED BY <1>3, <1>4

\* A piece of a program that fits its pages lies in one page.
LEMMA PieceFits ==
    ASSUME TypeOK, CallInv, stage # "end", call.op = "program", FitsPages(call.addr, call.len)
    PROVE  (Addr % PageSize) + Piece <= PageSize
    <1>1. /\ Addr = call.addr + done /\ Piece \in Nat \ {0} /\ Piece <= PageSize
          /\ done + Piece <= call.len
      BY PieceFacts
    <1>2. call.addr \in Nat /\ done \in Nat /\ call.len \in Nat /\ PageSize \in Nat \ {0}
            /\ done % PageSize = 0
      BY Constants DEF TypeOK, CallInv
    <1>3. CASE call.addr % PageSize = 0
      <2>1. Addr % PageSize = 0
        BY <1>1, <1>2, <1>3, SumMultiple
      <2> QED BY <2>1, <1>1, <1>2
    <1>4. CASE (call.addr % PageSize) + call.len <= PageSize
      <2> DEFINE o == call.addr % PageSize
      <2>1. o \in Nat
        BY <1>2, DivMod
      <2> HIDE DEF o
      <2>2. o + call.len <= PageSize
        BY <1>4 DEF o
      <2>3. done < PageSize
        BY <2>1, <2>2, <1>1, <1>2
      <2>4. done = 0
        BY <2>3, <1>2, SMT
      <2>5. Addr = call.addr
        BY <2>4, <1>1, <1>2
      <2>6. o + Piece <= PageSize
        BY <2>1, <2>2, <2>4, <1>1, <1>2
      <2> QED BY <2>5, <2>6 DEF o
    <1> QED BY <1>3, <1>4 DEF FitsPages

\* What the chip executes is an erase or a program of cells that are owed.
LEMMA TodoDoes ==
    ASSUME TypeOK, TodoInv, Busy
    PROVE  /\ \/ /\ IsErase(chip.todo) /\ chip.todo[1] = SECTOR_ERASE
                 /\ AfterErase(chip.todo) \in [Cell -> Byte]
                 /\ \A a \in Cell : a \notin owed => AfterErase(chip.todo)[a] = mem[a]
              \/ /\ IsProgram(chip.todo) /\ chip.todo[1] = PAGE_PROGRAM
                 /\ Len(chip.todo) > 4 /\ Len(chip.todo) <= PageSize + 4
                 /\ AfterProgram(chip.todo) \in [Cell -> Byte]
                 /\ \A a \in Cell : a \notin owed => AfterProgram(chip.todo)[a] = mem[a]
           /\ chip.todo \in Seq(Byte)
    <1>1. mem \in [Cell -> Byte] /\ chip.todo \in Seq(Byte)
      BY DEF TypeOK, ChipTypeOK
    <1> DEFINE f == chip.todo
    <1>2. f # <<>>
      BY DEF Busy
    <1> HIDE DEF f
    <1>3. CASE IsErase(f) /\ Sector(AddressOf(f)) \subseteq owed
      <2>1. /\ AfterErase(f) \in [Cell -> Byte]
            /\ \A a \in Cell : AfterErase(f)[a] =
                  IF a \in Sector(AddressOf(f)) THEN 255 ELSE mem[a]
        BY <1>1, AfterEraseFacts
      <2>2. \A a \in Cell : a \notin owed => AfterErase(f)[a] = mem[a]
        BY <2>1, <1>3
      <2>3. f[1] = SECTOR_ERASE
        BY <1>3 DEF IsErase
      <2> QED BY <2>1, <2>2, <2>3, <1>1, <1>3 DEF f
    <1>4. CASE IsProgram(f) /\ Len(f) <= PageSize + 4 /\ Page(AddressOf(f)) \subseteq owed
      <2>1. f[1] = PAGE_PROGRAM /\ Len(f) > 4
        BY <1>4, Constants DEF IsProgram
      <2>2. f \in Seq(Byte)
        BY <1>1 DEF f
      <2>3. /\ AfterProgram(f) \in [Cell -> Byte]
            /\ \A a \in Cell \ Page(AddressOf(f)) : AfterProgram(f)[a] = mem[a]
        BY <2>1, <2>2, <1>1, <1>4, AfterProgramFacts
      <2>4. \A a \in Cell : a \notin owed => AfterProgram(f)[a] = mem[a]
        BY <2>3, <1>4
      <2> QED BY <2>1, <2>2, <2>3, <2>4, <1>4 DEF f
    <1> QED BY <1>2, <1>3, <1>4 DEF TodoInv, Owes, f

LEMMA ChipStepKeeps ==
    ASSUME IInv, ChipStep
    PROVE  IInv'
    <1> USE DEF place, request
    <1> DEFINE f == chip.todo
               T == [frame : Seq(Byte), todo : Seq(Byte), wel : BOOLEAN,
                     sr1 : {0, 4}, sr2 : {0, 2, 4, 6}, id : ChipIds]
    <1>1. Busy /\ UNCHANGED <<stage, phase, sent, done, status, bytes, mode, call, calls, pre, owed,
                              resets>>
      BY DEF ChipStep, ChipEnds
    <1>2. /\ \/ /\ IsErase(f) /\ f[1] = SECTOR_ERASE /\ AfterErase(f) \in [Cell -> Byte]
                /\ \A a \in Cell : a \notin owed => AfterErase(f)[a] = mem[a]
             \/ /\ IsProgram(f) /\ f[1] = PAGE_PROGRAM
                /\ Len(f) > 4 /\ Len(f) <= PageSize + 4 /\ AfterProgram(f) \in [Cell -> Byte]
                /\ \A a \in Cell : a \notin owed => AfterProgram(f)[a] = mem[a]
          /\ f \in Seq(Byte)
      BY <1>1, TodoDoes DEF IInv
    <1>3. /\ chip' = [chip EXCEPT !.todo = <<>>, !.wel = FALSE]
          /\ mem' = IF f[1] = SECTOR_ERASE THEN AfterErase(f) ELSE AfterProgram(f)
      <2> DEFINE ended == [chip EXCEPT !.todo = <<>>, !.wel = FALSE]
      <2>1. SECTOR_ERASE # PAGE_PROGRAM /\ SECTOR_ERASE # WRITE_STATUS /\ PAGE_PROGRAM # WRITE_STATUS
        BY DEF SECTOR_ERASE, PAGE_PROGRAM, WRITE_STATUS
      <2>2. CASE f[1] = SECTOR_ERASE
        <3>1. mem' = AfterErase(f) /\ chip' = ended
          BY <2>1, <2>2 DEF ChipStep, ChipEnds
        <3> QED BY <3>1, <2>2
      <2>3. CASE f[1] = PAGE_PROGRAM
        <3>1. mem' = AfterProgram(f) /\ chip' = ended
          BY <2>1, <2>3 DEF ChipStep, ChipEnds
        <3> QED BY <3>1, <2>1, <2>3
      <2> QED BY <2>2, <2>3, <1>2
    <1>4. mem' \in [Cell -> Byte] /\ \A a \in Cell : a \notin owed => mem'[a] = mem[a]
      BY <1>2, <1>3 DEF SECTOR_ERASE, PAGE_PROGRAM
    <1>5. chip \in T /\ mem \in [Cell -> Byte]
      BY DEF IInv, TypeOK, ChipTypeOK
    <1>6. /\ chip' \in T /\ chip'.frame = chip.frame /\ chip'.todo = <<>> /\ chip'.sr1 = chip.sr1
          /\ ~Busy'
      BY <1>3, <1>5, EmptySeq DEF Busy
    <1> HIDE DEF T
    <1>7. \/ stage = "end" /\ call.op \in {"none", "init"}
          \/ stage = "ReadID" /\ call.op = "init"
          \/ Issued /\ call.op \in {"program", "erase"}
      BY <1>1 DEF IInv, BusyInv, Issued, CallInv, StageOps
    <1>8. /\ Out' = Out /\ In' = In /\ Polling' = Polling /\ LostId' = LostId
          /\ ModeOut' = ModeOut /\ ModeIn' = ModeIn /\ Addr' = Addr /\ Piece' = Piece
          /\ Issued' = Issued
      BY <1>1, <1>6 DEF Out, In, Polling, LostId, ModeOut, ModeIn, Piece, Addr, Issued
    <1>9. TypeOK'
      BY <1>1, <1>4, <1>6 DEF IInv, TypeOK, ChipTypeOK, T
    <1>10. (CallInv /\ OwedInv)'
      BY <1>1 DEF IInv, CallInv, StageOps, OwedInv, Span
    <1>11. (FrameInv /\ CountInv)'
      BY <1>1, <1>6, <1>8 DEF IInv, FrameInv, CountInv
    <1>12. (TodoInv /\ BusyInv /\ EnabledInv)'
      <2>1. TodoInv' /\ BusyInv'
        BY <1>6 DEF TodoInv, Owes, BusyInv
      <2>2. EnabledInv'
        BY <1>1, <1>7, <1>8 DEF EnabledInv, Issued
      <2> QED BY <2>1, <2>2
    <1>13. ReadInv'
      BY <1>1, <1>7 DEF ReadInv
    <1>14. Confined'
      BY <1>1, <1>4 DEF IInv, Confined
    <1>15. EraseInv'
      <2> SUFFICES ASSUME call.op = "erase", call.ret = OK, chip.sr1 = 0,
                          call.addr % SectorSize = 0
                   PROVE  ErasedTo(done)' /\ ErasedTo(done + SectorSize)'
        BY <1>1, <1>6 DEF EraseInv, ErasedTo
      <2>1. Issued /\ stage # "end"
        BY <1>7 DEF Issued
      <2>2. IsErase(f) /\ AddressOf(f) = Addr /\ ErasedTo(done)
        BY <2>1, <1>1 DEF IInv, EraseInv
      <2>3. \A a \in Cell : mem'[a] = IF a \in Sector(Addr) THEN 255 ELSE mem[a]
        <3>1. \A a \in Cell : AfterErase(f)[a] = IF a \in Sector(Addr) THEN 255 ELSE mem[a]
          BY <2>2, <1>5, AfterEraseFacts
        <3>2. mem' = AfterErase(f)
          BY <2>2, <1>3 DEF IsErase
        <3> QED BY <3>1, <3>2
      <2>4. /\ call.addr \in Nat /\ done \in Nat /\ done % SectorSize = 0
            /\ Addr = call.addr + done /\ SectorSize \in Nat \ {0} /\ EraseSize \in Nat \ {0}
            /\ EraseSize % SectorSize = 0
        BY Constants DEF IInv, TypeOK, CallInv, Addr
      <2>5. Addr \in Nat /\ Addr % SectorSize = 0
        BY <2>4, SumMultiple
      <2>6. \A a \in Cell : Addr <= a /\ a < Addr + SectorSize => a \in Sector(Addr)
        <3> SUFFICES ASSUME NEW a \in Cell, Addr <= a, a < Addr + SectorSize
                     PROVE  a \div EraseSize = Addr \div EraseSize
          BY DEF Sector
        <3>1. a \in Nat
          BY DEF Cell
        <3>2. \A n \in Nat, b \in Nat :
                 n % SectorSize = 0 /\ n <= b /\ b < n + SectorSize
                 => b \div EraseSize = n \div EraseSize
          <4> TAKE n \in Nat, b \in Nat
          <4> HAVE n % SectorSize = 0 /\ n <= b /\ b < n + SectorSize
          <4> QED BY <2>4, WithinSector, Zenon
        <3> QED BY <3>1, <3>2, <2>5
      <2>7. \A a \in Cell : a \in Nat
        BY DEF Cell
      <2>8. \A a \in Cell : call.addr <= a /\ a < call.addr + done => mem'[a] = 255
        BY <2>2, <2>3 DEF ErasedTo
      <2>9. \A a \in Cell : call.addr <= a /\ a < call.addr + (done + SectorSize) => mem'[a] = 255
        <3> TAKE a \in Cell
        <3> HAVE call.addr <= a /\ a < call.addr + (done + SectorSize)
        <3>1. a < call.addr + done \/ (Addr <= a /\ a < Addr + SectorSize)
          BY <2>4, <2>7
        <3> QED BY <3>1, <2>8, <2>6, <2>3
      <2> QED BY <2>8, <2>9, <1>1 DEF ErasedTo
    <1>16. ProgramInv'
      <2> SUFFICES ASSUME call.op = "program", call.ret = OK, chip.sr1 = 0,
                          FitsPages(call.addr, call.len)
                   PROVE  Issued /\ ProgrammedTo(done + Piece)'
        BY <1>1, <1>6, <1>8 DEF IInv, ProgramInv, ProgrammedTo
      <2>1. Issued /\ stage # "end"
        BY <1>7 DEF Issued
      <2>2. /\ ProgrammedTo(done) /\ IsProgram(f) /\ AddressOf(f) = Addr /\ Len(f) = 4 + Piece
            /\ \A k \in 1 .. Piece : f[4 + k] = Source[done + k]
        BY <2>1, <1>1 DEF IInv, ProgramInv
      <2>3. /\ Addr = call.addr + done /\ Piece \in Nat \ {0} /\ done + Piece <= call.len
            /\ (Addr % PageSize) + Piece <= PageSize /\ Piece <= PageSize
            /\ call.addr \in Nat /\ call.len \in Nat /\ done \in Nat
            /\ call.addr + call.len <= FlashSize
        BY <2>1, PieceFacts, PieceFits DEF IInv, TypeOK, CallInv, OK, ERROR_PARAMETER
      <2>4. mem' = AfterProgram(f)
        BY <2>2, <1>3 DEF IsProgram, SECTOR_ERASE, PAGE_PROGRAM
      <2>5. \A a \in Cell : mem'[a] = IF Addr <= a /\ a < Addr + Piece
                                      THEN BitAnd(mem[a], f[a - Addr + 5]) ELSE mem[a]
        <3>1. Len(f) > 4 /\ Len(f) <= PageSize + 4 /\ Len(f) - 4 = Piece
          BY <2>2, <2>3, Constants
        <3> HIDE DEF f
        <3>2. (AddressOf(f) % PageSize) + (Len(f) - 4) <= PageSize
          BY <3>1, <2>2, <2>3
        <3>3. \A a \in Cell :
                 AfterProgram(f)[a] = IF AddressOf(f) <= a /\ a < AddressOf(f) + (Len(f) - 4)
                                      THEN BitAnd(mem[a], f[a - AddressOf(f) + 5]) ELSE mem[a]
          BY <3>1, <3>2, <1>2, <1>5, AfterProgramFacts
        <3> QED BY <3>1, <3>3, <2>2, <2>4
      <2>6. ASSUME NEW k \in 1 .. call.len
            PROVE  mem'[call.addr + k - 1] =
                      IF k <= done + Piece THEN BitAnd(pre[call.addr + k - 1], Source[k])
                                           ELSE pre[call.addr + k - 1]
        <3> DEFINE a == call.addr + k - 1
        <3>1. a \in Cell /\ a \in Nat /\ k \in Nat
          BY <2>3, Constants DEF Cell
        <3>2. mem[a] = IF k <= done THEN BitAnd(pre[a], Source[k]) ELSE pre[a]
          BY <2>2 DEF ProgrammedTo
        <3>3. CASE k <= done
          <4>1. ~(Addr <= a) /\ k <= done + Piece
            BY <3>1, <3>3, <2>3
          <4> QED BY <4>1, <3>1, <3>2, <3>3, <2>5
        <3>4. CASE done < k /\ k <= done + Piece
          <4>1. Addr <= a /\ a < Addr + Piece /\ a - Addr + 5 = 4 + (k - done)
                  /\ k - done \in 1 .. Piece /\ ~(k <= done) /\ done + (k - done) = k
            BY <3>1, <3>4, <2>3
          <4>2. f[4 + (k - done)] = Source[done + (k - done)]
            BY <4>1, <2>2
          <4>3. mem'[a] = BitAnd(pre[a], f[4 + (k - done)])
            <5> HIDE DEF a, f
            <5> QED BY <4>1, <3>1, <3>2, <2>5
          <4> QED BY <4>1, <4>2, <4>3, <3>4
        <3>5. CASE done + Piece < k
          <4>1. ~(a < Addr + Piece) /\ ~(k <= done) /\ ~(k <= done + Piece)
            BY <3>1, <3>5, <2>3
          <4> QED BY <4>1, <3>1, <3>2, <2>5
        <3> QED BY <3>1, <3>3, <3>4, <3>5, <2>3
      <2> QED BY <2>1, <2>6, <1>1, <1>8 DEF ProgrammedTo
    <1> QED BY <1>9, <1>10, <1>11, <1>12, <1>13, <1>14, <1>15, <1>16 DEF IInv

\* A restart leaves the driver no call; what the chip may go on with is owed, and
\* no other byte has changed.
LEMMA RestartKeeps ==
    ASSUME IInv, Restart,
           chip' \in [frame : Seq(Byte), todo : Seq(Byte), wel : BOOLEAN,
                      sr1 : {0, 4}, sr2 : {0, 2, 4, 6}, id : ChipIds],
           chip'.frame = <<>>, Owes(chip'.todo),
           mem' \in [Cell -> Byte], \A a \in Cell : a \notin owed => mem'[a] = mem[a]
    PROVE  IInv'
    <1>1. /\ stage' = "end" /\ phase' = "select" /\ sent' = 0 /\ done' = 0
          /\ status' = 0 /\ bytes' = <<>> /\ mode' = "out" /\ call' = NoCall
          /\ resets' \in 0 .. MaxResets
          /\ UNCHANGED <<calls, pre, owed>>
      BY SpimAssumption DEF IInv, TypeOK, Restart
    <1>2. /\ call' \in [op : {"none", "init", "read", "program", "erase"}, addr : Nat, len : Nat,
                 at : {"none", "running", "returned"}, ret : {OK, ERROR, ERROR_PARAMETER}]
          /\ call'.op = "none" /\ call'.at = "none"
      BY <1>1 DEF NoCall
    <1>3. TypeOK'
      <2>1. <<>> \in Seq(Byte) /\ 0 \in Byte
        BY DEF Byte
      <2> QED BY <2>1, <1>1, <1>2 DEF IInv, TypeOK, ChipTypeOK
    <1>4. (CallInv /\ OwedInv)'
      BY <1>1, <1>2 DEF CallInv, StageOps, OwedInv
    <1>5. (FrameInv /\ CountInv)'
      BY <1>1, <1>2 DEF FrameInv, CountInv
    <1>6. TodoInv'
      BY <1>1 DEF TodoInv, Owes
    <1>7. (BusyInv /\ EnabledInv /\ ReadInv /\ EraseInv /\ ProgramInv)'
      BY <1>1, <1>2 DEF BusyInv, EnabledInv, ReadInv, EraseInv, ProgramInv
    <1>8. Confined'
      BY <1>1 DEF IInv, Confined
    <1> QED BY <1>3, <1>4, <1>5, <1>6, <1>7, <1>8 DEF IInv

LEMMA ResetKeeps ==
    ASSUME IInv, Reset
    PROVE  IInv'
    <1> DEFINE f == chip.frame
    <1>1. Restart /\ chip' \in Deselected(f) /\ mem' = mem
      BY DEF Reset
    <1>2. /\ f \in Seq(Byte)
          /\ f = <<>> \/ f[1] # WRITE_STATUS
          /\ IsErase(f) \/ IsProgram(f) => Owes(f)
      BY FrameOwes DEF IInv
    <1>3. /\ chip' \in [frame : Seq(Byte), todo : Seq(Byte), wel : BOOLEAN,
                        sr1 : {0, 4}, sr2 : {0, 2, 4, 6}, id : ChipIds]
          /\ chip'.frame = <<>>
          /\ ~(IsErase(f) \/ IsProgram(f)) => chip'.todo = chip.todo
          /\ chip'.todo \in {chip.todo, f}
      BY <1>1, <1>2, DeselectedFacts DEF IInv, TypeOK
    <1>4. Owes(chip.todo) /\ mem \in [Cell -> Byte]
      BY DEF IInv, TodoInv, TypeOK, ChipTypeOK
    <1>5. Owes(chip'.todo)
      BY <1>2, <1>3, <1>4
    <1> QED BY <1>1, <1>3, <1>4, <1>5, RestartKeeps

LEMMA PowerLossKeeps ==
    ASSUME IInv, PowerLoss
    PROVE  IInv'
    <1> DEFINE f == chip.todo
               half(after) == [a \in Cell |-> IF a % 2 = 0 THEN after[a] ELSE mem[a]]
    <1>1. Restart /\ chip' = [chip EXCEPT !.frame = <<>>, !.todo = <<>>, !.wel = FALSE]
            /\ mem' \in {mem} \cup IF ~Busy THEN {}
                               ELSE CASE f[1] = SECTOR_ERASE -> {half(AfterErase(f))}
                                      [] f[1] = PAGE_PROGRAM -> {half(AfterProgram(f))}
                                      [] OTHER -> {}
      BY DEF PowerLoss, ChipLosesPower
    <1>2. /\ chip' \in [frame : Seq(Byte), todo : Seq(Byte), wel : BOOLEAN,
                        sr1 : {0, 4}, sr2 : {0, 2, 4, 6}, id : ChipIds]
          /\ chip'.frame = <<>> /\ chip'.todo = <<>>
      BY <1>1, EmptySeq DEF IInv, TypeOK, ChipTypeOK
    <1>3. Owes(chip'.todo)
      BY <1>2 DEF Owes
    <1>4. mem \in [Cell -> Byte]
      BY DEF IInv, TypeOK, ChipTypeOK
    <1>5. ASSUME NEW after \in [Cell -> Byte], \A a \in Cell : a \notin owed => after[a] = mem[a]
          PROVE  /\ half(after) \in [Cell -> Byte]
                 /\ \A a \in Cell : a \notin owed => half(after)[a] = mem[a]
      BY <1>4, <1>5
    <1> HIDE DEF half
    <1>6. mem' \in [Cell -> Byte] /\ \A a \in Cell : a \notin owed => mem'[a] = mem[a]
      <2>1. CASE mem' = mem
        BY <2>1, <1>4
      <2>2. CASE Busy /\ f[1] = SECTOR_ERASE /\ mem' = half(AfterErase(f))
        BY <2>2, <1>5, TodoDoes DEF IInv, SECTOR_ERASE, PAGE_PROGRAM
      <2>3. CASE Busy /\ f[1] = PAGE_PROGRAM /\ mem' = half(AfterProgram(f))
        BY <2>3, <1>5, TodoDoes DEF IInv, SECTOR_ERASE, PAGE_PROGRAM
      <2>4. \/ mem' = mem
            \/ Busy /\ f[1] = SECTOR_ERASE /\ mem' = half(AfterErase(f))
            \/ Busy /\ f[1] = PAGE_PROGRAM /\ mem' = half(AfterProgram(f))
        BY <1>1
      <2> QED BY <2>1, <2>2, <2>3, <2>4
    <1> QED BY <1>1, <1>2, <1>3, <1>6, RestartKeeps

-----------------------------------------------------------------------------
(* The theorems.                                                           *)

\* What the driver (stages, frames, calls), the controller and the chip keep, through
\* every call, reset and loss of power, is the invariant above.
THEOREM Invariance == Spec => []IInv
    <1>1. Init => IInv
      BY InitEstablishes
    <1>2. IInv /\ [Next]_vars => IInv'
      <2> SUFFICES ASSUME IInv, [Next]_vars PROVE IInv'
        OBVIOUS
      <2>1. CASE Initialize
        BY <2>1, InitializeKeeps
      <2>2. CASE Call
        BY <2>2, CallKeeps
      <2>3. CASE Select
        BY <2>3, SelectKeeps
      <2>4. CASE SendByte
        BY <2>4, SendByteKeeps
      <2>5. CASE Turn
        BY <2>5, TurnKeeps
      <2>6. CASE GetByte
        BY <2>6, GetByteKeeps
      <2>7. CASE Poll
        BY <2>7, PollKeeps
      <2>8. CASE Release
        BY <2>8, ReleaseKeeps
      <2>9. CASE CheckId
        BY <2>9, CheckIdKeeps
      <2>10. CASE PieceRead
        BY <2>10, PieceReadKeeps
      <2>11. CASE CheckEnabled
        BY <2>11, CheckEnabledKeeps
      <2>12. CASE Enabled
        BY <2>12, EnabledKeeps
      <2>13. CASE CheckDone
        BY <2>13, CheckDoneKeeps
      <2>14. CASE PieceProgrammed
        BY <2>14, PieceProgrammedKeeps
      <2>15. CASE PieceErased
        BY <2>15, PieceErasedKeeps
      <2>16. CASE Return
        BY <2>16, ReturnKeeps
      <2>17. CASE ChipStep
        BY <2>17, ChipStepKeeps
      <2>18. CASE Reset
        BY <2>18, ResetKeeps
      <2>19. CASE PowerLoss
        BY <2>19, PowerLossKeeps
      <2>20. CASE UNCHANGED vars
        BY <2>20, StutterKeeps
      <2> QED BY <2>1, <2>2, <2>3, <2>4, <2>5, <2>6, <2>7, <2>8, <2>9, <2>10, <2>11, <2>12,
                 <2>13, <2>14, <2>15, <2>16, <2>17, <2>18, <2>19, <2>20 DEF Next, DriverStep
    <1> QED BY <1>1, <1>2, PTL DEF Spec

\* The driver's variables, the chip's frame and command and the memory have their
\* types; the id read by ReadID is never longer than the array it is read into.
THEOREM TypeCorrect == Spec => []TypeOK
    <1>1. IInv => TypeOK
      BY DEF IInv
    <1> QED BY <1>1, Invariance, PTL

\* Whenever the flash map may call the driver the chip is idle, whatever a reset or a
\* loss of power has cut off before Initialize.
THEOREM ChipIsReady == Spec => []Ready
    <1>1. IInv => Ready
      BY UpFacts DEF Ready
    <1> QED BY <1>1, Invariance, PTL

\* An erase in steps of sector_size that returns OK on a chip that is not protected has
\* erased all it was asked to, although the chip's sectors are larger.
THEOREM ErasesAreDone == Spec => []EraseDone
    <1>1. IInv => EraseDone
      <2> SUFFICES ASSUME IInv, Returned("erase"), chip.sr1 = 0, call.addr % SectorSize = 0,
                          NEW a \in Span(call.addr, call.len)
                   PROVE  mem[a] = 255
        BY DEF EraseDone
      <2>1. stage = "end" /\ call.op = "erase" /\ call.ret = OK
        BY DEF IInv, CallInv, Returned
      <2>2. ErasedTo(done) /\ done >= call.len
        BY <2>1 DEF IInv, CallInv, EraseInv
      <2>3. call.addr \in Nat /\ call.len \in Nat /\ done \in Nat
        BY DEF IInv, TypeOK
      <2>4. a \in Cell /\ a \in Nat /\ call.addr <= a /\ a < call.addr + call.len
        BY DEF Span, Cell
      <2>5. a < call.addr + done
        BY <2>2, <2>3, <2>4
      <2> QED BY <2>2, <2>4, <2>5 DEF ErasedTo
    <1> QED BY <1>1, Invariance, PTL

\* A program of pieces that fit their pages returns OK only when every byte of it is in
\* the memory: on a protected chip it fails.
THEOREM ProgramsAreDone == Spec => []ProgramDone
    <1>1. IInv => ProgramDone
      <2> SUFFICES ASSUME IInv, Returned("program"), FitsPages(call.addr, call.len)
                   PROVE  Programmed(call.addr, call.len)
        BY DEF ProgramDone
      <2>1. stage = "end" /\ phase = "select" /\ call.op = "program" /\ call.ret = OK
        BY DEF IInv, CallInv, Returned
      <2>2. done \in Nat /\ call.len \in Nat /\ call.addr \in Nat
        BY DEF IInv, TypeOK
      <2>3. done = call.len /\ call.addr + call.len <= FlashSize
        BY <2>1, <2>2 DEF IInv, CallInv, OK, ERROR_PARAMETER
      <2>4. CASE chip.sr1 = 0
        <3>1. ProgrammedTo(done)
          BY <2>1, <2>4 DEF IInv, ProgramInv, Issued
        <3>2. \A k \in 1 .. call.len : k <= done
          BY <2>2, <2>3
        <3> QED BY <3>1, <3>2, <2>3 DEF ProgrammedTo, Programmed
      <2>5. CASE chip.sr1 # 0
        <3>1. call.len = 0
          BY <2>1, <2>3, <2>5 DEF IInv, ProgramInv
        <3> QED BY <3>1, <2>3 DEF Programmed
      <2> QED BY <2>4, <2>5
    <1> QED BY <1>1, Invariance, PTL

\* A read that returns OK gives the bytes of the memory, all of them from the device.
THEOREM ReadsAreExact == Spec => []ReadExact
    <1>1. IInv => ReadExact
      <2> SUFFICES ASSUME IInv, Returned("read")
                   PROVE  /\ call.addr + Len(bytes) <= FlashSize
                          /\ Len(bytes) = call.len
                          /\ \A k \in 1 .. Len(bytes) : bytes[k] = mem[call.addr + k - 1]
        BY DEF ReadExact
      <2>1. stage = "end" /\ call.op = "read" /\ call.ret = OK
        BY DEF IInv, CallInv, Returned
      <2>2. done \in Nat /\ call.len \in Nat
        BY DEF IInv, TypeOK
      <2>3. done = call.len /\ call.addr + call.len <= FlashSize
        BY <2>1, <2>2 DEF IInv, CallInv, OK, ERROR_PARAMETER
      <2>4. Len(bytes) = done
        BY <2>1 DEF IInv, CountInv
      <2> QED BY <2>1, <2>3, <2>4 DEF IInv, ReadInv
    <1> QED BY <1>1, Invariance, PTL

\* No byte changes but those that an erase or a program may change, also by a command
\* that a reset sends off unfinished.
THEOREM CallsAreConfined == Spec => []Confined
    <1>1. IInv => Confined
      BY DEF IInv
    <1> QED BY <1>1, Invariance, PTL
=============================================================================
