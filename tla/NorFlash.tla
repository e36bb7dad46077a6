------------------------------ MODULE NorFlash ------------------------------
(***************************************************************************)
(* The serial NOR flash chip behind Driver_FLASH2, as the drivers use it:  *)
(* it hears a frame byte by byte while it is selected, takes a command     *)
(* when it is deselected, executes it on its own, and meanwhile hears      *)
(* nothing but the commands that read its status.  A reset of the          *)
(* processor only deselects it; a loss of power stops it.                  *)
(***************************************************************************)
EXTENDS Integers, Sequences

CONSTANTS
    Radix,        \* 2^8: an address is sent as three digits
    EraseSize,    \* what the chip erases with one command: 4096
    PageSize,     \* what it programs with one command: 256
    Images,       \* what it may hold at first
    Protection,   \* what its status registers may hold at first
    ChipIds,      \* the JEDEC ids it may have
    MaxFrame      \* bound: bytes of a frame it remembers

Byte == 0 .. 255
ChipSize == Radix * Radix * Radix
Cell == 0 .. (ChipSize - 1)

ASSUME NorAssumption ==
    /\ Radix \in 2 .. 256 /\ EraseSize \in Nat \ {0} /\ PageSize \in Nat \ {0}
    /\ ChipSize % EraseSize = 0 /\ EraseSize % PageSize = 0
    /\ Images \subseteq [Cell -> Byte]
    /\ Protection \subseteq {0, 4} \X {0, 4}
    /\ ChipIds \subseteq Byte \X Byte \X Byte
    /\ MaxFrame \in Nat

VARIABLES
    chip,    \* frame being heard, command being executed, status registers, id
    mem      \* its memory

READ == 3
FAST_READ_QUAD == 235
WRITE_ENABLE == 6
WRITE_STATUS == 1
PAGE_PROGRAM == 2
SECTOR_ERASE == 32
READ_STATUS == 5
READ_STATUS2 == 53
JEDEC_ID == 159
Lost == 255

\* The & of two bytes.
BitAnd(a, b) ==
    LET bit(w) == w * (((a \div w) % 2) * ((b \div w) % 2))
    IN  bit(1) + bit(2) + bit(4) + bit(8) + bit(16) + bit(32) + bit(64) + bit(128)

\* The address as it is sent, highest digit first.
Digits(addr) ==
    <<(addr \div (Radix * Radix)) % Radix, (addr \div Radix) % Radix, addr % Radix>>
AddressOf(f) == f[2] * Radix * Radix + f[3] * Radix + f[4]
Sector(addr) == {a \in Cell : a \div EraseSize = addr \div EraseSize}
Page(addr) == {a \in Cell : a \div PageSize = addr \div PageSize}

Busy == chip.todo # <<>>
Status1 == (IF Busy THEN 1 ELSE 0) + (IF chip.wel THEN 2 ELSE 0) + chip.sr1
QE == (chip.sr2 \div 2) % 2 = 1

\* The frame after one more byte.  A command that a busy chip does not take stays
\* unheard to its end, also when the chip gets ready meanwhile.
Heard(b, clear) ==
    LET f == IF Len(chip.frame) < MaxFrame THEN Append(chip.frame, b) ELSE chip.frame
    IN  IF clear /\ (Len(f) = 1 /\ Busy => b \in {READ_STATUS, READ_STATUS2})
        THEN f ELSE <<Lost>>

\* What the chip answers to the last byte of frame f.
Answer(f) ==
    LET n == Len(f)
        from(k) == mem[(AddressOf(f) + (n - k)) % ChipSize]
    IN  CASE f[1] = READ_STATUS /\ n > 1 -> Status1
          [] f[1] = READ_STATUS2 /\ n > 1 -> chip.sr2
          [] f[1] = JEDEC_ID /\ n \in 2 .. 4 -> chip.id[n - 1]
          [] f[1] = READ /\ n > 4 -> from(5)
          [] f[1] = FAST_READ_QUAD /\ n > 7 -> from(8)
          [] OTHER -> Lost

\* What the chip may be after it is deselected with frame f.  Erases, programs and
\* status writes need write enable; a protected chip takes no erase and no program
\* and may or may not keep write enable.
Deselected(f) ==
    LET quiet == [chip EXCEPT !.frame = <<>>]
        starts(cmd, lens) == Len(f) \in lens /\ f[1] = cmd /\ chip.wel
        changes == starts(SECTOR_ERASE, {4}) \/ starts(PAGE_PROGRAM, 5 .. MaxFrame)
    IN  CASE f = <<WRITE_ENABLE>> -> {[quiet EXCEPT !.wel = TRUE]}
          [] starts(WRITE_STATUS, {2, 3}) -> {[quiet EXCEPT !.todo = f]}
          [] changes /\ chip.sr1 = 0 -> {[quiet EXCEPT !.todo = f]}
          [] changes /\ chip.sr1 # 0 -> {quiet, [quiet EXCEPT !.wel = FALSE]}
          [] OTHER -> {quiet}

\* The memory after an erase or a page program: bits are only cleared, and the
\* data of a program that passes the end of its page goes on at the page's start.
AfterErase(f) == [a \in Cell |-> IF a \in Sector(AddressOf(f)) THEN 255 ELSE mem[a]]
AfterProgram(f) ==
    LET page == (AddressOf(f) \div PageSize) * PageSize
        cell(k) == page + ((AddressOf(f) - page + k - 5) % PageSize)
        on(a) == {k \in 5 .. Len(f) : cell(k) = a}
        last(a) == CHOOSE k \in on(a) : \A j \in on(a) : j <= k
    IN  [a \in Cell |-> IF on(a) = {} THEN mem[a] ELSE BitAnd(mem[a], f[last(a)])]

\* The chip ends the command it executes.  A status write of one byte only, which
\* no driver sends whole, clears the second register or leaves it.
ChipEnds ==
    /\ Busy
    /\ LET f == chip.todo
           done == [chip EXCEPT !.todo = <<>>, !.wel = FALSE]
       IN  CASE f[1] = SECTOR_ERASE -> mem' = AfterErase(f) /\ chip' = done
             [] f[1] = PAGE_PROGRAM -> mem' = AfterProgram(f) /\ chip' = done
             [] f[1] = WRITE_STATUS ->
                   /\ \E sr2 \in IF Len(f) = 3 THEN {2 * ((f[3] \div 2) % 4)}
                                 ELSE {0, chip.sr2} :
                         chip' = [done EXCEPT !.sr1 = IF (f[2] \div 4) % 2 = 1 THEN 4 ELSE 0,
                                              !.sr2 = sr2]
                   /\ UNCHANGED mem

\* Power is lost: of the command being executed some cells are changed.
ChipLosesPower ==
    /\ chip' = [chip EXCEPT !.frame = <<>>, !.todo = <<>>, !.wel = FALSE]
    /\ LET f == chip.todo
           half(after) == [a \in Cell |-> IF a % 2 = 0 THEN after[a] ELSE mem[a]]
       IN  mem' \in {mem} \cup IF ~Busy THEN {}
                               ELSE CASE f[1] = SECTOR_ERASE -> {half(AfterErase(f))}
                                      [] f[1] = PAGE_PROGRAM -> {half(AfterProgram(f))}
                                      [] OTHER -> {}

ChipInit ==
    /\ chip \in {[frame |-> <<>>, todo |-> <<>>, wel |-> FALSE, sr1 |-> p[1], sr2 |-> p[2],
                  id |-> id] : p \in Protection, id \in ChipIds}
    /\ mem \in Images

ChipTypeOK ==
    /\ chip \in [frame : Seq(Byte), todo : Seq(Byte), wel : BOOLEAN,
                 sr1 : {0, 4}, sr2 : {0, 2, 4, 6}, id : ChipIds]
    /\ mem \in [Cell -> Byte]
=============================================================================
