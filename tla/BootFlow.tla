------------------------------ MODULE BootFlow ------------------------------
(***************************************************************************)
(* From reset to the first instruction of the application: main and        *)
(* do_boot of bl2_main.c, boot_platform_init of the platforms,             *)
(* boot_platform_quit and boot_jump_to_next_image with the loop that       *)
(* clears the RAM (boot.c, and the two loops of m55m1).  boot_go belongs   *)
(* to MCUboot and is modelled as one step, from what main does with its    *)
(* answer: it finds a bootable image, takes a pending upgrade, copies the  *)
(* image to RAM under RAM_LOAD.  The power can fail at any step.           *)
(*                                                                         *)
(* RAM is a few words, enough to tell the boot loader's data and stack     *)
(* from the area of RAM_LOAD images; an image is its header, one word,     *)
(* and the rest, which starts with the vector table.                       *)
(***************************************************************************)
EXTENDS Integers, Sequences

CONSTANTS
    Configs,      \* the builds: [build, strategy, spi]
    MaxResets     \* bound: resets in a behaviour

Images == {"v1", "v2"}                 \* bootable, v2 the newer
Contents == Images \cup {"empty", "bad"}
Slot == {"primary", "secondary"}

ASSUME BootAssumption ==
    /\ Configs \subseteq [build : {"m460_armclang", "m460_gnu", "m55m1"},
                          strategy : {"OVERWRITE_ONLY", "SWAP", "DIRECT_XIP", "RAM_LOAD"},
                          spi : BOOLEAN]
    /\ MaxResets \in Nat

VARIABLES
    config,       \* the build that runs, fixed
    spi_ok,       \* the SPI flash answers, fixed
    spi_busy,     \* the SPI flash is at a command from before the last reset
    slots,        \* what the slots hold
    pending,      \* the secondary slot holds an upgrade not taken yet
    ram,          \* the words of RAM
    pc,
    drivers,      \* the flash drivers initialized
    rsp,          \* struct boot_rsp
    vt,           \* the local variable of do_boot and boot_platform_quit
    vt_cpy,       \* the static copy of it
    VTOR, MSP,    \* the processor's vector table and stack pointer
    r7,           \* the reset handler, in a register while RAM is cleared
    clear, r2,    \* the ranges left to clear, the offset in the first
    chosen,       \* the image boot_go decided for (history)
    resets

fixed == <<config, spi_ok, spi_busy, resets>>
flash == <<slots, pending>>
regs == <<VTOR, MSP, r7, clear, r2>>
vars == <<fixed, flash, ram, pc, drivers, rsp, vt, vt_cpy, regs, chosen>>

-----------------------------------------------------------------------------
(* Memory.                                                                 *)

\* Words of RAM: static data, stack, the area of RAM_LOAD images.  Linked with
\* armclang the stack follows the data, with GNU ld it is at the end of the RAM
\* past that area; m55m1 has its data in SRAM (word 7) and its stack at the end
\* of DTCM, the memory at the addresses of that area.
Words == 0 .. 7
Exec == {3, 4}
Data == IF config.build = "m55m1" THEN 7 ELSE 0
Stack == CASE config.build = "m460_armclang" -> 1
           [] config.build = "m460_gnu" -> 5
           [] config.build = "m55m1" -> 6

\* Mutant: the clearing goes on to the end of the RAM.
ClearRanges_all ==
    CASE config.build = "m460_armclang" -> <<<<0, 6>>>>
      [] config.build = "m460_gnu" -> <<<<0, 6>>>>
      [] config.build = "m55m1" -> <<<<7, 1>>, <<1, 6>>>>

\* The ranges boot_jump_to_next_image clears, as <<base, length>>.
ClearRanges ==
    CASE config.build = "m460_armclang" -> <<<<0, 2>>>>
      [] config.build = "m460_gnu" -> <<<<0, 6>>>>
      [] config.build = "m55m1" -> <<<<7, 1>>, <<1, 6>>>>

ih_hdr_size == 1
NoAddress == [mem |-> "none", at |-> 0]
FLASH_DEVICE_ID == 100
FLASH_DEVICE_BASE == 0

\* Offset and device of a slot, in units in which the boot loader, a slot's
\* header and a slot's image are one each.
Offset(s) == IF s = "primary" THEN 2 ELSE IF config.spi THEN 0 ELSE 10
Device(s) == IF s = "secondary" /\ config.spi THEN 101 ELSE FLASH_DEVICE_ID

\* The image whose vector table is at an address of the processor's memory.
ImageAt(a) ==
    IF a.mem = "ram"
    THEN IF a.at \in Words THEN ram[a.at] ELSE "junk"
    ELSE IF \E s \in Slot : a.mem = "flash" /\ Device(s) = FLASH_DEVICE_ID
                            /\ a.at = Offset(s) + ih_hdr_size
         THEN slots[CHOOSE s \in Slot : Device(s) = FLASH_DEVICE_ID
                                        /\ a.at = Offset(s) + ih_hdr_size]
         ELSE "junk"

Devices == {FLASH_DEVICE_ID} \cup {Device("secondary")}

-----------------------------------------------------------------------------
(* main                                                                    *)

Main ==
    /\ pc = "reset" /\ pc' = "platform_init"
    /\ ram' = [ram EXCEPT ![Data] = "bl2", ![Stack] = "bl2"]
    /\ UNCHANGED <<fixed, flash, drivers, rsp, vt, vt_cpy, regs, chosen>>

\* Mutant: only the driver of the primary slot is initialized.
boot_platform_init_one ==
    /\ pc = "platform_init" /\ pc' = "boot_go"
    /\ drivers' = {FLASH_DEVICE_ID}
    /\ UNCHANGED <<fixed, flash, ram, rsp, vt, vt_cpy, regs, chosen>>

\* Mutant: what Initialize of the SPI flash returns is not looked at.
boot_platform_init_unchecked ==
    /\ pc = "platform_init" /\ pc' = "boot_go"
    /\ drivers' = Devices
    /\ UNCHANGED <<fixed, flash, ram, rsp, vt, vt_cpy, regs, chosen>>

\* The driver of the internal flash always initializes; that of the SPI flash
\* answers an error when the chip does not, which is also what a busy chip does.
boot_platform_init ==
    /\ pc = "platform_init"
    /\ LET fails == config.spi /\ (~spi_ok \/ spi_busy)
       IN  /\ drivers' = IF fails THEN {FLASH_DEVICE_ID} ELSE Devices
           /\ pc' = IF fails THEN "panic" ELSE "boot_go"
    /\ UNCHANGED <<fixed, flash, ram, rsp, vt, vt_cpy, regs, chosen>>

\* The slots after a pending upgrade is taken.
Upgraded ==
    IF pending /\ slots["secondary"] \in Images /\ config.strategy \in {"OVERWRITE_ONLY", "SWAP"}
    THEN [primary |-> slots["secondary"],
          secondary |-> IF config.strategy = "SWAP" THEN slots["primary"] ELSE "empty"]
    ELSE slots

\* The slots boot_go may boot from, and the one it does: the newest image.
Candidates(s) ==
    {p \in Slot : s[p] \in Images
                  /\ (config.strategy \in {"OVERWRITE_ONLY", "SWAP"} => p = "primary")}
Newest(s) ==
    IF "primary" \in Candidates(s)
       /\ ("secondary" \in Candidates(s) => s["primary"] = "v2" \/ s["secondary"] = "v1")
    THEN "primary" ELSE "secondary"

boot_go ==
    /\ pc = "boot_go"
    /\ slots' = Upgraded /\ pending' = FALSE
    /\ IF Candidates(Upgraded) = {}
       THEN pc' = "panic" /\ UNCHANGED <<ram, rsp, chosen>>
       ELSE LET s == Newest(Upgraded)
            IN  /\ chosen' = Upgraded[s]
                /\ rsp' = [br_flash_dev_id |-> Device(s), br_image_off |-> Offset(s),
                           ram_load |-> config.strategy = "RAM_LOAD"]
                /\ ram' = IF config.strategy = "RAM_LOAD"
                          THEN [w \in Words |-> IF w \in Exec THEN Upgraded[s] ELSE ram[w]]
                          ELSE ram
                /\ pc' = "do_boot"
    /\ UNCHANGED <<fixed, drivers, vt, vt_cpy, regs>>
-----------------------------------------------------------------------------
(* do_boot                                                                 *)

\* Mutant: the secondary slot's device is the one expected.
flash_device_base_other(fd_id) == IF fd_id # 101 THEN -1 ELSE 0

\* Return code: FLASH_DEVICE_BASE is stored when it is 0.
flash_device_base(fd_id) == IF fd_id # FLASH_DEVICE_ID THEN -1 ELSE 0

\* Mutant: the vector table is taken to be at the start of the slot.
vector_table_at_slot(r) ==
    IF r.ram_load THEN [mem |-> "ram", at |-> 3]
    ELSE [mem |-> "flash", at |-> FLASH_DEVICE_BASE + r.br_image_off]

vector_table(r) ==
    IF r.ram_load THEN [mem |-> "ram", at |-> 3 + ih_hdr_size]
    ELSE [mem |-> "flash", at |-> FLASH_DEVICE_BASE + r.br_image_off + ih_hdr_size]

do_boot ==
    /\ pc = "do_boot"
    /\ IF flash_device_base(rsp.br_flash_dev_id) = 0
       THEN pc' = "quit" /\ vt' = vector_table(rsp)
       ELSE pc' = "assert" /\ UNCHANGED vt
    /\ UNCHANGED <<fixed, flash, ram, drivers, rsp, vt_cpy, regs, chosen>>

-----------------------------------------------------------------------------
(* boot_platform_quit                                                      *)

boot_platform_quit ==
    /\ pc = "quit" /\ pc' = "set_msp"
    /\ drivers' = drivers \ {FLASH_DEVICE_ID}
    /\ vt_cpy' = vt
    /\ VTOR' = vt
    /\ UNCHANGED <<fixed, flash, ram, rsp, vt, MSP, r7, clear, r2, chosen>>

\* With the stack pointer goes every local variable that lives on the stack.
set_MSP ==
    /\ pc = "set_msp" /\ pc' = "jump"
    /\ MSP' = ImageAt(vt_cpy)
    /\ vt' = NoAddress
    /\ UNCHANGED <<fixed, flash, ram, drivers, rsp, vt_cpy, VTOR, r7, clear, r2, chosen>>

\* Mutant: no static copy, the local variable is read after the stack has changed.
boot_jump_from_local ==
    /\ pc = "jump" /\ pc' = "clear"
    /\ r7' = ImageAt(vt)
    /\ clear' = ClearRanges /\ r2' = ClearRanges[1][2]
    /\ UNCHANGED <<fixed, flash, ram, drivers, rsp, vt, vt_cpy, VTOR, MSP, chosen>>

\* The reset handler is read from the vector table before RAM is cleared.
boot_jump_to_next_image ==
    /\ pc = "jump" /\ pc' = "clear"
    /\ r7' = ImageAt(vt_cpy)
    /\ clear' = ClearRanges /\ r2' = ClearRanges[1][2]
    /\ UNCHANGED <<fixed, flash, ram, drivers, rsp, vt, vt_cpy, VTOR, MSP, chosen>>

\* Mutant: the loop stops at offset zero (ble for blt).
boot_clear_ram_area_ble ==
    /\ pc = "clear" /\ clear # <<>>
    /\ IF r2 - 1 <= 0
       THEN clear' = Tail(clear) /\ r2' = (IF Len(clear) > 1 THEN clear[2][2] ELSE 0)
            /\ UNCHANGED <<ram, vt_cpy>>
       ELSE /\ r2' = r2 - 1
            /\ ram' = [ram EXCEPT ![clear[1][1] + r2 - 1] = "zero"]
            /\ vt_cpy' = IF clear[1][1] + r2 - 1 = Data THEN NoAddress ELSE vt_cpy
            /\ UNCHANGED clear
    /\ UNCHANGED <<fixed, flash, pc, drivers, rsp, vt, VTOR, MSP, r7, chosen>>

\* Mutant: the test comes before the subtraction and lets one word too many through.
boot_clear_ram_area_past ==
    /\ pc = "clear" /\ clear # <<>>
    /\ IF r2 < 0
       THEN clear' = Tail(clear) /\ r2' = (IF Len(clear) > 1 THEN clear[2][2] ELSE 0)
            /\ UNCHANGED <<ram, vt_cpy>>
       ELSE /\ r2' = r2 - 1
            /\ ram' = [ram EXCEPT ![clear[1][1] + r2 - 1] = "zero"]
            /\ vt_cpy' = IF clear[1][1] + r2 - 1 = Data THEN NoAddress ELSE vt_cpy
            /\ UNCHANGED clear
    /\ UNCHANGED <<fixed, flash, pc, drivers, rsp, vt, VTOR, MSP, r7, chosen>>

\* The loop over a range, from its last word down to its first.
boot_clear_ram_area ==
    /\ pc = "clear" /\ clear # <<>>
    /\ IF r2 - 1 < 0
       THEN clear' = Tail(clear) /\ r2' = (IF Len(clear) > 1 THEN clear[2][2] ELSE 0)
            /\ UNCHANGED <<ram, vt_cpy>>
       ELSE /\ r2' = r2 - 1
            /\ ram' = [ram EXCEPT ![clear[1][1] + r2 - 1] = "zero"]
            /\ vt_cpy' = IF clear[1][1] + r2 - 1 = Data THEN NoAddress ELSE vt_cpy
            /\ UNCHANGED clear
    /\ UNCHANGED <<fixed, flash, pc, drivers, rsp, vt, VTOR, MSP, r7, chosen>>

Branch ==
    /\ pc = "clear" /\ clear = <<>> /\ pc' = "running"
    /\ UNCHANGED <<fixed, flash, ram, drivers, rsp, vt, vt_cpy, regs, chosen>>

-----------------------------------------------------------------------------
(* Around the boot loader.                                                 *)

\* A power cut or a reset, by the application too, which may have written an
\* upgrade to the secondary slot, or begun to.  A reset does not stop what the SPI
\* flash is doing for boot_go or for the application.
Reset ==
    /\ resets < MaxResets /\ resets' = resets + 1
    /\ pc' = "reset" /\ drivers' = {} /\ VTOR' = NoAddress /\ MSP' = "bl2"
    /\ vt' = NoAddress /\ vt_cpy' = NoAddress /\ clear' = <<>>
    /\ \/ UNCHANGED flash
       \/ /\ pc = "running"
          /\ \E c \in Contents : slots' = [slots EXCEPT !["secondary"] = c]
          /\ pending' \in BOOLEAN
    /\ spi_busy' \in {FALSE, spi_busy \/ (config.spi /\ pc \in {"boot_go", "running"})}
    /\ UNCHANGED <<config, spi_ok, ram, rsp, r7, r2, chosen>>

SpiEnds ==
    /\ spi_busy /\ spi_busy' = FALSE
    /\ UNCHANGED <<config, spi_ok, resets, flash, ram, pc, drivers, rsp, vt, vt_cpy, regs, chosen>>

Init ==
    /\ config \in Configs /\ spi_ok \in BOOLEAN /\ spi_busy = FALSE
    /\ slots \in [Slot -> Contents] /\ pending \in BOOLEAN
    /\ ram = [w \in Words |-> "junk"]
    /\ pc = "reset" /\ drivers = {}
    /\ rsp = [br_flash_dev_id |-> 0, br_image_off |-> 0, ram_load |-> FALSE]
    /\ vt = NoAddress /\ vt_cpy = NoAddress /\ VTOR = NoAddress
    /\ MSP = "bl2" /\ r7 = "junk" /\ clear = <<>> /\ r2 = 0
    /\ chosen = "empty" /\ resets = 0

\* The processor.
Step ==
    \/ Main \/ boot_platform_init \/ boot_go \/ do_boot
    \/ boot_platform_quit \/ set_MSP \/ boot_jump_to_next_image
    \/ boot_clear_ram_area \/ Branch

Next == Step \/ Reset \/ SpiEnds

Spec == Init /\ [][Next]_vars
FairSpec == Spec /\ WF_vars(Step)
-----------------------------------------------------------------------------
(* What the boot loader promises.                                          *)

Values == Contents \cup {"junk", "bl2", "zero"}
Address == [mem : {"none", "flash", "ram"}, at : 0 .. 11]

TypeOK ==
    /\ config \in Configs /\ spi_ok \in BOOLEAN /\ spi_busy \in BOOLEAN
    /\ slots \in [Slot -> Contents] /\ pending \in BOOLEAN
    /\ ram \in [Words -> Values]
    /\ pc \in {"reset", "platform_init", "panic", "boot_go", "do_boot", "assert", "quit",
               "set_msp", "jump", "clear", "running"}
    /\ drivers \subseteq Devices
    /\ rsp \in [br_flash_dev_id : {0, 100, 101}, br_image_off : {0, 2, 10}, ram_load : BOOLEAN]
    /\ vt \in Address /\ vt_cpy \in Address /\ VTOR \in Address
    /\ MSP \in Values /\ r7 \in Values
    /\ r2 \in 0 .. 6 /\ clear \in {<<>>, Tail(ClearRanges), ClearRanges}
    /\ chosen \in Contents /\ resets \in 0 .. MaxResets

\* "MCUBoot will jump to the correct image" (README.md): the stack pointer, the
\* reset handler and the vector table are all those of the image boot_go decided
\* for, and that image is where they point, whatever the change of stack and the
\* clearing of RAM have destroyed in between.
HandOver ==
    pc = "running" =>
        /\ chosen \in Images
        /\ MSP = chosen /\ r7 = chosen /\ ImageAt(VTOR) = chosen

\* No flash device is used before its driver is initialized, and none while it is
\* still at a command from before a reset: boot_go reads both slots.
FlashReady == pc \in {"boot_go", "do_boot", "assert"} => drivers = Devices /\ ~spi_busy

\* Nothing of the boot loader is left in RAM for the application to find, even
\* after resets in the middle of the clearing.
Forgotten == pc = "running" => \A w \in Words : ram[w] # "bl2"

\* The image RAM_LOAD has copied is still there when it is started: the boot loader
\* clears only "that part of the RAM which was used by MCUBoot" (boot_hal.h).
LoadedImageKept ==
    pc = "running" /\ config.strategy = "RAM_LOAD" => \A w \in Exec : ram[w] = chosen

\* With a bootable image and every flash device answering, the boot loader gets
\* to an application: no panic, no assertion, no loop without an end.  A reset
\* that finds the SPI flash at work is left out: it ends in the panic loop.
Bootable ==
    /\ Candidates(Upgraded) # {}
    /\ config.spi => spi_ok
    /\ pc = "platform_init" => ~spi_busy
Boots == []Bootable => []<>(pc = "running")
=============================================================================
