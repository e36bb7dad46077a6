# A TLA+ development for the NuMicro port of MCUboot

This directory holds a model of the boot loader in `src/bl2`: how it reads, writes and
erases flash memory, how it finds its image slots, and how it hands over to the
application. The modules are translated from the C source. TLC checks them on small
instances; TLAPS proves their safety properties, and that the flash map implements its abstract
specification, for all values of the constants.

`PROJECT.json` lists the components, the runs, the source lines each definition stands
for, the mutants that show what each property can catch, the disagreements found, the
hazards and the theorems.

    tlc -workers 2 -config FlashMapAny.cfg MCFlashMap      # one run
    tlapm FlashMapProofs.tla                               # the proofs of one module

## 1. Inventory

The boot loader is one thread without interrupts or an operating system. It calls down
through these layers and polls the hardware. What runs beside it is the hardware: the
flash controllers and the SPI chip, each at its own speed, and the power supply.

    main / do_boot (bl2_main.c)                                   BootFlow
       |  boot_go (MCUboot's bootutil, a submodule, empty here)   external
       |     |  slots, ids, sectors (flash_map_extended.c, flash_map_legacy.c)   SlotMap
       |     |  flash_map[] (default_flash_map.c, flash_layout.h)            FlashLayout
       |     |  flash_area_read / _write / _erase (flash_map.c)                 FlashMap
       |     |     CMSIS drivers (Driver_Flash.c)                CmsisFlash, SpiFlash
       |     |        on-chip: fmc_drv.c (or rmc_drv.c)                       FmcDriver
       |     |        SPI and QSPI chip: spi_drv.c, qspi_drv.c                 SpiFlash
       |     |        SPIM chip: spim_drv.c                                SpimFlash
       |  boot_platform_quit, boot_jump_to_next_image (boot_hal.c, boot.c)     BootFlow

| Component | State | Operations | What is hard | What makes it correct |
|---|---|---|---|---|
| Flash map access, `flash_map.c` | none between calls; in a call the paddings, the number of bytes done | `flash_area_read`, `_write`, `_erase`, `_open` | any alignment of offset and length; a write is up to two reads and three programs, an erase a loop; each part can fail, power can go at any of them | a read returns the bytes asked for; a call changes its own bytes only; 0 means all of it is done; what is left half done is in order |
| CMSIS driver of the on-chip flash, `Driver_Flash.c` | the device | `ReadData`, `ProgramData`, `EraseSector` | the range check looks at the last byte only and the difference can wrap | parameters within an area always pass; each command stays in its unit or sector |
| NVMC driver, `fmc_drv.c` | registers of the controller | `NVT_NVMC_Read`, `_Program`, `_Erase` | a bounded wait gives up on a command that the controller goes on with; the busy flag is not looked at and the fail flag not cleared before a command | OK means done; a call that does not time out leaves the controller as it found it; no command is a mixture of two |
| SPI and QSPI drivers, `spi_drv.c`, `qspi_drv.c` | the FIFOs, chip select, line mode; the chip's status registers, its command in progress, its memory | `Init`, `Read` (single and quad), `Program`, `Erase`, status, `WaitReady` | every byte sent brings one back, and each has to be taken or cleared at the right time; the chip works on after a frame, and through a reset of the processor, and ignores commands meanwhile; waits give up silently; quad mode is a bit in the chip's non-volatile registers | a read returns the chip's bytes; OK from an erase means erased; no call begins on a busy chip; the bus is given back as it was found; the protection bits survive |
| SPIM driver, `spim_drv.c` | SPIM controller; the chip as above | `Init`, `Read`, `Program`, `Erase`, `CheckStatus` | the chip is polled without a bound, in one frame; the declared sector is smaller than what the chip erases, the pieces of a program are not the chip's pages; a reset leaves the chip at work | a call comes back; OK means erased or programmed; nothing else changes; a busy chip is not let through by `Initialize` |
| Layouts and flash map, `flash_layout.h`, `default_flash_map.c` | constants per platform | - | written by hand, one per platform; three files have to agree | areas apart from each other and from the boot loader, on whole sectors |
| Slots, ids, sectors, `flash_map_extended.c`, `flash_map_legacy.c`, `sysflash.h` | constants; the sector list being filled | slot to id, id to slot, `flash_area_open`, `flash_area_get_sectors`, `flash_area_get_sector` | ids are narrowed to a byte; the list has a limited room | slot to area to slot is the identity; the list tiles the area; the sector named for an offset is one of the list |
| Boot flow, `bl2_main.c`, `boot_hal.c`, `boot.c` | RAM, stack pointer, vector table register, drivers | `main`, `boot_platform_init`, `do_boot`, `boot_platform_quit`, `boot_jump_to_next_image` | the stack is changed, and the RAM cleared, under the feet of the running code; which RAM depends on linker script and build; resets at any point, also while the SPI chip is at work | the chosen image runs with its own stack, entry and vector table; nothing of the boot loader is left; a bootable image is booted |
| bootutil, Mbed TLS, vendor BSPs | - | - | submodules without contents here | external |
| Keys, console, system calls, build files | constants | - | - | not modelled (section 7) |

Interactions. All of them are synchronous calls that return a code; there are no
callbacks and no messages between threads. The shared state is the device (all areas
of one device share its sectors and its driver), the SPI bus (a frame leaves the FIFOs
to the next one) and the RAM at the hand-over. The asynchronous parties are the NVMC
controller (`FmcDriver`), the SPI controller's shifting (`SpiFlash`) and the chip's own work
(`NorFlash`, in `SpiFlash` and `SpimFlash`), and loss of power or reset (all of them but `SlotMap`
and `FmcDriver`).

## 2. Modules

| Module | Models | State | Actions |
|---|---|---|---|
| `CmsisFlash` | `ProgramData`, `EraseSector` and the checks of the on-chip drivers | `flash`, the driver call `drv` | one NVMC command each, good or failing |
| `FlashMap` | `flash_area_read`, `_write`, `_erase` over a `CmsisFlash` device | `pc`, `call`, `padding`, `deleted`, `rc`, `dst` | a call's entry, its reads, each driver call and each result, power loss and restart |
| `FlashStore` | abstract: a store of bytes and one request at a time | `store`, `goal`, `status` | request, work, succeed, fail, lose, forget |
| `NorFlash` | the serial flash chip, external: what it hears, executes and ignores | `chip`, `mem` | hearing a byte, being deselected, the end of a command, loss of power |
| `SpiFlash` | `spi_drv.c` or `qspi_drv.c` and `Driver_FLASH2`, the controller, over `NorFlash` | the frame (`stage`), where in it (`phase`, `sent`), how far the call is (`done`, `qe`), the driver's locals (`cpu`), `call`, `ctl` | one register access of the driver, one byte shifted, the decision between two frames, reset |
| `SpimFlash` | `spim_drv.c`, its `Driver_FLASH2` and `flash_area_erase` above it, over `NorFlash` | the frame (`stage`), where in it (`phase`, `sent`), how far the call is (`done`), `status`, `bytes`, `call` | one byte of a frame, one status byte polled, the decision between two frames, reset |
| `FmcDriver` | `fmc_drv.c` and the controller | `reg`, `run`, `ispff`, `pc`, `call`, `timeout_cnt` | one register access of the driver; the end of a command |
| `FlashLayout` | the layouts of the platforms and `flash_map[]` | constants | |
| `SlotMap` | slot, id, area, sectors, and back; the sector of an offset | `slot`, `id`, `area`, `sectors`, `rem_len`, `named` | one lookup step each, one sector per step |
| `BootFlow` | reset to the application's first instruction | `ram`, `VTOR`, `MSP`, `vt`, `vt_cpy`, `r7`, `slots`, `spi_busy`, ... | one function each, one word of RAM cleared per step, reset, the SPI chip's end of work |
| `FlashMapProofs`, `FlashStoreProofs` | theorems about `FlashMap` | | |
| `FmcDriverProofs`, `SlotMapProofs`, `BootFlowProofs` | theorems about `FmcDriver`, `SlotMap`, `BootFlow` | | |
| `NorFlashProofs` | lemmas about the chip: addresses and digits, sectors and pages, status bits, what a frame makes of it, what an erase and a program leave | | |
| `SpiFlashProofs`, `SpimFlashProofs` | theorems about `SpiFlash` and `SpimFlash` over that chip | | |
| `MC*` | the instances TLC checks | | |

How the data is abstracted:

* A byte of on-chip flash is the set of its programmed bits: the erased byte is `{}`,
  programming adds bits, so a torn or repeated program is a union. Two bits are enough
  for a byte to be erased, full or neither.
* `FlashMap` keeps every number of the code: units, items, sectors, offsets and lengths, and
  the 32-bit width as `WordMod`. The reads of one call are one step, because nothing else
  moves the device meanwhile.
* In `SpiFlash` and `SpimFlash` a driver function is a row of frames; `Out` is what a frame sends before its
  data. In `SpiFlash` each access to a register of the controller (select, write a byte, wait, clear or read
  the receive FIFO, change the lines, deselect) is a step, beside which the controller shifts and the chip works.
  `spim_drv.c` waits for every byte, so in `SpimFlash` the processor alone moves the bus, and a step is a byte of `Out`
  or one of the `In` that the frame takes. An address is three digits to the base
  `Radix` rather than three bytes. Bytes are numbers, so that the status bits, and the bits a
  program clears, are the real ones; `BitAnd` spells out the eight bits.
* `NorFlash` knows the chip only from how the drivers use it: a command is taken when the
  chip is deselected, a busy chip hears nothing but the reads of its status, and whoever asks
  it for anything else reads ones.
* In `BootFlow` RAM is eight words: the boot loader's data, its stack, the area of RAM_LOAD
  images, and what lies between. The length that is cleared is a whole number of words,
  as the linker scripts align the symbols it comes from. `boot_go` is one step that does
  what `main` relies on. Of the SPI chip only whether it answers and whether it is at work
  (`spi_busy`) matters here; that `Initialize` says no to a chip at work is what `Ready` of
  `SpiFlash` and `SpimFlash` shows.

Lines beginning with "Mutant" define a wrong variant of the definition after them. No
action uses them; each is put in the place of the right one to see that a
property notices.

## 3. Runs

| Run | Config | Properties | What it shows |
|---|---|---|---|
| `flash_map_any_alignment` | `FlashMapAny` | `TypeOK` `Confined` `ReadExact` `EmptyIsErased` `NeverRefused` `CallReturns` | One call with any offset and length, any driver failure, power loss anywhere |
| `flash_map_aligned_writes` | `FlashMapAligned` | `InOrder` `OnlySourceBits` `ImplementsStore` | Two calls in a row, writes on whole units: what success, failure and power loss leave, and that calls implement `FlashStore` |
| `flash_map_unaligned_writes` | `FlashMapUnaligned` | `Complete` (violated) | finding 1 |
| `spi_flash_calls` | `SpiFlashCalls` | `TypeOK` `Ready` `EraseDone` `Confined` `ReadExact` `BusReleased` `ProtectionKept` | `Initialize` and two calls of the SPI, the QSPI and the quad driver, in every interleaving with controller and chip, with a reset or a loss of power anywhere |
| `spi_flash_stalls` | `SpiFlashStalls` | `ReadEraseReturn` | a controller that stops and a chip that stays busy cannot hold a read or an erase |
| `spi_flash_program_hangs` | `SpiFlashProgram` | `CallsReturn` (violated) | finding 2 |
| `spim_flash_calls` | `SpimFlash` | `TypeOK` `Ready` `EraseDone` `ProgramDone` `ReadExact` `Confined` `CallsReturn` | the SPIM driver and `flash_area_erase` above it, with two resets anywhere: what OK means, what may change, that the unbounded polling ends |
| `spim_flash_page_end` | `SpimFlashPages` | `ProgramAnywhere` (violated) | finding 3 |
| `fmc_driver_late_commands` | `FmcDriver` | `TypeOK` `OKMeansDone` `CleanAgain` `WholeCommand` `CallsReturn` | three calls beside a controller that ends commands early, late or never |
| `slot_map` | `SlotMap` | `TypeOK` `SlotRoundTrip` `AreasPlaced` `SectorsTile` `SectorNamed` | every platform's layout |
| `boot_hand_over` | `BootFlow` | `TypeOK` `HandOver` `FlashReady` `Forgotten` `LoadedImageKept` `Boots` | the builds that keep every promise, any slot contents, resets anywhere |
| `boot_ram_load_gnu` | `BootFlowRamLoad` | `LoadedImageKept` (violated) | finding 4 |

### Bounds

* `FlashMap`: a device of four sectors of 8 bytes with two areas, one of two sectors and
  one of one, side by side behind a sector that belongs to neither. Units of 4 and items of 2 bytes give every
  case of the code: a head and a tail within one unit, each alone, both, with and without
  whole units between. The lengths run past the area's end and include one for which the
  sum wraps. The source has a period of three bytes, so that a copy shifted by less than
  three shows. `MaxCalls` is 1 where all offsets are tried: calls share nothing but the
  device, and it starts both erased and full. The second config has two calls, and a
  `ProgramUnit` of half `FLASH_PROGRAM_UNIT`, as on RMC parts. The proofs need none of these bounds.
* `NorFlash` (in both SPI modules): a chip of two erase sectors of two pages of two bytes each, addresses of
  three binary digits; protected and not, with QE set and not. `MaxFrame` bounds what the chip
  remembers of a frame; the longest that matters is shorter.
* `SpiFlash`: reads of one and two pages, the first
  address past the end; FIFOs of eight, as in the controller; `MaxPolls` of three, so that
  polling sees the chip busy and then done (`SystemCoreClock` is never below two: with one, `WaitReady` would give up before its
  first look). `Beyond`, the byte behind a caller's data, which the endless loop of `Program` sends, is any byte. One reset or loss of power in the safety run, two calls
  around it. The safety run has `Stalls = FALSE`:
  its properties are about a controller that shifts before the wait of a second is over. The
  polling may still give up (`hist.slow`), and the properties say what is promised then. That a bus wait has given up
  (`hist.stuck`) is remembered for good: the frame it broke off may have been a write of the status registers, and no reset
  mends that. The proofs need none of these bounds but `MaxFrame`, nor `Stalls`.
* `SpimFlash`: three calls and two resets, so that a call can meet what two calls before it left; addresses
  at the start of a sector, inside a page, in the other sector and one past the end; a declared sector of half
  of what the chip erases, and pieces of one page. `MaxFrame` is the longest frame of the driver, a page program;
  polls do not lengthen what the chip remembers. The proofs need none of these bounds but that one.
* `FmcDriver`: two pages of two units, `Timeout` 1, three calls: one to be given up on, one to
  run into its command, one to find what is left.
* `SlotMap`: the real numbers of all platforms in units of 1 KiB; offsets on both sides of every edge
  of a page, a sector and an area.
* `BootFlow`: `MaxResets` 2, so that a boot can be cut short after another was.

Deadlock checking is off where the bound on calls or resets lets the system stop; `SlotMap`
runs for ever and is checked for deadlock.

### Fairness

The processor is fair: `WF_vars(Step)` in `FlashMap` and `BootFlow`,
`WF_vars(DriverStep)` in `SpiFlash` and `SpimFlash`, `WF_vars(Driver)` in `FmcDriver`. The code is a single thread
that never sleeps, so it takes its next step when it has one. Nothing is assumed of the
callers, the power supply and the controllers: `ReadEraseReturn` and `CallsReturn`
of `FmcDriver` hold because the code counts its polling down, not because hardware answers. In
`FlashMap` a driver call is part of `Step`; that each NVMC command comes to an end is what
`FmcDriver` shows. `SpimFlash` alone assumes that the chip ends its commands
(`WF_vars(ChipStep)`), because `spim_drv.c` polls without a count; what could still hold a call
is a chip that never got the command, and that is what `CallsReturn` is about. Finding 2 is
shown under `LiveSpec`, where controller and chip are fair too, so that the hang is the code's alone.
`Boots` is for a bootable image and a chip that answers, and for a bounded
number of resets: a board reset for ever never boots, nor does one that is reset while the
SPI chip is at work, which panics until the next reset (section 5).

## 4. Proofs

| Module | Theorem | Statement |
|---|---|---|
| `FlashMapProofs` | `Invariance` | `Spec => []IInv` |
| | `TypeCorrect` | `Spec => []TypeOK` |
| | `CallsAreConfined` | `Spec => []Confined` |
| | `AreasAreSeparate` | `Spec => OtherAreasUntouched` |
| | `ReadsAreExact` | `Spec => []ReadExact` |
| | `EmptyIsTrue` | `Spec => []EmptyIsErased` |
| | `NothingIsRefused` | `SectorsOfUnits => (Spec => []NeverRefused)` |
| `FlashStoreProofs` | `StoreInvariance` | `WholeUnitStarts => (Spec => []StoreInv)` |
| | `CallsWorkUpwards` | `WholeUnitStarts => (Spec => []InOrder)` |
| | `WritesAddTheirBits` | `WholeUnitStarts => (Spec => []OnlySourceBits)` |
| | `SuccessIsComplete` | `WholeUnitStarts => (Spec => []Complete)` |
| | `CallsImplementStore` | `WholeUnitStarts => (Spec => ImplementsStore)` |
| `FmcDriverProofs` | `Invariance`, `TypeCorrect` | `Spec => []IInv`, `Spec => []TypeOK` |
| | `CommandsAreWhole` | `Spec => WholeCommand` |
| | `OKIsTrue` | `Spec => []OKMeansDone` |
| | `CallsLeaveItClean` | `Spec => []CleanAgain` |
| `SlotMapProofs` | `Invariance`, `TypeCorrect` | `Spec => []IInv`, `Spec => []TypeOK` |
| | `SlotsRoundTrip` | `Spec => []SlotRoundTrip` |
| | `ListsTile` | `Spec => []SectorsTile` |
| | `NamedSectorsAreListed` | `Spec => []SectorNamed` |
| | `AreasArePlaced` | `Spec => []AreasPlaced` |
| `SpimFlashProofs` | `Invariance`, `TypeCorrect` | `Spec => []IInv`, `Spec => []TypeOK` |
| | `ChipIsReady` | `Spec => []Ready` |
| | `ErasesAreDone` | `Spec => []EraseDone` |
| | `ProgramsAreDone` | `Spec => []ProgramDone` |
| | `ReadsAreExact` | `Spec => []ReadExact` |
| | `CallsAreConfined` | `Spec => []Confined` |
| `SpiFlashProofs` | `Invariance`, `TypeCorrect` | `Spec => []IInv`, `Spec => []TypeOK` |
| | `ChipIsReady` | `Spec => []Ready` |
| | `ErasesAreDone` | `Spec => []EraseDone` |
| | `CallsAreConfined` | `FlashSize <= ChipSize` gives `Spec => []Confined` |
| | `ReadsAreExact` | `Spec => []ReadExact` |
| | `BusIsReleased` | `Spec => []BusReleased` |
| | `ProtectionIsKept` | `Spec => ProtectionKept` |
| `BootFlowProofs` | `Invariance`, `TypeCorrect` | `Spec => []IInv`, `Spec => []TypeOK` |
| | `FlashIsReady` | `Spec => []FlashReady` |
| | `NothingIsLeft` | `Spec => []Forgotten` |
| | `CorrectImageStarts` | `KeepsImage => (Spec => []HandOver)` |
| | `LoadedImageStays` | `KeepsImage => (Spec => []LoadedImageKept)` |

They hold for all values of the constants that the named assumptions admit. TLC evaluates every
assumption in the runs of its module.

Assumptions. `DriverAssumption`: the device lies below `WordMod` and begins on a sector and on a
program unit; sizes are positive. `AreaAssumption`: `FLASH_PROGRAM_UNIT` is a multiple of the item and of the
program unit; areas lie in the device, on whole sectors, and do not overlap. The layouts
satisfy them (`AreasArePlaced` shows the placement on all platforms).
`CallerAssumption`: offsets and lengths are 32-bit words; a source buffer is at least as long as
the device, so the model never reads past it. `FmcAssumption`, `SlotAssumption` and `BootAssumption` say what
kind of values the constants are. `NorAssumption` is about the chip: an address is three digits, erase sectors are
whole pages and divide the chip, its status registers hold at first the protection bit, or none: external, as the
drivers use it. `SpimAssumption`: the device is no larger than the chip; what the driver declares as a sector divides what
the chip erases (256 and 4096); a source is as long as the device; and the end of a range fits a word, because `flash_map.c` computes it
in a word first and refuses what is not in the area. `SpiAssumption`: the FIFOs have eight entries or more, so that the longest
frame before the data fits; no known id is all ones, which is what a busy chip answers; `MaxFrame` holds the longest frame. It does not say that
the device fits the chip, as one in the repository does not. Some theorems have a hypothesis of their own:

* `SectorsOfUnits`, a sector is a whole number of `FLASH_PROGRAM_UNIT`s: true of every platform, and needed
  for a rounded-up write to end inside the area.
* `WholeUnitStarts`, writes begin on a whole unit: without it finding 1 breaks `Complete`. Lengths stay free.
* `FlashSize <= ChipSize`, for `Confined` of `SpiFlash`: the SPI device of 4 MiB satisfies it, the QSPI device as declared does not (section 5).
* `KeepsImage`, RAM_LOAD only with the linker script of armclang: without it finding 4 breaks both.

### The flash map

`Confined` is not inductive: to know that a program of the first unit gives the
neighbours of the write back, one has to know what the buffer being programmed holds, and that
comes from a read some steps earlier. `IInv` therefore adds

* `CallInv`: a call in progress has passed the range check;
* `DriverInv`: what the driver is at belongs to the call: the unit or the sector in hand
  is aligned and within the area, and an erase's sector within the target;
* `PaddingInv`: while a write is under way, its paddings are the bytes of the device *at the
  time of the call*;
* that `deleted` is a whole number of sectors.

Together with `Confined` itself, these give that whatever `ProgramData` is handed agrees with the
old contents outside the target (`JobFacts`), so that even a torn program (`TornProgram`), which
sets any part of the new bits, changes nothing there. The bits make this short: programming a
byte over itself adds nothing. The erase is simpler: `SectorInTarget` and
`TornErase`. Before them stand the arithmetic of `FLOOR_ALIGN` and `CEILING_ALIGN` and facts
about buffers; after them one lemma per action. `AreasAreSeparate` follows from the
invariant and from the target's lying in its area (`TargetInArea`). These proofs cover unaligned writes too:
the wrong source of finding 1 corrupts bytes of the target only. `ReadExact` is a step
property at heart: the three parts a read puts together are shown equal to the bytes asked for
(`ReadBytesExact`), and stay so because the device does not change until the next call.
`EmptyIsErased` follows from it: `flash_area_read_is_empty` (`ReadIsEmpty`) is a reading of what that
read has stored.

`NeverRefused` needs that the arithmetic of a write does not leave the area: that the rounded-up end of a
range inside an area is inside it, and that no difference of addresses wraps in 32 bits
(`RefusalInv`).

`StoreInv` follows the *frontier* of a call, the address it has got to: below it every byte of the
target is as asked, above it as it was (`WriteInv` for a write in any of its three parts,
`EraseInv` for an erase). `Complete`, `InOrder` and `OnlySourceBits` are readings of it at the end of a call, at any
moment, and at any moment with a torn unit at the frontier. The refinement maps each step of a call to a
step of `FlashStore` or a stutter; `StoreInv` supplies what the abstract step asks of the store, and
success on the abstract side is justified by `Complete`.

### The on-chip driver

`IInv` of `FmcDriverProofs` says, per place in the code, which registers are already the call's own
(`RegInv`), and, for a call that found the controller idle and its flag clear, what the
controller is at (`OwnInv`): nothing before the go, the call's own command or its end while
waiting, its end afterwards. `CommandsAreWhole` needs no clean start: the registers are all written before the
go, and a controller still at an older command took its copy long ago.

### Slots and sectors

For any rooms and offsets, on the layouts of all platforms: the list is a prefix of the area's sectors and
`rem_len` what is left of it (`ListInv`). The layouts enter with three facts (`LayoutFacts`): a sector is a
power of two, areas are whole sectors, and no more of them than bootutil has room for. `AreasPlaced` is a statement about the
layouts alone: `PlacementFacts` orders the boot loader and the two slots in each of them, `PlacesFacts` shows that
the flash map has no other areas than these and the scratch area, which has a device of its own.

### The SPIM driver and its chip

The chip works on its own and may be found at work by a call that knows nothing of it, so what the driver promises
depends on what the chip has heard. `IInv` has these parts:

* `CallInv`: which frame belongs to which call, that the range was accepted and that there is something left to do;
* `FrameInv`: what the chip has heard of the frame is what was sent of `Out`, unless it was busy when its id was asked for, and
  heard nothing. Therefore what a deselection starts, by the driver or by a reset in the middle of a frame, is a command
  of the call or no command;
* `OwedInv`, `TodoInv`: the command in execution changes what is owed and nothing else. `Confined` needs no more: the end
  of a command, a torn end at a loss of power and a command cut off by a reset all stay in its sector or page
  (`AfterEraseFacts`, `AfterProgramFacts`);
* `BusyInv`: the only moments at which the chip may be at work: before `Initialize`, while its id is asked for in vain,
  after `Initialize` has failed for that reason, and between a command and the poll that has seen its end. `Ready` is a reading of it;
* `EnabledInv`: the chip is write enabled when the command arrives, so that the command is taken;
* `CountInv`, `ReadInv`: the bytes received are those of the pieces done, and the chip's;
* `EraseInv`, `ProgramInv`: how far the call has come. What is done stays done, and the piece in hand is in the
  chip's `todo` or is done already. For a program the memory is compared with that at the call, piece by piece.

The arithmetic under it: a declared sector lies in one of the chip's (`WithinSector`), a piece that fits its page does not
wrap (`InPage`, `OnceRound`), three digits give the address back (`DigitsFacts`), and the bits of a status byte are those
it was made of (`StatusFacts`). No frame of this driver writes the status registers (`Commands`), so the protection bit
never changes and an `OK` can be told from it. These proofs have one lemma per action. They found one fact the
properties do not mention: a deselection in the middle of a program frame is a whole command with less data, which is
why `Owes` speaks of frames of any length up to a page.

### The SPI and QSPI drivers

Here four parties move by turns: the driver, the controller, the chip, and the reset. `IInv` of `SpiFlashProofs` has four layers,
each under the weakest condition it holds with, and each proved with the ones above it:

* always: the types and where the driver is. `CallInv`: which frame belongs to which call, and that there are bytes left to
  do; `PhaseInv`: which places belong to which frame, and how much of `Out` is sent there; `CountInv`: how many bytes are stored there.
* while no bus wait has given up (`~hist.stuck`), `BusInv`. `SelectInv`: chip select, line mode, and where the transmit FIFO is
  empty. `HeardInv`: what the chip has heard, followed by what is still in the transmit FIFO, are the bytes of the frame, however far
  the controller lags behind, unless the chip was busy and lost the frame. `RxInv`: how many bytes the receive FIFO holds, where the driver relies
  on it: five after the id, two after a status, one after a data byte, none between two frames. `StatusInv`: a status under way that says
  "ready" was given by a chip that is ready still. `KeptInv`: what is to be written to the status registers, in the driver's locals
  or in the chip's hands, has the protection bits the chip has, unless a reset has cut such a write (`hist.cut`).
* while besides the device fits the chip, `OwedInv`: the command in execution changes what is owed and nothing else.
* while `WaitReady` has not given up either (`InTime`), `TimelyInv`. `BusyInv`: the only moments at which the chip may be at work;
  `AllHeard`: only the request for the id can be lost; `EnabledInv`: the chip is write enabled when the command comes; `QEInv`: the
  QE bit on its way from the driver's local to the chip and back; `ReadInv`: each byte stored, and the one waiting to be, is the
  chip's; `EraseInv`: the erase in the chip's hands is the call's, or is done.

`Ready`, `EraseDone`, `ReadExact` and `BusReleased` are readings of these at the return of a call, `Confined` at any moment, and
`ProtectionKept` is a step from `KeptInv`. The steps are taken in four kinds: within a frame (`Within`), between two frames
(`Turn`), the deselection (`Release`, and a reset, which deselects too), and the byte the controller shifts, which is where all parts meet.
A byte more from the chip moves one from the transmit FIFO to the frame and adds one to the receive FIFO, so that the
sums in `HeardInv` and `RxInv` stay. A deselection that starts a command starts the one of the
stage (`Taking`), because what was heard begins with that stage's command (`FrameFacts`).

### The hand-over

`ClearInv` follows the boot loader's words through RAM: they lie in its data and stack only, and, while
the clearing runs, only in what is still to be cleared (`Left`). That the ranges of a build cover its
data and stack is the one place where the builds are told apart (`Builds`). `ImageInv` follows the chosen
image: it is known from `rsp` first, then from the local variable, from its static copy, and at last from registers
only, and the clearing is no part of it.

### Only model-checked

Liveness and everything with fairness (`CallReturns`, `CallsReturn`, `ReadEraseReturn`, `Boots`): the provers have no rules for
`ENABLED`. Every invariant, every action property and the refinement that a passing run checks are proved. `ProgramAnywhere` and `CallsReturn` of `SpiFlash` are false.

## 5. Where code and documentation disagree

Shown by runs:

1. `flash_map.c:305`. The whole units of a write are programmed from `src`, though its first bytes
   have gone into the first unit. Any write at an offset that is not a multiple of
   `FLASH_PROGRAM_UNIT`, long enough to have whole units, stores wrong bytes and returns 0.
2. `spi_drv.c:201`, `qspi_drv.c:364`. The loop that sends a page is `while(1)` without a `break`.
   `ProgramData` never returns.
3. `Driver_Flash.c:562`. `ProgramData` of the SPIM flash counts its pieces from the address, not from
   the chip's pages: from inside a page, a piece wraps and lands before the address, and OK is returned.
4. `boot.c:27` with `m460.ld`. The clearing of RAM reaches from the data to the end of the stack
   at the top of the RAM, over the image RAM_LOAD has just put between them. On m55m1 the
   clearing of DTCM does the same at the default address (put `Build("m55m1", "RAM_LOAD", FALSE)`
   into `Configs` to see it).

Seen in the source, without a run of their own:

* `spi_drv.c:82`, `qspi_drv.c`: the JEDEC id read sends five bytes and stores the five that come back into
  an array of four.
* `do_boot` asserts that the image's device is the internal flash before it looks where
  the image runs, so with DIRECT_XIP or RAM_LOAD an image in SPI flash ends in the assertion
  (`Build(b, "RAM_LOAD", TRUE)` in `Configs` violates `Boots`).
* A reset while the SPI chip is at work makes the next `Initialize` fail, as the chip does not give its id: `main` ends in its
  panic loop until another reset, though a bootable image is there. `Boots` leaves this case out.
* The QSPI device is declared with 32 MiB and addressed with 24 bits: `SpiFlash` with `FlashSize`
  twice `ChipSize` violates `Confined`.
* `ReadData` and `ProgramData` of the SPI and QSPI devices check the first address only; those of the SPIM
  device check both ends.
* `NVT_NVSPIM_SECTOR_SIZE` is 256 where the erase command takes 4 KiB, and the range check of `EraseSector` is
  off by one; `flash_area_erase` above it erases each sector sixteen times and keeps inside the device. An erase of a
  protected chip returns OK, a program an error.
* `flash_area_get_sector` answers with `page_size`, which on the serial flash is not what an erase erases.
* After a time-out of `fmc_drv.c` the controller ignores the registers of the next call until it is done, and that call
  may report the end of the first command as its own; `OKMeansDone` is therefore stated for calls that begin clean.
* `flash_area_get_sectors` returns 0 with a shortened list when the room is too small; its check
  for that comes after a loop that never goes past the room.
* The id of a slot that does not exist is -1 and arrives at `flash_area_open` as 255, the id of
  the scratch area, where the comment says that the open will fail.
* `FLASH_AREA_SCRATCH_OFFSET` is an absolute address; the header describes an offset relative to
  the device. The driver of the LDROM takes absolute addresses, so the two fit.

## 6. Plan

Done, in this order:

1. `CmsisFlash`, `FlashMap`, `FlashStore`: the flash map, its runs, the confinement theorems.
2. `SpiFlash`: the SPI and QSPI drivers with the chip; then the chip in a module of its own
   (`NorFlash`) and resets beside it.
3. `FmcDriver`: the on-chip driver beside a late controller.
4. `FlashLayout`, `SlotMap`: layouts, slots and sectors, `flash_area_get_sector`.
5. `BootFlow`: the hand-over, also with a chip still at work.
6. `SpimFlash`: `spim_drv.c`.
7. Proofs: all safety properties of `FlashMap`, the refinement of `FlashStore`, `FmcDriver`, `SlotMap`, `BootFlow`,
   `SpimFlash` and `SpiFlash` with `NorFlash`.

Left:

* Composition: `FlashMap` over the SPI device, whose `ReadData` returns OK rather than a number of
  items; `CmsisFlash` refined by `FmcDriver` (a late command is a failed one that may still take effect).
* An abstract specification of a serial flash device (calls that read, erase and program a store of bytes) which `SpimFlash` and
  `SpiFlash` implement, as `FlashMap` implements `FlashStore`.

## 7. Not modelled

* bootutil (the choice of an image, the swap and its status, signatures), Mbed TLS and the BSPs:
  submodules whose contents are not in the repository. `boot_go` is one external step of `BootFlow`.
* `rmc_drv.c`: return codes over three BSP functions that are not in the repository. Seen from
  `FlashMap` an RMC part is one with a `ProgramUnit` of 4.
* Clock, pin and UART set-up, console output, C library stubs, keys: no state the
  properties are about.
* Build files: only the choices that decide behaviour (upgrade strategy, the secondary slot's
  flash, linker script and RAM_LOAD address) appear, as `Configs` and `Layouts`.
