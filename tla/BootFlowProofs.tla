--------------------------- MODULE BootFlowProofs ---------------------------
(***************************************************************************)
(* The hand-over, for every set of builds, any contents of the slots and   *)
(* any number of resets: what of the boot loader is left in RAM, that the  *)
(* drivers are there when boot_go needs them, and, where RAM_LOAD images   *)
(* are not within the RAM that is cleared, that the chosen image starts.   *)
(***************************************************************************)
EXTENDS BootFlow, TLAPS

\* Of the builds only m460 with the linker script of armclang leaves a loaded image
\* out of what it clears.
KeepsImage == \A c \in Configs : c.strategy = "RAM_LOAD" => c.build = "m460_armclang"

-----------------------------------------------------------------------------
(* What is left to clear.                                                  *)

\* The words still to be cleared: the first range up to r2, the others whole.
Left == {w \in Words : \E k \in 1 .. Len(clear) :
            clear[k][1] <= w /\ w < clear[k][1] + (IF k = 1 THEN r2 ELSE clear[k][2])}

\* What the boot loader has written to RAM, its data and its stack, is cleared
\* before the application runs.
ClearInv ==
    /\ clear # <<>> => r2 <= clear[1][2]
    /\ \A w \in Words : ram[w] = "bl2" => w \in {Data, Stack}
    /\ pc = "clear" => \A w \in Words : ram[w] = "bl2" => w \in Left
    /\ Forgotten

\* Only an SPI flash that the build has can be at work.
IInv == TypeOK /\ ClearInv /\ FlashReady /\ (spi_busy => config.spi)

\* The ranges left after the first.
LEMMA TailFacts ==
    /\ Tail(<<<<0, 2>>>>) = <<>> /\ Tail(<<<<0, 6>>>>) = <<>>
    /\ Tail(<<<<7, 1>>, <<1, 6>>>>) = <<<<1, 6>>>> /\ Tail(<<<<1, 6>>>>) = <<>>
    OBVIOUS

\* What is cleared, build by build.
LEMMA Builds ==
    ASSUME config \in Configs
    PROVE  \/ config.build = "m460_armclang" /\ ClearRanges = <<<<0, 2>>>> /\ Data = 0 /\ Stack = 1
           \/ config.build = "m460_gnu" /\ ClearRanges = <<<<0, 6>>>> /\ Data = 0 /\ Stack = 5
           \/ config.build = "m55m1" /\ ClearRanges = <<<<7, 1>>, <<1, 6>>>> /\ Data = 7 /\ Stack = 6
    BY BootAssumption DEF ClearRanges, Data, Stack

\* The ranges a build still has to clear, at any moment.
LEMMA RangesLeft ==
    ASSUME config \in Configs, clear \in {<<>>, Tail(ClearRanges), ClearRanges}
    PROVE  \/ clear = <<>>
           \/ config.build = "m460_armclang" /\ clear = <<<<0, 2>>>>
           \/ config.build = "m460_gnu" /\ clear = <<<<0, 6>>>>
           \/ config.build = "m55m1" /\ clear = <<<<7, 1>>, <<1, 6>>>>
           \/ config.build = "m55m1" /\ clear = <<<<1, 6>>>>
    <1>1. CASE clear = ClearRanges
      BY <1>1, Builds
    <1>2. CASE clear = Tail(ClearRanges)
      <2>1. Tail(ClearRanges) \in {<<>>, <<<<1, 6>>>>}
            /\ (Tail(ClearRanges) = <<<<1, 6>>>> => config.build = "m55m1")
        <3>1. CASE ClearRanges = <<<<0, 2>>>>
          BY <3>1, TailFacts
        <3>2. CASE ClearRanges = <<<<0, 6>>>>
          BY <3>2, TailFacts
        <3>3. CASE ClearRanges = <<<<7, 1>>, <<1, 6>>>> /\ config.build = "m55m1"
          BY <3>3, TailFacts
        <3> QED BY <3>1, <3>2, <3>3, Builds
      <2> QED BY <1>2, <2>1
    <1> QED BY <1>1, <1>2

\* The first of them, and what follows it.
LEMMA FirstRange ==
    ASSUME config \in Configs, clear \in {<<>>, Tail(ClearRanges), ClearRanges}, clear # <<>>
    PROVE  \/ /\ clear[1][1] = 0 /\ clear[1][2] = 2 /\ Len(clear) = 1 /\ Tail(clear) = <<>>
              /\ config.build = "m460_armclang"
           \/ /\ clear[1][1] = 0 /\ clear[1][2] = 6 /\ Len(clear) = 1 /\ Tail(clear) = <<>>
              /\ config.build = "m460_gnu"
           \/ /\ clear[1][1] = 7 /\ clear[1][2] = 1 /\ Len(clear) = 2 /\ Tail(clear) = <<<<1, 6>>>>
              /\ clear[2][1] = 1 /\ clear[2][2] = 6 /\ config.build = "m55m1"
              /\ Tail(clear) = Tail(ClearRanges)
           \/ /\ clear[1][1] = 1 /\ clear[1][2] = 6 /\ Len(clear) = 1 /\ Tail(clear) = <<>>
              /\ config.build = "m55m1"
    <1>1. CASE clear = <<<<0, 2>>>> /\ config.build = "m460_armclang"
      BY <1>1, TailFacts
    <1>2. CASE clear = <<<<0, 6>>>> /\ config.build = "m460_gnu"
      BY <1>2, TailFacts
    <1>3. CASE clear = <<<<7, 1>>, <<1, 6>>>> /\ config.build = "m55m1"
      <2>1. ClearRanges = clear
        BY <1>3, Builds
      <2> QED BY <1>3, <2>1, TailFacts
    <1>4. CASE clear = <<<<1, 6>>>> /\ config.build = "m55m1"
      BY <1>4, TailFacts
    <1> QED BY <1>1, <1>2, <1>3, <1>4, RangesLeft

-----------------------------------------------------------------------------
(* The images.                                                             *)

\* Slots lie at one of three offsets in one of two devices.
LEMMA Placed ==
    ASSUME config \in Configs, NEW s \in Slot
    PROVE  /\ Device(s) \in {100, 101} /\ Offset(s) \in {0, 2, 10}
           /\ Device(s) = 100 => Offset(s) \in {2, 10}
           /\ Device("primary") = 100 /\ Offset("primary") = 2
           /\ Device("secondary") = 100 => Offset("secondary") = 10
    <1>1. config.spi \in BOOLEAN
      BY BootAssumption
    <1> QED BY <1>1 DEF Device, Offset, Slot, FLASH_DEVICE_ID

\* An address of the internal flash is that of one image at most.
LEMMA ImageInFlash ==
    ASSUME config \in Configs, NEW a, a.mem = "flash",
           NEW s \in Slot, Device(s) = 100, a.at = Offset(s) + 1
    PROVE  ImageAt(a) = slots[s]
    <1>1. \A t \in Slot : Device(t) = 100 /\ a.at = Offset(t) + 1 => t = s
      BY Placed DEF Slot
    <1>2. (CHOOSE t \in Slot : Device(t) = FLASH_DEVICE_ID /\ a.at = Offset(t) + ih_hdr_size) = s
      BY <1>1 DEF FLASH_DEVICE_ID, ih_hdr_size
    <1>3. \E t \in Slot : a.mem = "flash" /\ Device(t) = FLASH_DEVICE_ID /\ a.at = Offset(t) + ih_hdr_size
      BY DEF FLASH_DEVICE_ID, ih_hdr_size
    <1> QED BY <1>2, <1>3 DEF ImageAt

\* Whatever is read as a vector table is something RAM or a slot can hold.
LEMMA ImageType ==
    ASSUME config \in Configs, slots \in [Slot -> Contents], ram \in [Words -> Values], NEW a
    PROVE  ImageAt(a) \in Values
    <1>1. CASE a.mem = "ram"
      BY <1>1 DEF ImageAt, Values
    <1>2. CASE a.mem # "ram"
      <2>1. CASE \E s \in Slot : a.mem = "flash" /\ Device(s) = FLASH_DEVICE_ID
                                 /\ a.at = Offset(s) + ih_hdr_size
        <3>1. PICK s \in Slot : a.mem = "flash" /\ Device(s) = 100 /\ a.at = Offset(s) + 1
          BY <2>1 DEF FLASH_DEVICE_ID, ih_hdr_size
        <3>2. ImageAt(a) = slots[s]
          BY <3>1, ImageInFlash
        <3> QED BY <3>2 DEF Values
      <2> QED BY <1>2, <2>1 DEF ImageAt, Values
    <1> QED BY <1>1, <1>2

\* Taking an upgrade leaves contents in both slots.
LEMMA UpgradedType ==
    ASSUME slots \in [Slot -> Contents]
    PROVE  Upgraded \in [Slot -> Contents]
    <1>1. /\ slots["primary"] \in Contents /\ slots["secondary"] \in Contents
          /\ Slot = {"primary", "secondary"} /\ "empty" \in Contents
      BY DEF Slot, Contents
    <1>2. \A p, q \in Contents : [primary |-> p, secondary |-> q] \in [Slot -> Contents]
      BY <1>1
    <1> QED BY <1>1, <1>2 DEF Upgraded

\* boot_go boots from one of the candidates, when there is one.
LEMMA NewestIsCandidate ==
    ASSUME NEW s, Candidates(s) # {}
    PROVE  Newest(s) \in Candidates(s)
    <1>1. Candidates(s) \subseteq {"primary", "secondary"}
      BY DEF Candidates, Slot
    <1> QED BY <1>1 DEF Newest

-----------------------------------------------------------------------------
(* Every step keeps the invariant.                                         *)

\* The build is fixed, and with it what is derived from it.
LEMMA SameBuild ==
    ASSUME config' = config
    PROVE  /\ ClearRanges' = ClearRanges /\ Data' = Data /\ Stack' = Stack /\ Devices' = Devices
           /\ \A s : Device(s)' = Device(s) /\ Offset(s)' = Offset(s)
    BY DEF ClearRanges, Data, Stack, Devices, Device, Offset

\* A step that leaves RAM and the ranges alone clears nothing and writes nothing.
LEMMA SameRam ==
    ASSUME IInv, UNCHANGED <<config, ram, clear, r2>>,
           pc' = "clear" => pc = "clear", pc' = "running" => pc = "running" \/ (Left = {} /\ pc = "clear")
    PROVE  ClearInv'
    <1>1. Left' = Left /\ Data' = Data /\ Stack' = Stack
      BY DEF Left, Data, Stack
    <1>2. Forgotten'
      BY <1>1 DEF IInv, ClearInv, Forgotten, TypeOK
    <1> QED BY <1>1, <1>2 DEF IInv, ClearInv

\* At first RAM holds nothing of the boot loader.
LEMMA InitEstablishes == Init => IInv
    <1> SUFFICES ASSUME Init PROVE IInv
      OBVIOUS
    <1>1. TypeOK
      <2>1. NoAddress \in Address /\ 0 \in 0 .. MaxResets
        BY BootAssumption DEF NoAddress, Address
      <2>2. ram \in [Words -> Values] /\ MSP \in Values /\ r7 \in Values
        BY DEF Init, Values
      <2>3. slots \in [Slot -> Contents] /\ chosen \in Contents
        BY DEF Init, Contents
      <2>4. rsp \in [br_flash_dev_id : {0, 100, 101}, br_image_off : {0, 2, 10}, ram_load : BOOLEAN]
        BY DEF Init
      <2>5. /\ config \in Configs /\ spi_ok \in BOOLEAN /\ spi_busy \in BOOLEAN
            /\ pending \in BOOLEAN /\ pc = "reset" /\ drivers = {}
            /\ r2 = 0 /\ clear = <<>>
        BY DEF Init
      <2>6. vt \in Address /\ vt_cpy \in Address /\ VTOR \in Address /\ resets \in 0 .. MaxResets
        BY <2>1 DEF Init
      <2> QED BY <2>2, <2>3, <2>4, <2>5, <2>6 DEF TypeOK
    <1>2. ClearInv
      BY DEF Init, ClearInv, Forgotten
    <1>3. FlashReady /\ ~spi_busy
      BY DEF Init, FlashReady
    <1> QED BY <1>1, <1>2, <1>3 DEF IInv

\* main, and the drivers boot_platform_init brings up.
LEMMA StartPreserves ==
    ASSUME IInv, Main \/ boot_platform_init
    PROVE  IInv'
    <1>1. config' = config /\ config \in Configs /\ TypeOK
      BY DEF Main, boot_platform_init, fixed, IInv, TypeOK
    <1>b. /\ ClearRanges' = ClearRanges /\ Data' = Data /\ Stack' = Stack /\ Devices' = Devices
      BY <1>1, SameBuild
    <1>2. CASE Main
      <2>1. /\ pc' = "platform_init" /\ ram' = [ram EXCEPT ![Data] = "bl2", ![Stack] = "bl2"]
            /\ UNCHANGED <<fixed, flash, drivers, rsp, vt, vt_cpy, regs, chosen>>
        BY <1>2 DEF Main
      <2>2. ram' \in [Words -> Values] /\ \A w \in Words : ram'[w] = "bl2" => w \in {Data, Stack}
        BY <1>1, <2>1 DEF TypeOK, Values, IInv, ClearInv
      <2>3. TypeOK'
        BY <1>1, <1>b, <2>1, <2>2 DEF TypeOK, fixed, flash, regs
      <2>4. ClearInv' /\ FlashReady' /\ (spi_busy' => config'.spi)
        BY <1>b, <2>1, <2>2 DEF ClearInv, Forgotten, FlashReady, regs, fixed, IInv
      <2> QED BY <2>3, <2>4 DEF IInv
    <1>3. CASE boot_platform_init
      <2>1. /\ pc' \in {"panic", "boot_go"} /\ drivers' \subseteq Devices
            /\ pc' = "boot_go" => drivers' = Devices
            /\ UNCHANGED <<fixed, flash, ram, rsp, vt, vt_cpy, regs, chosen>>
            /\ pc' = "boot_go" => ~(config.spi /\ (~spi_ok \/ spi_busy))
        BY <1>3 DEF boot_platform_init, Devices
      <2>2. TypeOK'
        BY <1>1, <1>b, <2>1 DEF TypeOK, fixed, flash, regs
      <2>3. ClearInv'
        BY <2>1, SameRam DEF regs, fixed
      <2>4. FlashReady' /\ (spi_busy' => config'.spi)
        BY <1>b, <2>1 DEF FlashReady, fixed, IInv
      <2> QED BY <2>2, <2>3, <2>4 DEF IInv
    <1> QED BY <1>2, <1>3

\* boot_go takes an upgrade, decides for an image and may copy it to RAM.
LEMMA BootGoPreserves ==
    ASSUME IInv, boot_go
    PROVE  IInv'
    <1>1. /\ config' = config /\ config \in Configs /\ TypeOK
          /\ pc = "boot_go" /\ slots' = Upgraded /\ pending' = FALSE
          /\ UNCHANGED <<fixed, drivers, vt, vt_cpy, regs>>
      BY DEF boot_go, fixed, IInv, TypeOK
    <1>b. ClearRanges' = ClearRanges /\ Data' = Data /\ Stack' = Stack /\ Devices' = Devices
      BY <1>1, SameBuild
    <1>2. slots' \in [Slot -> Contents]
      BY <1>1, UpgradedType DEF TypeOK
    <1>3. CASE Candidates(Upgraded) = {}
      <2>1. pc' = "panic" /\ UNCHANGED <<ram, rsp, chosen>>
        BY <1>3 DEF boot_go
      <2>2. TypeOK'
        BY <1>1, <1>2, <1>b, <2>1 DEF TypeOK, fixed, regs
      <2>3. ClearInv'
        BY <1>1, <2>1, SameRam DEF regs
      <2> QED BY <1>1, <2>1, <2>2, <2>3 DEF IInv, FlashReady, fixed
    <1>4. CASE Candidates(Upgraded) # {}
      <2> DEFINE s == Newest(Upgraded)
      <2>1. s \in Slot /\ Upgraded[s] \in Images
        BY <1>4, NewestIsCandidate DEF Candidates
      <2>2. /\ chosen' = Upgraded[s] /\ pc' = "do_boot"
            /\ rsp' = [br_flash_dev_id |-> Device(s), br_image_off |-> Offset(s),
                       ram_load |-> config.strategy = "RAM_LOAD"]
            /\ ram' = ram \/ ram' = [w \in Words |-> IF w \in Exec THEN Upgraded[s] ELSE ram[w]]
        BY <1>4 DEF boot_go
      <2> HIDE DEF s
      <2>3. Device(s) \in {0, 100, 101} /\ Offset(s) \in {0, 2, 10}
        BY <1>1, <2>1, Placed
      <2>4. ram' \in [Words -> Values] /\ \A w \in Words : ram'[w] = "bl2" => ram[w] = "bl2"
        BY <1>1, <2>1, <2>2 DEF TypeOK, Values, Contents, Images
      <2>5. chosen' \in Contents
        BY <2>1, <2>2 DEF Contents
      <2>6. TypeOK'
        <3>1. rsp' \in [br_flash_dev_id : {0, 100, 101}, br_image_off : {0, 2, 10}, ram_load : BOOLEAN]
          BY <2>2, <2>3
        <3> QED BY <1>1, <1>2, <1>b, <2>2, <2>4, <2>5, <3>1 DEF TypeOK, fixed, regs
      <2>7. ClearInv'
        BY <1>1, <1>b, <2>2, <2>4 DEF ClearInv, Forgotten, IInv, regs
      <2> QED BY <1>1, <1>b, <2>2, <2>6, <2>7 DEF IInv, FlashReady, fixed
    <1> QED BY <1>3, <1>4

\* do_boot, boot_platform_quit and the change of the stack pointer.
LEMMA QuitPreserves ==
    ASSUME IInv, do_boot \/ boot_platform_quit \/ set_MSP
    PROVE  IInv'
    <1>1. /\ config' = config /\ config \in Configs /\ TypeOK
          /\ UNCHANGED <<fixed, flash, ram, rsp, chosen, r7, clear, r2>>
      BY DEF do_boot, boot_platform_quit, set_MSP, fixed, regs, IInv, TypeOK
    <1>b. ClearRanges' = ClearRanges /\ Data' = Data /\ Stack' = Stack /\ Devices' = Devices
      BY <1>1, SameBuild
    <1>2. /\ pc \in {"do_boot", "quit", "set_msp"} /\ pc' \in {"quit", "assert", "set_msp", "jump"}
          /\ pc' = "assert" => pc = "do_boot" /\ drivers' = drivers
      BY DEF do_boot, boot_platform_quit, set_MSP
    <1>3. ClearInv'
      BY <1>1, <1>2, SameRam
    <1>4. FlashReady' /\ (spi_busy' => config'.spi)
      BY <1>1, <1>2, <1>b DEF FlashReady, IInv, fixed
    <1>5. vt' \in Address /\ vt_cpy' \in Address /\ VTOR' \in Address
      <2>1. vector_table(rsp) \in Address
        BY <1>1 DEF vector_table, Address, TypeOK, FLASH_DEVICE_BASE, ih_hdr_size
      <2>2. NoAddress \in Address
        BY DEF NoAddress, Address
      <2> QED BY <1>1, <2>1, <2>2 DEF do_boot, boot_platform_quit, set_MSP, TypeOK, regs
    <1>6. MSP' \in Values /\ drivers' \subseteq Devices
      <2>1. ImageAt(vt_cpy) \in Values
        BY <1>1, ImageType DEF TypeOK
      <2> QED BY <1>1, <2>1 DEF do_boot, boot_platform_quit, set_MSP, TypeOK, regs
    <1>7. TypeOK'
      BY <1>1, <1>2, <1>5, <1>6, <1>b DEF TypeOK, fixed, flash
    <1> QED BY <1>3, <1>4, <1>7 DEF IInv

\* The reset handler goes to a register, and what is to be cleared covers what the
\* boot loader has written.
LEMMA JumpPreserves ==
    ASSUME IInv, boot_jump_to_next_image
    PROVE  IInv'
    <1>1. /\ config' = config /\ config \in Configs /\ TypeOK /\ pc' = "clear"
          /\ r7' = ImageAt(vt_cpy) /\ clear' = ClearRanges /\ r2' = ClearRanges[1][2]
          /\ UNCHANGED <<fixed, flash, ram, drivers, rsp, vt, vt_cpy, VTOR, MSP, chosen>>
      BY DEF boot_jump_to_next_image, fixed, IInv, TypeOK
    <1>b. ClearRanges' = ClearRanges /\ Data' = Data /\ Stack' = Stack /\ Devices' = Devices
      BY <1>1, SameBuild
    <1>2. r7' \in Values
      BY <1>1, ImageType DEF TypeOK
    <1>3. r2' \in 0 .. 6 /\ r2' <= clear'[1][2] /\ Data \in Left' /\ Stack \in Left'
      <2>1. CASE config.build = "m460_armclang" /\ ClearRanges = <<<<0, 2>>>> /\ Data = 0 /\ Stack = 1
        BY <1>1, <2>1 DEF Left, Words
      <2>2. CASE config.build = "m460_gnu" /\ ClearRanges = <<<<0, 6>>>> /\ Data = 0 /\ Stack = 5
        BY <1>1, <2>2 DEF Left, Words
      <2>3. CASE config.build = "m55m1" /\ ClearRanges = <<<<7, 1>>, <<1, 6>>>> /\ Data = 7 /\ Stack = 6
        <3>1. r2' = 1 /\ clear'[1][1] = 7 /\ clear'[2][1] = 1 /\ clear'[2][2] = 6 /\ Len(clear') = 2
          BY <1>1, <2>3
        <3>2. Left' = {w \in Words : \E k \in 1 .. 2 :
                          clear'[k][1] <= w /\ w < clear'[k][1] + (IF k = 1 THEN r2' ELSE clear'[k][2])}
          BY <3>1 DEF Left
        <3>3. Data' \in Left'
          BY <1>b, <2>3, <3>1, <3>2 DEF Words
        <3>4. Stack' \in Left'
          BY <1>b, <2>3, <3>1, <3>2 DEF Words
        <3>5. clear'[1][2] = 1
          BY <1>1, <2>3
        <3> QED BY <1>b, <3>1, <3>3, <3>4, <3>5
      <2> QED BY <1>1, <2>1, <2>2, <2>3, Builds
    <1>4. TypeOK'
      BY <1>1, <1>2, <1>3, <1>b DEF TypeOK, fixed, flash
    <1>5. ClearInv'
      BY <1>1, <1>3, <1>b DEF ClearInv, Forgotten, IInv
    <1> QED BY <1>1, <1>4, <1>5 DEF IInv, FlashReady, fixed

\* The words left: of a single range those below r2, of two also the second.
LEMMA LeftFacts ==
    ASSUME TypeOK, clear # <<>>
    PROVE  Left = {w \in Words : \/ clear[1][1] <= w /\ w < clear[1][1] + r2
                                 \/ Len(clear) = 2 /\ clear[2][1] <= w /\ w < clear[2][1] + clear[2][2]}
    <1>1. Len(clear) \in {1, 2}
      BY FirstRange DEF TypeOK
    <1>2. CASE Len(clear) = 1
      BY <1>2 DEF Left
    <1>3. CASE Len(clear) = 2
      BY <1>3 DEF Left
    <1> QED BY <1>1, <1>2, <1>3

\* One word is cleared, or the loop goes on to the next range.
LEMMA ClearPreserves ==
    ASSUME IInv, boot_clear_ram_area
    PROVE  IInv'
    <1>1. /\ config' = config /\ config \in Configs /\ TypeOK /\ pc = "clear" /\ clear # <<>>
          /\ UNCHANGED <<fixed, flash, pc, drivers, rsp, vt, VTOR, MSP, r7, chosen>>
      BY DEF boot_clear_ram_area, fixed, IInv, TypeOK
    <1>b. ClearRanges' = ClearRanges /\ Data' = Data /\ Stack' = Stack /\ Devices' = Devices
      BY <1>1, SameBuild
    <1>2. clear \in {<<>>, Tail(ClearRanges), ClearRanges} /\ r2 \in 0 .. 6 /\ r2 <= clear[1][2]
      BY <1>1 DEF TypeOK, IInv, ClearInv
    <1>3. CASE r2 - 1 < 0
      <2>1. /\ clear' = Tail(clear) /\ r2' = (IF Len(clear) > 1 THEN clear[2][2] ELSE 0)
            /\ r2 = 0 /\ UNCHANGED <<ram, vt_cpy>>
        BY <1>2, <1>3 DEF boot_clear_ram_area
      <2>2. \/ clear' = <<>> /\ r2' = 0 /\ Len(clear) = 1
            \/ /\ clear' = <<<<1, 6>>>> /\ clear' = Tail(ClearRanges) /\ r2' = 6 /\ Len(clear) = 2
               /\ clear[2][1] = 1 /\ clear[2][2] = 6
        BY <1>1, <1>2, <2>1, FirstRange
      <2>3. Left \subseteq Left' /\ (clear' # <<>> => r2' <= clear'[1][2])
        <3>1. clear[1][1] \in Int
          BY <1>1, <1>2, FirstRange
        <3>2. CASE clear' = <<>> /\ Len(clear) = 1
          BY <1>1, <2>1, <3>1, <3>2, LeftFacts DEF Words
        <3>3. CASE clear' = <<<<1, 6>>>> /\ r2' = 6 /\ Len(clear) = 2 /\ clear[2][1] = 1 /\ clear[2][2] = 6
          <4>1. Left \subseteq {w \in Words : 1 <= w /\ w < 1 + 6}
            BY <1>1, <2>1, <3>1, <3>3, LeftFacts DEF Words
          <4>2. Left' = {w \in Words : 1 <= w /\ w < 1 + 6}
            BY <3>3 DEF Left
          <4> QED BY <3>3, <4>1, <4>2
        <3> QED BY <2>2, <3>2, <3>3
      <2>4. TypeOK'
        BY <1>1, <1>b, <2>1, <2>2 DEF TypeOK, fixed, flash
      <2>5. ClearInv'
        BY <1>1, <1>b, <2>1, <2>3 DEF ClearInv, Forgotten, IInv
      <2> QED BY <1>1, <2>4, <2>5 DEF IInv, FlashReady, fixed
    <1>4. CASE ~(r2 - 1 < 0)
      <2> DEFINE w0 == clear[1][1] + r2 - 1
      <2>1. /\ r2' = r2 - 1 /\ ram' = [ram EXCEPT ![w0] = "zero"] /\ UNCHANGED clear
            /\ vt_cpy' = IF w0 = Data THEN NoAddress ELSE vt_cpy
        BY <1>4 DEF boot_clear_ram_area
      <2>2. clear[1][1] \in Int /\ w0 \in Words
        BY <1>1, <1>2, <1>4, FirstRange DEF Words
      <2> HIDE DEF w0
      <2>3. ram' \in [Words -> Values] /\ ram'[w0] = "zero"
            /\ \A w \in Words : w # w0 => ram'[w] = ram[w]
        BY <1>1, <2>1, <2>2 DEF TypeOK, Values
      <2>4. \A w \in Left : w = w0 \/ w \in Left'
        <3>1. Len(clear) \in {1, 2} /\ (Len(clear) = 2 => clear[2][1] \in Int /\ clear[2][2] \in Int)
          BY <1>1, <1>2, FirstRange
        <3>2. ASSUME NEW w \in Words, clear[1][1] <= w, w < clear[1][1] + r2
              PROVE  w = w0 \/ w \in Left'
          <4>1. w = w0 \/ w < clear[1][1] + (r2 - 1)
            BY <1>2, <2>2, <3>2 DEF Words, w0
          <4> QED BY <2>1, <3>1, <3>2, <4>1 DEF Left
        <3>3. ASSUME NEW w \in Words, Len(clear) = 2, clear[2][1] <= w, w < clear[2][1] + clear[2][2]
              PROVE  w \in Left'
          BY <2>1, <3>3 DEF Left
        <3> QED BY <1>1, <3>2, <3>3, LeftFacts
      <2>5. NoAddress \in Address
        BY DEF NoAddress, Address
      <2>6. TypeOK'
        BY <1>1, <1>2, <1>4, <1>b, <2>1, <2>3, <2>5 DEF TypeOK, fixed, flash
      <2>7. ClearInv'
        <3>1. \A w \in Words : ram'[w] = "bl2" => ram[w] = "bl2" /\ w # w0
          BY <2>3
        <3>2. r2' <= clear'[1][2]
          BY <1>1, <1>2, <2>1, FirstRange
        <3> QED BY <1>1, <1>b, <2>4, <3>1, <3>2 DEF ClearInv, Forgotten, IInv
      <2> QED BY <1>1, <2>6, <2>7 DEF IInv, FlashReady, fixed
    <1> QED BY <1>3, <1>4

\* The branch to the application, when nothing is left to clear.
LEMMA BranchPreserves ==
    ASSUME IInv, Branch
    PROVE  IInv'
    <1>1. /\ config' = config /\ TypeOK /\ pc = "clear" /\ clear = <<>> /\ pc' = "running"
          /\ UNCHANGED <<fixed, flash, ram, drivers, rsp, vt, vt_cpy, regs, chosen>>
      BY DEF Branch, fixed, IInv
    <1>b. ClearRanges' = ClearRanges /\ Devices' = Devices
      BY <1>1, SameBuild
    <1>2. Left = {}
      BY <1>1 DEF Left
    <1>3. ClearInv'
      BY <1>1, <1>2, SameRam DEF regs
    <1>4. TypeOK'
      BY <1>1, <1>b DEF TypeOK, fixed, flash, regs
    <1> QED BY <1>1, <1>3, <1>4 DEF IInv, FlashReady, fixed

\* A reset, with RAM as it is; the SPI flash may still be at work.
LEMMA ResetPreserves ==
    ASSUME IInv, Reset
    PROVE  IInv'
    <1>1. /\ config' = config /\ config \in Configs /\ TypeOK /\ pc' = "reset" /\ drivers' = {}
          /\ clear' = <<>> /\ resets < MaxResets /\ resets' = resets + 1
          /\ UNCHANGED <<config, spi_ok, ram, rsp, r7, r2, chosen>>
          /\ VTOR' = NoAddress /\ MSP' = "bl2" /\ vt' = NoAddress /\ vt_cpy' = NoAddress
      BY DEF Reset, IInv, TypeOK
    <1>b. ClearRanges' = ClearRanges /\ Data' = Data /\ Stack' = Stack /\ Devices' = Devices
      BY <1>1, SameBuild
    <1>2. slots' \in [Slot -> Contents] /\ pending' \in BOOLEAN
      <2>1. CASE UNCHANGED flash
        BY <1>1, <2>1 DEF flash, TypeOK
      <2>2. CASE /\ \E c \in Contents : slots' = [slots EXCEPT !["secondary"] = c]
                 /\ pending' \in BOOLEAN
        <3>1. PICK c \in Contents : slots' = [slots EXCEPT !["secondary"] = c]
          BY <2>2
        <3>2. slots \in [Slot -> Contents]
          BY <1>1 DEF TypeOK
        <3> QED BY <2>2, <3>1, <3>2
      <2> QED BY <2>1, <2>2 DEF Reset
    <1>3. spi_busy' \in BOOLEAN /\ (spi_busy' => config'.spi)
      <2>1. spi_busy \in BOOLEAN /\ config.spi \in BOOLEAN /\ (spi_busy => config.spi)
        BY <1>1, BootAssumption DEF TypeOK, IInv
      <2>2. spi_busy' = FALSE \/ spi_busy' = (spi_busy \/ (config.spi /\ pc \in {"boot_go", "running"}))
        BY DEF Reset
      <2> QED BY <1>1, <2>1, <2>2
    <1>4. NoAddress \in Address /\ "bl2" \in Values /\ resets' \in 0 .. MaxResets
      BY <1>1, BootAssumption DEF NoAddress, Address, Values, TypeOK
    <1>5. TypeOK'
      BY <1>1, <1>2, <1>3, <1>4, <1>b DEF TypeOK
    <1>6. ClearInv'
      BY <1>1, <1>b DEF ClearInv, Forgotten, IInv
    <1> QED BY <1>1, <1>3, <1>5, <1>6 DEF IInv, FlashReady

\* Every step.
LEMMA StepPreserves == IInv /\ [Next]_vars => IInv'
    <1> SUFFICES ASSUME IInv, [Next]_vars PROVE IInv'
      OBVIOUS
    <1>1. CASE SpiEnds
      <2>1. /\ spi_busy' = FALSE
            /\ UNCHANGED <<config, spi_ok, resets, flash, ram, pc, drivers, rsp, vt, vt_cpy, regs, chosen>>
        BY <1>1 DEF SpiEnds
      <2>b. ClearRanges' = ClearRanges /\ Data' = Data /\ Stack' = Stack /\ Devices' = Devices
        BY <2>1, SameBuild
      <2>2. ClearInv'
        <3>1. UNCHANGED <<config, ram, clear, r2>>
          BY <2>1 DEF regs
        <3>2. (pc' = "clear" => pc = "clear") /\ (pc' = "running" => pc = "running")
          BY <2>1
        <3> QED BY <3>1, <3>2, SameRam
      <2>3. TypeOK'
        <3>1. TypeOK
          BY DEF IInv
        <3>2. /\ spi_busy' \in BOOLEAN
              /\ UNCHANGED <<config, spi_ok, resets, slots, pending, ram, pc, drivers, rsp, vt, vt_cpy>>
              /\ UNCHANGED <<VTOR, MSP, r7, clear, r2, chosen>>
          BY <2>1 DEF flash, regs
        <3> QED BY <2>b, <3>1, <3>2 DEF TypeOK
      <2> QED BY <2>1, <2>b, <2>2, <2>3 DEF IInv, FlashReady
    <1>2. CASE UNCHANGED vars
      <2>b. ClearRanges' = ClearRanges /\ Data' = Data /\ Stack' = Stack /\ Devices' = Devices
        BY <1>2, SameBuild DEF vars, fixed
      <2>2. ClearInv'
        <3>1. UNCHANGED <<config, ram, clear, r2>>
          BY <1>2 DEF vars, regs, fixed
        <3>2. (pc' = "clear" => pc = "clear") /\ (pc' = "running" => pc = "running")
          BY <1>2 DEF vars
        <3> QED BY <3>1, <3>2, SameRam
      <2>3. TypeOK'
        BY <1>2, <2>b DEF IInv, TypeOK, vars, fixed, flash, regs
      <2> QED BY <1>2, <2>b, <2>2, <2>3 DEF IInv, FlashReady, vars, fixed
    <1> QED BY <1>1, <1>2, StartPreserves, BootGoPreserves, QuitPreserves, JumpPreserves,
               ClearPreserves, BranchPreserves, ResetPreserves DEF Next, Step

-----------------------------------------------------------------------------
(* The theorems that hold of every build.                                  *)

\* The invariant holds throughout.
THEOREM Invariance == Spec => []IInv
    BY InitEstablishes, StepPreserves, PTL DEF Spec

\* The types of the boot flow's variables: in particular the clearing never leaves
\* the ranges of boot_clear_ram_area.
THEOREM TypeCorrect == Spec => []TypeOK
    <1>1. IInv => TypeOK
      BY DEF IInv
    <1> QED BY <1>1, Invariance, PTL

\* boot_go never meets a driver that is not initialized or a chip still at work,
\* whatever happened before the last reset.
THEOREM FlashIsReady == Spec => []FlashReady
    <1>1. IInv => FlashReady
      BY DEF IInv
    <1> QED BY <1>1, Invariance, PTL

\* The application finds nothing of the boot loader in RAM, however many resets
\* fell into the clearing.
THEOREM NothingIsLeft == Spec => []Forgotten
    <1>1. IInv => Forgotten
      BY DEF IInv, ClearInv
    <1> QED BY <1>1, Invariance, PTL
-----------------------------------------------------------------------------
(* The image that starts, when what is cleared is no part of one.          *)

\* From the decision of boot_go to the application.
Decided == {"do_boot", "quit", "set_msp", "jump", "clear", "running"}

\* An address of the chosen image's vector table.
Points(a) ==
    \/ config.strategy = "RAM_LOAD" /\ a.mem = "ram" /\ a.at = 4
    \/ a.mem = "flash" /\ \E s \in Slot : Device(s) = 100 /\ slots[s] = chosen /\ a.at = Offset(s) + 1

\* From one step of the hand-over to the next the chosen image is known in another
\* place: rsp, the local variable, its static copy, and at last only the registers.
ImageInv ==
    /\ pc \in Decided => /\ chosen \in Images
                         /\ config.strategy = "RAM_LOAD" => \A w \in Exec : ram[w] = chosen
    /\ pc = "do_boot" =>
           \E s \in Slot : /\ slots[s] = chosen
                           /\ rsp = [br_flash_dev_id |-> Device(s), br_image_off |-> Offset(s),
                                     ram_load |-> config.strategy = "RAM_LOAD"]
    /\ pc = "quit" => Points(vt)
    /\ pc \in {"set_msp", "jump"} => vt_cpy = VTOR
    /\ pc \in {"set_msp", "jump", "clear", "running"} => Points(VTOR)
    /\ pc \in {"jump", "clear", "running"} => MSP = chosen
    /\ pc \in {"clear", "running"} => r7 = chosen

\* What such an address leads to is the chosen image.
LEMMA PointsToChosen ==
    ASSUME TypeOK, ImageInv, pc \in Decided, NEW a, Points(a)
    PROVE  ImageAt(a) = chosen
    <1>1. CASE config.strategy = "RAM_LOAD" /\ a.mem = "ram" /\ a.at = 4
      BY <1>1 DEF ImageInv, ImageAt, Exec, Words
    <1>2. CASE a.mem = "flash" /\ \E s \in Slot : Device(s) = 100 /\ slots[s] = chosen /\ a.at = Offset(s) + 1
      BY <1>2, ImageInFlash DEF TypeOK
    <1> QED BY <1>1, <1>2 DEF Points

\* The addresses stay the same as long as slots and choice do.
LEMMA SamePoints ==
    ASSUME UNCHANGED <<config, slots, chosen>>
    PROVE  \A a : Points(a)' <=> Points(a)
    BY SameBuild DEF Points

\* boot_go decides for a slot and tells do_boot where it is.
LEMMA DecisionMade ==
    ASSUME IInv, boot_go
    PROVE  ImageInv'
    <1>1. CASE Candidates(Upgraded) = {}
      BY <1>1 DEF boot_go, ImageInv, Decided
    <1>2. CASE Candidates(Upgraded) # {}
      <2> DEFINE s == Newest(Upgraded)
      <2>1. s \in Slot /\ Upgraded[s] \in Images
        BY <1>2, NewestIsCandidate DEF Candidates
      <2>2. /\ chosen' = Upgraded[s] /\ pc' = "do_boot" /\ slots' = Upgraded /\ config' = config
            /\ rsp' = [br_flash_dev_id |-> Device(s), br_image_off |-> Offset(s),
                       ram_load |-> config.strategy = "RAM_LOAD"]
            /\ config.strategy = "RAM_LOAD" =>
                   ram' = [w \in Words |-> IF w \in Exec THEN Upgraded[s] ELSE ram[w]]
        BY <1>2 DEF boot_go, fixed
      <2> HIDE DEF s
      <2>3. chosen' \in Images /\ (config'.strategy = "RAM_LOAD" => \A w \in Exec : ram'[w] = chosen')
        BY <2>1, <2>2 DEF Exec, Words
      <2>4. \E t \in Slot : slots'[t] = chosen' /\ rsp' = [br_flash_dev_id |-> Device(t)',
                     br_image_off |-> Offset(t)', ram_load |-> config'.strategy = "RAM_LOAD"]
        BY <2>1, <2>2, SameBuild
      <2> QED BY <2>2, <2>3, <2>4 DEF ImageInv
    <1> QED BY <1>1, <1>2

\* From rsp to the local variable, to the static copy and VTOR, to the registers.
LEMMA HandedOn ==
    ASSUME IInv, ImageInv,
           do_boot \/ boot_platform_quit \/ set_MSP \/ boot_jump_to_next_image
    PROVE  ImageInv'
    <1>1. TypeOK /\ UNCHANGED <<config, slots, ram, chosen>> /\ pc \in Decided
      BY DEF do_boot, boot_platform_quit, set_MSP, boot_jump_to_next_image, fixed, flash, IInv, Decided
    <1>2. /\ chosen' \in Images
          /\ config'.strategy = "RAM_LOAD" => \A w \in Exec : ram'[w] = chosen'
      BY <1>1 DEF ImageInv
    <1>3. CASE do_boot
      <2>1. PICK s \in Slot : /\ slots[s] = chosen
                              /\ rsp = [br_flash_dev_id |-> Device(s), br_image_off |-> Offset(s),
                                        ram_load |-> config.strategy = "RAM_LOAD"]
        BY <1>3 DEF do_boot, ImageInv
      <2>2. CASE flash_device_base(rsp.br_flash_dev_id) = 0
        <3>1. Device(s) = 100 /\ pc' = "quit" /\ vt' = vector_table(rsp)
          BY <1>3, <2>1, <2>2 DEF do_boot, flash_device_base, FLASH_DEVICE_ID
        <3>2. Offset(s) \in Int
          BY <1>1, Placed DEF TypeOK
        <3>3. rsp.br_image_off = Offset(s) /\ (rsp.ram_load <=> config.strategy = "RAM_LOAD")
          BY <2>1
        <3>4. Points(vt')
          <4>1. CASE config.strategy = "RAM_LOAD"
            BY <3>1, <3>3, <4>1 DEF vector_table, ih_hdr_size, Points
          <4>2. CASE config.strategy # "RAM_LOAD"
            <5>1. vt'.mem = "flash" /\ vt'.at = Offset(s) + 1
              BY <3>1, <3>2, <3>3, <4>2 DEF vector_table, FLASH_DEVICE_BASE, ih_hdr_size
            <5> QED BY <2>1, <3>1, <5>1 DEF Points
          <4> QED BY <4>1, <4>2
        <3> QED BY <1>1, <1>2, <3>1, <3>4, SamePoints DEF ImageInv
      <2>3. CASE flash_device_base(rsp.br_flash_dev_id) # 0
        BY <1>3, <2>3 DEF do_boot, ImageInv, Decided
      <2> QED BY <2>2, <2>3
    <1>4. CASE boot_platform_quit
      <2>1. pc = "quit" /\ pc' = "set_msp" /\ vt_cpy' = vt /\ VTOR' = vt
        BY <1>4 DEF boot_platform_quit
      <2>2. Points(VTOR')
        BY <2>1 DEF ImageInv
      <2> QED BY <1>1, <1>2, <2>1, <2>2, SamePoints DEF ImageInv
    <1>5. CASE set_MSP
      <2>1. pc = "set_msp" /\ pc' = "jump" /\ MSP' = ImageAt(vt_cpy) /\ UNCHANGED <<vt_cpy, VTOR>>
        BY <1>5 DEF set_MSP
      <2>2. Points(vt_cpy) /\ vt_cpy = VTOR
        BY <2>1 DEF ImageInv
      <2>3. MSP' = chosen'
        BY <1>1, <2>1, <2>2, PointsToChosen
      <2> QED BY <1>1, <1>2, <2>1, <2>2, <2>3, SamePoints DEF ImageInv
    <1>6. CASE boot_jump_to_next_image
      <2>1. pc = "jump" /\ pc' = "clear" /\ r7' = ImageAt(vt_cpy) /\ UNCHANGED <<VTOR, MSP>>
        BY <1>6 DEF boot_jump_to_next_image
      <2>2. Points(vt_cpy) /\ vt_cpy = VTOR /\ MSP = chosen
        BY <2>1 DEF ImageInv
      <2>3. r7' = chosen'
        BY <1>1, <2>1, <2>2, PointsToChosen
      <2> QED BY <1>1, <1>2, <2>1, <2>2, <2>3, SamePoints DEF ImageInv
    <1> QED BY <1>3, <1>4, <1>5, <1>6

\* What is cleared is no part of a loaded image.
LEMMA ClearedApart ==
    ASSUME KeepsImage, IInv, ImageInv, boot_clear_ram_area
    PROVE  ImageInv'
    <1>1. /\ TypeOK /\ pc = "clear" /\ clear # <<>> /\ pc' = "clear"
          /\ UNCHANGED <<config, slots, chosen, VTOR, MSP, r7>>
      BY DEF boot_clear_ram_area, fixed, flash, IInv
    <1>2. ASSUME config.strategy = "RAM_LOAD", NEW w \in Exec
          PROVE  ram'[w] = ram[w]
      <2>1. /\ config \in Configs /\ clear \in {<<>>, Tail(ClearRanges), ClearRanges}
            /\ r2 \in 0 .. 6 /\ r2 <= clear[1][2]
        BY <1>1 DEF TypeOK, IInv, ClearInv
      <2>2. config.build = "m460_armclang"
        BY <1>2, <2>1 DEF KeepsImage
      <2>3. clear[1][1] = 0 /\ clear[1][2] = 2
        BY <1>1, <2>1, <2>2, FirstRange
      <2>4. w # clear[1][1] + r2 - 1
        BY <1>2, <2>1, <2>3 DEF Exec
      <2>5. ram' = ram \/ ram' = [ram EXCEPT ![clear[1][1] + r2 - 1] = "zero"]
        BY DEF boot_clear_ram_area
      <2>6. ram \in [Words -> Values] /\ w \in Words
        BY <1>1, <1>2 DEF TypeOK, Exec, Words
      <2> QED BY <2>4, <2>5, <2>6
    <1>3. /\ chosen' \in Images
          /\ config'.strategy = "RAM_LOAD" => \A w \in Exec : ram'[w] = chosen'
      BY <1>1, <1>2 DEF ImageInv, Decided
    <1> QED BY <1>1, <1>3, SamePoints DEF ImageInv

\* Every step.
LEMMA ImageStep ==
    ASSUME KeepsImage
    PROVE  IInv /\ ImageInv /\ [Next]_vars => ImageInv'
    <1> SUFFICES ASSUME IInv, ImageInv, [Next]_vars PROVE ImageInv'
      OBVIOUS
    <1>1. CASE Main \/ boot_platform_init \/ Reset
      <2>1. pc' \in {"platform_init", "panic", "boot_go", "reset"}
        BY <1>1 DEF Main, boot_platform_init, Reset
      <2> QED BY <2>1 DEF ImageInv, Decided
    <1>2. CASE Branch \/ SpiEnds \/ UNCHANGED vars
      <2>1. /\ pc' = pc \/ (pc = "clear" /\ pc' = "running")
            /\ UNCHANGED <<config, slots, chosen, ram, rsp, vt, vt_cpy, VTOR, MSP, r7>>
        BY <1>2 DEF Branch, SpiEnds, vars, fixed, flash, regs
      <2>2. CASE pc' = pc
        BY <2>1, <2>2, SamePoints, SameBuild DEF ImageInv
      <2>3. CASE pc = "clear" /\ pc' = "running"
        BY <2>1, <2>3, SamePoints DEF ImageInv, Decided
      <2> QED BY <2>1, <2>2, <2>3
    <1> QED BY <1>1, <1>2, DecisionMade, HandedOn, ClearedApart DEF Next, Step

\* The second invariant, of the builds that leave a loaded image alone.
LEMMA ImageInvariance ==
    ASSUME KeepsImage
    PROVE  Spec => [](IInv /\ ImageInv)
    <1>1. Init => ImageInv
      BY DEF Init, ImageInv, Decided
    <1> QED BY <1>1, InitEstablishes, StepPreserves, ImageStep, PTL DEF Spec

\* "MCUBoot will jump to the correct image" (README.md), whatever was reset or
\* upgraded before.
THEOREM CorrectImageStarts == KeepsImage => (Spec => []HandOver)
    <1> SUFFICES ASSUME KeepsImage PROVE Spec => []HandOver
      OBVIOUS
    <1>1. IInv /\ ImageInv => HandOver
      <2> SUFFICES ASSUME IInv, ImageInv, pc = "running"
                   PROVE  chosen \in Images /\ MSP = chosen /\ r7 = chosen /\ ImageAt(VTOR) = chosen
        BY DEF HandOver
      <2>1. Points(VTOR) /\ chosen \in Images /\ MSP = chosen /\ r7 = chosen /\ pc \in Decided
        BY DEF ImageInv, Decided
      <2> QED BY <2>1, PointsToChosen DEF IInv
    <1> QED BY <1>1, ImageInvariance, PTL

\* The clearing of RAM spares the image RAM_LOAD has copied.
THEOREM LoadedImageStays == KeepsImage => (Spec => []LoadedImageKept)
    <1> SUFFICES ASSUME KeepsImage PROVE Spec => []LoadedImageKept
      OBVIOUS
    <1>1. ImageInv => LoadedImageKept
      BY DEF ImageInv, LoadedImageKept, Decided
    <1> QED BY <1>1, ImageInvariance, PTL
=============================================================================
