------------------------------ MODULE SlotMap -------------------------------
(***************************************************************************)
(* How bootutil finds its slots: the slot numbers, the ids of the areas    *)
(* (sysflash.h, flash_map_extended.c), flash_area_open (flash_map.c), and  *)
(* the sectors of an area (flash_area_get_sectors of flash_map_legacy.c,   *)
(* flash_area_get_sector of the backend header).  One lookup at a time, on *)
(* the layout of any platform: slot to id, id to area, area to sectors, id *)
(* back to slot, offset to sector.                                         *)
(***************************************************************************)
EXTENDS FlashLayout

CONSTANTS
    Slots,      \* the slot numbers asked for
    Room(_),    \* the room for sectors the callers have, on a layout
    Offs        \* the offsets, in bytes, whose sector they ask for

ASSUME SlotAssumption ==
    /\ Slots \subseteq Nat /\ \A l \in Layouts : Room(l) \subseteq Nat
    /\ Offs \subseteq Nat

VARIABLES
    layout,        \* the platform
    swap_scratch,  \* MCUBOOT_SWAP_USING_SCRATCH
    pc,
    slot, id,      \* the slot asked for and the id found
    area,          \* the area opened, or NoArea
    max_cnt, sectors, rem_len,  \* flash_area_get_sectors: room, list so far, rest
    rc,
    back,          \* the slot found for the id
    named          \* the sector named for an offset, with the offset, or NoSector

config == <<layout, swap_scratch>>
vars == <<config, pc, slot, id, area, max_cnt, sectors, rem_len, rc, back, named>>

FLASH_SLOT_DOES_NOT_EXIST == 255
FLASH_AREA_IMAGE_PRIMARY(i) == IF i = 0 THEN 1 ELSE FLASH_SLOT_DOES_NOT_EXIST
FLASH_AREA_IMAGE_SECONDARY(i) == IF i = 0 THEN 2 ELSE FLASH_SLOT_DOES_NOT_EXIST
FLASH_AREA_IMAGE_SCRATCH == FLASH_SLOT_DOES_NOT_EXIST

\* Mutant: the ids start at zero, as in MCUboot.
flash_area_id_from_zero(image, s) == s

flash_area_id_from_multi_image_slot(image, s) ==
    CASE s = 0 -> FLASH_AREA_IMAGE_PRIMARY(image)
      [] s = 1 -> FLASH_AREA_IMAGE_SECONDARY(image)
      [] s = 2 -> FLASH_AREA_IMAGE_SCRATCH
      [] OTHER -> -1

\* Mutant: the slots change places.
flash_area_id_to_other_slot(image, area_id) ==
    IF area_id = FLASH_AREA_IMAGE_PRIMARY(image) THEN 1
    ELSE IF area_id = FLASH_AREA_IMAGE_SECONDARY(image) THEN 0 ELSE -1

flash_area_id_to_multi_image_slot(image, area_id) ==
    IF area_id = FLASH_AREA_IMAGE_PRIMARY(image) THEN 0
    ELSE IF area_id = FLASH_AREA_IMAGE_SECONDARY(image) THEN 1 ELSE -1

NoArea == Area(0, 0, "none", <<0, 0>>)
NoSector == [off |-> 0, fs_off |-> 0, fs_size |-> 0]
KiB == 1024                 \* the unit of the layouts
Entries == flash_map(layout, swap_scratch)

-----------------------------------------------------------------------------
Lookup ==
    /\ pc = "idle"
    /\ slot' \in Slots /\ max_cnt' \in Room(layout)
    /\ id' = flash_area_id_from_multi_image_slot(0, slot')
    /\ pc' = "open" /\ area' = NoArea /\ sectors' = <<>> /\ rem_len' = 0 /\ rc' = 0 /\ back' = -1
    /\ named' = NoSector
    /\ UNCHANGED config

\* The id is passed as a uint8_t; the first entry with it is taken.
Open ==
    /\ pc = "open"
    /\ IF \E i \in DOMAIN Entries : Entries[i].fa_id = id % 256
       THEN /\ area' = Entries[CHOOSE i \in DOMAIN Entries :
                                 /\ Entries[i].fa_id = id % 256
                                 /\ \A j \in 1 .. (i - 1) : Entries[j].fa_id # id % 256]
            /\ IF max_cnt < 1
               THEN pc' = "done" /\ rc' = -1 /\ UNCHANGED rem_len
               ELSE pc' = "sectors" /\ rem_len' = area'.fa_size /\ UNCHANGED rc
       ELSE pc' = "done" /\ rc' = -1 /\ UNCHANGED <<area, rem_len>>
    /\ UNCHANGED <<config, slot, id, max_cnt, sectors, back, named>>

\* Mutant: the offset is taken after the sector has been counted.
SectorLate ==
    /\ pc = "sectors" /\ rem_len >= layout.sector /\ Len(sectors) < max_cnt
    /\ sectors' = Append(sectors, [fs_off |-> layout.sector * (Len(sectors) + 1), fs_size |-> layout.sector])
    /\ rem_len' = rem_len - layout.sector
    /\ UNCHANGED <<config, pc, slot, id, area, max_cnt, rc, back, named>>

Sector ==
    /\ pc = "sectors" /\ rem_len >= layout.sector /\ Len(sectors) < max_cnt
    /\ sectors' = Append(sectors, [fs_off |-> layout.sector * Len(sectors), fs_size |-> layout.sector])
    /\ rem_len' = rem_len - layout.sector
    /\ UNCHANGED <<config, pc, slot, id, area, max_cnt, rc, back, named>>

\* The loop ends without error when it has used up the room: the check for more
\* sectors than room comes after it and can never be true.
SectorsEnd ==
    /\ pc = "sectors" /\ (rem_len < layout.sector \/ Len(sectors) >= max_cnt)
    /\ rc' = IF rem_len > 0 /\ Len(sectors) < max_cnt THEN -1 ELSE 0
    /\ pc' = "done"
    /\ UNCHANGED <<config, slot, id, area, max_cnt, sectors, rem_len, back, named>>

ToSlot ==
    /\ pc = "done" /\ pc' = "idle"
    /\ back' = flash_area_id_to_multi_image_slot(0, id)
    /\ UNCHANGED <<config, slot, id, area, max_cnt, sectors, rem_len, rc, named>>

\* page_size in bytes: on the chip it is what one erase erases, which the layout
\* gives; the serial flash has 256.
page_size == IF area.fa_driver = "Driver_FLASH2" THEN 256 ELSE layout.sector * KiB

\* Mutant: the page above the offset.
flash_area_get_sector_above ==
    /\ pc = "idle" /\ area # NoArea
    /\ \E off \in Offs :
          named' = IF off >= area.fa_size * KiB THEN NoSector
                   ELSE [off |-> off, fs_size |-> page_size,
                         fs_off |-> ((off + page_size - 1) \div page_size) * page_size]
    /\ UNCHANGED <<config, pc, slot, id, area, max_cnt, sectors, rem_len, rc, back>>

flash_area_get_sector ==
    /\ pc = "idle" /\ area # NoArea
    /\ \E off \in Offs :
          named' = IF off >= area.fa_size * KiB THEN NoSector
                   ELSE [off |-> off, fs_size |-> page_size,
                         fs_off |-> (off \div page_size) * page_size]
    /\ UNCHANGED <<config, pc, slot, id, area, max_cnt, sectors, rem_len, rc, back>>

Init ==
    /\ layout \in Layouts /\ swap_scratch \in BOOLEAN
    /\ pc = "idle" /\ slot = 0 /\ id = 1 /\ area = NoArea
    /\ max_cnt = 0 /\ sectors = <<>> /\ rem_len = 0 /\ rc = -1 /\ back = 0
    /\ named = NoSector

Next == Lookup \/ Open \/ Sector \/ SectorsEnd \/ ToSlot \/ flash_area_get_sector

Spec == Init /\ [][Next]_vars
-----------------------------------------------------------------------------
(* What the lookups promise.                                               *)

TypeOK ==
    /\ layout \in Layouts /\ swap_scratch \in BOOLEAN
    /\ pc \in {"idle", "open", "sectors", "done"}
    /\ slot \in Slots \cup {0} /\ id \in {-1, 1, 2, 255}
    /\ area = NoArea \/ area \in {Entries[i] : i \in DOMAIN Entries}
    /\ max_cnt \in Nat /\ Len(sectors) <= max_cnt
    /\ rem_len \in 0 .. area.fa_size /\ rc \in {-1, 0} /\ back \in {-1, 0, 1}
    /\ named \in [off : Nat, fs_off : Nat, fs_size : Nat]

Listed == pc = "done" /\ rc = 0

\* A slot's number leads to the area the layout gives it, and the area's id leads
\* back to the number, on every platform: the ids of sysflash.h, the entries of
\* the flash map and the layouts are three files that have to agree.
SlotRoundTrip ==
    pc = "idle" /\ area # NoArea /\ slot \in {0, 1} =>
        /\ back = slot
        /\ <<area.fa_off, area.fa_size>> = IF slot = 0 THEN layout.primary ELSE layout.secondary

\* The areas lie on whole sectors, apart from each other and from the boot
\* loader's own partition in their device, and inside it: the erase of one can
\* reach no other.  The APROM starts with the boot loader; the LDROM is past its end.
AreasPlaced ==
    \A p, q \in Places(layout, swap_scratch) :
        LET off == p[2][1]
            end == off + p[2][2]
        IN  /\ p[2] # layout.bl2 => off % layout.sector = 0 /\ p[2][2] % layout.sector = 0
            /\ p[1] = "Driver_FLASH0" =>
                  layout.bl2[1] <= off /\ end <= layout.bl2[1] + layout.total
            /\ p # q /\ p[1] = q[1] => end <= q[2][1] \/ q[2][1] + q[2][2] <= off

\* The sectors listed follow on each other from the start of the area, and with
\* the room bootutil has (MCUBOOT_MAX_IMG_SECTORS) they are all of it.
SectorsTile ==
    Listed =>
        /\ \A k \in 1 .. Len(sectors) :
              sectors[k].fs_off = (IF k = 1 THEN 0 ELSE sectors[k - 1].fs_off + sectors[k - 1].fs_size)
        /\ max_cnt >= MaxImgSectors(layout) =>
              sectors[Len(sectors)].fs_off + sectors[Len(sectors)].fs_size = area.fa_size

\* The sector named for an offset holds it, and in the on-chip flash it is one of
\* the sectors flash_area_get_sectors lists, so that the two ways bootutil asks
\* for sectors agree on what an erase takes with it.
SectorNamed ==
    pc = "idle" /\ named # NoSector =>
        /\ named.fs_off <= named.off /\ named.off < named.fs_off + named.fs_size
        /\ rc = 0 /\ max_cnt >= MaxImgSectors(layout) /\ area.fa_driver # "Driver_FLASH2" =>
              \E k \in 1 .. Len(sectors) :
                  /\ sectors[k].fs_off * KiB = named.fs_off
                  /\ sectors[k].fs_size * KiB = named.fs_size
=============================================================================
