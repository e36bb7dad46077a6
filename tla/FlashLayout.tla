---------------------------- MODULE FlashLayout -----------------------------
(***************************************************************************)
(* The flash layouts of the platforms (flash_layout.h) and the flash map   *)
(* that default_flash_map.c builds from one of them.  Sizes and offsets    *)
(* are in units of 0x400 bytes, which divides all of them.                 *)
(***************************************************************************)
EXTENDS Integers, Sequences

\* sector: FLASH_AREA_IMAGE_SECTOR_SIZE; partition: FLASH_S_PARTITION_SIZE; bl2,
\* primary, secondary, scratch: <<offset, size>> of FLASH_AREA_BL2, _0, _2, _SCRATCH.
m2351 == [sector |-> 2, partition |-> 128, total |-> 512, bl2 |-> <<0, 84>>,
          primary |-> <<128, 32>>, secondary |-> <<384, 32>>, scratch |-> <<1024, 2>>]
m2354 == [sector |-> 2, partition |-> 384, total |-> 1024, bl2 |-> <<0, 84>>,
          primary |-> <<128, 32>>, secondary |-> <<640, 32>>, scratch |-> <<1026, 2>>]
m261 == [sector |-> 2, partition |-> 128, total |-> 512, bl2 |-> <<0, 84>>,
         primary |-> <<128, 32>>, secondary |-> <<384, 32>>, scratch |-> <<1026, 2>>]
m2l31 == [sector |-> 4, partition |-> 128, total |-> 512, bl2 |-> <<0, 84>>,
          primary |-> <<128, 32>>, secondary |-> <<384, 32>>, scratch |-> <<246784, 4>>]
m3331 == [sector |-> 1, partition |-> 128, total |-> 512, bl2 |-> <<0, 84>>,
          primary |-> <<128, 32>>, secondary |-> <<384, 32>>, scratch |-> <<246785, 1>>]
m460 == [sector |-> 4, partition |-> 384, total |-> 1024, bl2 |-> <<0, 84>>,
         primary |-> <<128, 32>>, secondary |-> <<640, 32>>, scratch |-> <<246788, 4>>]
m460_spi == [m460 EXCEPT !.secondary = <<0, 32>>]
m480 == [sector |-> 4, partition |-> 128, total |-> 512, bl2 |-> <<0, 84>>,
         primary |-> <<128, 32>>, secondary |-> <<384, 32>>, scratch |-> <<1024, 4>>]
m55m1 == [sector |-> 8, partition |-> 896, total |-> 2048, bl2 |-> <<1024, 84>>,
          primary |-> <<1152, 32>>, secondary |-> <<1664, 32>>, scratch |-> <<246784, 8>>]

Layouts == {m2351, m2354, m261, m2l31, m3331, m460, m460_spi, m480, m55m1}

\* MCUBOOT_MAX_IMG_SECTORS: what bootutil makes room for.
MaxImgSectors(l) == l.partition \div l.sector

FLASH_DEVICE_ID == 100
SPI_DEVICE_ID == 101        \* FLASH_DEVICE_ID_2 with SECONDARY_SLOT_IN_SPI_FLASH

Area(id, dev, drv, place) ==
    [fa_id |-> id, fa_device_id |-> dev, fa_driver |-> drv,
     fa_off |-> place[1], fa_size |-> place[2]]

\* Mutant: the scratch area has the driver of the slots.
flash_map_one_driver(l, swap_scratch) ==
    <<Area(1, FLASH_DEVICE_ID, "Driver_FLASH0", l.primary),
      Area(2, FLASH_DEVICE_ID, "Driver_FLASH0", l.secondary),
      Area(255, FLASH_DEVICE_ID, "Driver_FLASH0", l.scratch)>>

\* flash_map[]: the entries for one image; the scratch area is in the LDROM.
flash_map(l, swap_scratch) ==
    <<Area(1, FLASH_DEVICE_ID, "Driver_FLASH0", l.primary),
      IF l = m460_spi THEN Area(2, SPI_DEVICE_ID, "Driver_FLASH2", l.secondary)
                      ELSE Area(2, FLASH_DEVICE_ID, "Driver_FLASH0", l.secondary)>>
    \o IF swap_scratch THEN <<Area(255, FLASH_DEVICE_ID, "Driver_FLASH1", l.scratch)>> ELSE <<>>

\* What a driver can reach: the APROM up to FLASH_TOTAL_SIZE from where BL2 starts,
\* and, away from it, the LDROM (its size is not in the layout).
Places(l, swap_scratch) ==
    {<<"Driver_FLASH0", l.bl2>>}
    \cup {<<a.fa_driver, <<a.fa_off, a.fa_size>>>> :
             a \in {flash_map(l, swap_scratch)[i] : i \in 1 .. Len(flash_map(l, swap_scratch))}}
=============================================================================
