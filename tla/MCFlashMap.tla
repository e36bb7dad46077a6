----------------------------- MODULE MCFlashMap -----------------------------
(* Small instances of FlashMap: data items of 2 bytes, units of 4, sectors of *)
(* 8, and a device of four sectors that holds two areas.                      *)
EXTENDS FlashMap

mcBits == {"x", "y"}

\* Every position differs from its neighbours, so a shifted copy shows.
Striped(n) == CASE n % 3 = 0 -> {"x"} [] n % 3 = 1 -> {"y"} [] OTHER -> {}

mc_fa_off == [area \in {"primary", "secondary"} |-> IF area = "primary" THEN 16 ELSE 32]
mc_fa_size == [area \in {"primary", "secondary"} |-> IF area = "primary" THEN 16 ELSE 8]
mcAreas == {"primary", "secondary"}

mcSrcs == {[k \in 1 .. FlashSize |-> Striped(k)]}
mcImages == {[a \in Addr |-> Erased], [a \in Addr |-> Striped(a + a \div 4)]}
mcGarbage == {[k \in 0 .. (SectorSize - 1) |-> Bits], [k \in 0 .. (SectorSize - 1) |-> Striped(k)]}

\* Every offset and length of the larger area and past its end, and the
\* largest, for which off + len wraps.
mcOffs == (0 .. 17) \cup {WordMod - 1}
mcLens == (0 .. 17) \cup {WordMod - 1}

\* What flash_area_align lets a caller use on a part whose program_unit is
\* smaller than FLASH_PROGRAM_UNIT.
mcAlignOffs == {off \in mcOffs : off % ProgramUnit = 0}

\* For two calls in a row: writes that start on a whole unit.
mcUnitOffs == {0, 4, 12}
mcFewOffs == {0, 3, 8}
mcFewLens == {0, 3, 7, 14}
=============================================================================
