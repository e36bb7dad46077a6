---------------------------- MODULE MCSpimFlash -----------------------------
(* A chip of two sectors of two pages of two bytes, addresses of three     *)
(* binary digits, and a sector_size of one page.                           *)
EXTENDS SpimFlash

\* The first sector is erased, the second full.
MCImages == {[a \in Cell |-> IF a < 4 THEN 255 ELSE 241 - (16 * a)]}
MCProtection == {<<0, 0>>, <<4, 0>>}
MCChipIds == {<<239, 64, 22>>}
MCSource == <<31, 47, 79, 143, 61, 93, 157, 115>>
=============================================================================
