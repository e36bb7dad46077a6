----------------------------- MODULE MCSpiFlash -----------------------------
(* A chip of two sectors of four bytes, addresses of three binary digits,  *)
(* pages of two bytes.                                                     *)
EXTENDS SpiFlash

MCKnownIds == {<<239, 64, 22>>}
MCChipIds == {<<239, 64, 22>>, <<194, 32, 22>>}
MCKnownChip == {<<239, 64, 22>>}
MCImages == {[a \in 0 .. 7 |-> 16 + a]}
MCProtection == {<<0, 0>>, <<0, 4>>, <<4, 0>>}
MCUnprotected == {<<0, 0>>}
=============================================================================
