----------------------------- MODULE MCSlotMap ------------------------------
(* Any platform, the slots bootutil asks for and one that does not exist,  *)
(* no room, too little room and the room bootutil has; offsets inside, at  *)
(* the edges of sectors and areas and past them.                           *)
EXTENDS SlotMap

MCOffs == {0, 255, 4095, 4096, 10000, 32767, 32768}

MCRoom(l) == {0, 5, MaxImgSectors(l)}
=============================================================================
