--------------------------- MODULE SlotMapProofs ----------------------------
(***************************************************************************)
(* The sector list and the sectors named, for any room the callers have    *)
(* and any offset they ask for, on the layouts of all platforms.           *)
(***************************************************************************)
EXTENDS SlotMap, SequenceTheorems, TLAPS

\* What a layout has in common with the others: sectors of 1 to 8 KiB, areas of
\* whole sectors, no more of them than bootutil has room for.
Whole(l, n) == n \in Nat /\ n > 0 /\ n % l.sector = 0 /\ n \div l.sector <= MaxImgSectors(l)

\* It is so on every platform.
LEMMA LayoutFacts ==
    ASSUME NEW l \in Layouts
    PROVE  /\ l.sector \in {1, 2, 4, 8} /\ MaxImgSectors(l) \in Nat
           /\ l.primary = <<l.primary[1], l.primary[2]>> /\ l.secondary = <<l.secondary[1], l.secondary[2]>>
           /\ Whole(l, l.primary[2]) /\ Whole(l, l.secondary[2]) /\ Whole(l, l.scratch[2])
    <1> USE DEF Whole, MaxImgSectors
    <1>1. CASE l = m2351
      BY <1>1 DEF m2351
    <1>2. CASE l = m2354
      BY <1>2 DEF m2354
    <1>3. CASE l = m261
      BY <1>3 DEF m261
    <1>4. CASE l = m2l31
      BY <1>4 DEF m2l31
    <1>5. CASE l = m3331
      BY <1>5 DEF m3331
    <1>6. CASE l = m460
      BY <1>6 DEF m460
    <1>7. CASE l = m460_spi
      <2>1. l.sector = 4 /\ l.partition = 384 /\ l.scratch[2] = 4
            /\ l.primary = <<128, 32>> /\ l.secondary = <<0, 32>>
        BY <1>7 DEF m460_spi, m460
      <2> QED BY <2>1
    <1>8. CASE l = m480
      BY <1>8 DEF m480
    <1>9. CASE l = m55m1
      BY <1>9 DEF m55m1
    <1> QED BY <1>1, <1>2, <1>3, <1>4, <1>5, <1>6, <1>7, <1>8, <1>9 DEF Layouts
\* An entry of the flash map.
Fits(l, a) == Whole(l, a.fa_size) /\ a.fa_driver \in {"Driver_FLASH0", "Driver_FLASH1", "Driver_FLASH2"}

\* Two entries, or three.
LEMMA ListFacts ==
    ASSUME NEW a, NEW b, NEW c, NEW t \in {<<>>, <<c>>}
    PROVE  /\ DOMAIN (<<a, b>> \o t) \subseteq {1, 2, 3}
           /\ 1 \in DOMAIN (<<a, b>> \o t) /\ 2 \in DOMAIN (<<a, b>> \o t)
           /\ (<<a, b>> \o t)[1] = a /\ (<<a, b>> \o t)[2] = b
           /\ \A i \in DOMAIN (<<a, b>> \o t) : (<<a, b>> \o t)[i] \in {a, b, c}
    <1> DEFINE S == {a, b, c}
               s == <<a, b>>
               x == s \o t
    <1>1. s \in Seq(S) /\ Len(s) = 2 /\ s[1] = a /\ s[2] = b
      OBVIOUS
    <1>2. t \in Seq(S) /\ Len(t) \in {0, 1} /\ (Len(t) = 1 => t[1] = c)
      <2>1. CASE t = <<>>
        BY <2>1
      <2>2. CASE t = <<c>>
        BY <2>2
      <2> QED BY <2>1, <2>2
    <1> HIDE DEF S, s
    <1>3. /\ x \in Seq(S) /\ Len(x) = Len(s) + Len(t)
          /\ \A i \in 1 .. Len(s) + Len(t) : x[i] = IF i <= Len(s) THEN s[i] ELSE t[i - Len(s)]
      BY <1>1, <1>2, ConcatProperties
    <1> HIDE DEF x
    <1>4. DOMAIN x = 1 .. (2 + Len(t))
      BY <1>1, <1>2, <1>3
    <1>5. x[1] = a /\ x[2] = b
      BY <1>1, <1>2, <1>3
    <1>6. \A i \in DOMAIN x : x[i] \in S
      BY <1>3
    <1>7. DOMAIN x \subseteq {1, 2, 3} /\ 1 \in DOMAIN x /\ 2 \in DOMAIN x
      <2>1. CASE Len(t) = 0
        BY <1>4, <2>1
      <2>2. CASE Len(t) = 1
        BY <1>4, <2>2
      <2> QED BY <1>2, <2>1, <2>2
    <1> QED BY <1>5, <1>6, <1>7 DEF x, s, S

\* All are; the first is the primary slot's, the second the secondary's.
LEMMA EntryFacts ==
    ASSUME NEW l \in Layouts, NEW s \in BOOLEAN
    PROVE  /\ DOMAIN flash_map(l, s) \subseteq {1, 2, 3}
           /\ 1 \in DOMAIN flash_map(l, s) /\ 2 \in DOMAIN flash_map(l, s)
           /\ \A i \in DOMAIN flash_map(l, s) : Fits(l, flash_map(l, s)[i])
           /\ flash_map(l, s)[1].fa_id = 1 /\ flash_map(l, s)[2].fa_id = 2
           /\ flash_map(l, s)[1].fa_off = l.primary[1] /\ flash_map(l, s)[1].fa_size = l.primary[2]
           /\ flash_map(l, s)[2].fa_off = l.secondary[1] /\ flash_map(l, s)[2].fa_size = l.secondary[2]
    <1> DEFINE p == Area(1, FLASH_DEVICE_ID, "Driver_FLASH0", l.primary)
               q == IF l = m460_spi THEN Area(2, SPI_DEVICE_ID, "Driver_FLASH2", l.secondary)
                                    ELSE Area(2, FLASH_DEVICE_ID, "Driver_FLASH0", l.secondary)
               r == Area(255, FLASH_DEVICE_ID, "Driver_FLASH1", l.scratch)
    <1>1. p.fa_id = 1 /\ p.fa_off = l.primary[1] /\ p.fa_size = l.primary[2] /\ Fits(l, p)
      BY LayoutFacts DEF Area, Fits
    <1>2. q.fa_id = 2 /\ q.fa_off = l.secondary[1] /\ q.fa_size = l.secondary[2] /\ Fits(l, q)
      BY LayoutFacts DEF Area, Fits
    <1>3. Fits(l, r)
      BY LayoutFacts DEF Area, Fits
    <1> DEFINE t == IF s THEN <<r>> ELSE <<>>
    <1>4. flash_map(l, s) = <<p, q>> \o t
      BY DEF flash_map
    <1>5. t \in {<<>>, <<r>>}
      OBVIOUS
    <1> HIDE DEF p, q, r, t
    <1> QED BY <1>1, <1>2, <1>3, <1>4, <1>5, ListFacts

\* The id a slot's number stands for.
LEMMA IdFacts ==
    /\ \A s : flash_area_id_from_multi_image_slot(0, s) \in {-1, 1, 2, 255}
    /\ flash_area_id_from_multi_image_slot(0, 0) = 1
    /\ flash_area_id_from_multi_image_slot(0, 1) = 2
    /\ \A i : flash_area_id_to_multi_image_slot(0, i) \in {-1, 0, 1}
    /\ flash_area_id_to_multi_image_slot(0, 1) = 0
    /\ flash_area_id_to_multi_image_slot(0, 2) = 1
    BY DEF flash_area_id_from_multi_image_slot, flash_area_id_to_multi_image_slot,
           FLASH_AREA_IMAGE_PRIMARY, FLASH_AREA_IMAGE_SECONDARY, FLASH_AREA_IMAGE_SCRATCH,
           FLASH_SLOT_DOES_NOT_EXIST

\* What flash_area_open finds for an id.
IsFirst(x, i) == Entries[i].fa_id = x /\ \A j \in 1 .. (i - 1) : Entries[j].fa_id # x
First(x) == CHOOSE i \in DOMAIN Entries : IsFirst(x, i)

\* It finds an entry when there is one, and those of the two slots for their ids.
LEMMA OpenFacts ==
    ASSUME layout \in Layouts, swap_scratch \in BOOLEAN
    PROVE  /\ First(1) = 1 /\ First(2) = 2
           /\ \A x : (\E i \in DOMAIN Entries : Entries[i].fa_id = x) => First(x) \in DOMAIN Entries
           /\ \A i \in DOMAIN Entries : Fits(layout, Entries[i])
    <1> DEFINE E == Entries
    <1>1. /\ DOMAIN E \subseteq {1, 2, 3} /\ 1 \in DOMAIN E /\ 2 \in DOMAIN E
          /\ E[1].fa_id = 1 /\ E[2].fa_id = 2
          /\ \A i \in DOMAIN E : Fits(layout, E[i])
      BY EntryFacts DEF Entries
    <1>2. \A x, i : IsFirst(x, i) <=> E[i].fa_id = x /\ \A j \in 1 .. (i - 1) : E[j].fa_id # x
      BY DEF IsFirst
    <1> HIDE DEF E
    <1>3. \A i \in DOMAIN E : (IsFirst(1, i) <=> i = 1) /\ (IsFirst(2, i) <=> i = 2)
      BY <1>1, <1>2
    <1>4. (CHOOSE i \in DOMAIN E : IsFirst(1, i)) = 1 /\ (CHOOSE i \in DOMAIN E : IsFirst(2, i)) = 2
      BY <1>1, <1>3
    <1>5. ASSUME NEW x, NEW i \in DOMAIN E, E[i].fa_id = x
          PROVE  \E k \in DOMAIN E : IsFirst(x, k)
      <2>1. CASE E[1].fa_id = x
        BY <1>1, <1>2, <2>1
      <2>2. CASE E[1].fa_id # x /\ E[2].fa_id = x
        BY <1>1, <1>2, <2>2
      <2>3. CASE E[1].fa_id # x /\ E[2].fa_id # x
        BY <1>1, <1>2, <1>5, <2>3
      <2> QED BY <2>1, <2>2, <2>3
    <1>6. \A x : (\E i \in DOMAIN E : E[i].fa_id = x) => (CHOOSE i \in DOMAIN E : IsFirst(x, i)) \in DOMAIN E
      BY <1>5
    <1> QED BY <1>1, <1>4, <1>6 DEF First, E

-----------------------------------------------------------------------------
(* The inductive invariant.                                                *)

Listing(k) == [fs_off |-> layout.sector * (k - 1), fs_size |-> layout.sector]

\* Such an entry's fields.
LEMMA ListingFacts ==
    ASSUME NEW k
    PROVE  Listing(k).fs_off = layout.sector * (k - 1) /\ Listing(k).fs_size = layout.sector
    BY DEF Listing

\* The list is the area's first sectors, and rem_len what is left of the area.
ListInv ==
    /\ sectors \in Seq([fs_off : Nat, fs_size : Nat])
    /\ \A k \in 1 .. Len(sectors) : sectors[k] = Listing(k)
    /\ pc = "open" => sectors = <<>> /\ rc = 0 /\ area = NoArea
    /\ pc = "sectors" => area # NoArea /\ max_cnt >= 1 /\ rc = 0
    /\ pc = "sectors" \/ (pc \in {"done", "idle"} /\ rc = 0) =>
          area # NoArea /\ rem_len + layout.sector * Len(sectors) = area.fa_size
    /\ pc \in {"done", "idle"} /\ rc = 0 =>
          Len(sectors) >= 1 /\ (max_cnt >= MaxImgSectors(layout) => rem_len = 0)

\* The area is the one of the slot asked for.
SlotInv ==
    /\ pc # "idle" => named = NoSector
    /\ slot = 0 => id = 1
    /\ slot = 1 => id = 2
    /\ area # NoArea /\ slot = 0 => <<area.fa_off, area.fa_size>> = layout.primary
    /\ area # NoArea /\ slot = 1 => <<area.fa_off, area.fa_size>> = layout.secondary
    /\ pc = "idle" /\ area # NoArea /\ slot \in {0, 1} => back = slot

IInv == TypeOK /\ ListInv /\ SlotInv /\ SectorNamed

-----------------------------------------------------------------------------
(* Arithmetic: sectors and pages are powers of two.                        *)

\* A whole number of sectors that have all been counted off, or as many as there is
\* room for.
LEMMA CountArith ==
    ASSUME NEW s, s \in {1, 2, 4, 8}, NEW n, n \in Nat, NEW len, len \in Nat,
           NEW rem, rem \in Nat, NEW m, m \in Nat,
           n > 0, n % s = 0, rem + s * len = n, n \div s <= m
    PROVE  /\ len = 0 => rem >= s
           /\ len >= m => rem = 0
    BY SMTT(20)

\* One sector more.
LEMMA NextArith ==
    ASSUME NEW s \in {1, 2, 4, 8}, NEW n \in Nat
    PROVE  s * n \in Nat /\ s * (n + 1) = s * n + s
    OBVIOUS

\* The page that holds an offset.
LEMMA PageArith ==
    ASSUME NEW p \in {256, 1024, 2048, 4096, 8192}, NEW off \in Nat
    PROVE  /\ (off \div p) * p \in Nat
           /\ (off \div p) * p <= off /\ off < (off \div p) * p + p
    BY SMTT(20)

\* On the chip it is one of an area's sectors.
LEMMA NamedArith ==
    ASSUME NEW s \in {1, 2, 4, 8}, NEW len \in Nat, NEW off \in Nat, off < s * len * 1024
    PROVE  /\ off \div (s * 1024) \in 0 .. (len - 1)
           /\ s * (off \div (s * 1024)) * 1024 = (off \div (s * 1024)) * (s * 1024)
    BY SMTT(20)

-----------------------------------------------------------------------------
(* Every step keeps the invariant.                                         *)

\* The platform is fixed, and with it the flash map.
LEMMA SameEntries ==
    ASSUME UNCHANGED config
    PROVE  Entries' = Entries /\ layout' = layout /\ swap_scratch' = swap_scratch
    BY DEF Entries, config

\* No area of the flash map is empty.
LEMMA AreaFacts ==
    ASSUME TypeOK, area # NoArea
    PROVE  /\ Whole(layout, area.fa_size) /\ layout.sector \in {1, 2, 4, 8}
           /\ MaxImgSectors(layout) \in Nat
           /\ area.fa_driver \in {"Driver_FLASH0", "Driver_FLASH1", "Driver_FLASH2"}
    BY OpenFacts, LayoutFacts DEF TypeOK, Fits

\* At first nothing has been looked up.
LEMMA InitEstablishes == Init => IInv
    <1> SUFFICES ASSUME Init PROVE IInv
      OBVIOUS
    <1>1. NoArea.fa_size = 0 /\ NoSector \in [off : Nat, fs_off : Nat, fs_size : Nat]
      BY DEF NoArea, Area, NoSector
    <1>2. TypeOK
      BY <1>1 DEF Init, TypeOK
    <1>3. ListInv /\ SlotInv /\ SectorNamed
      BY DEF Init, ListInv, SlotInv, SectorNamed
    <1> QED BY <1>2, <1>3 DEF IInv

\* A slot's number becomes an id.
LEMMA LookupPreserves ==
    ASSUME IInv, Lookup
    PROVE  IInv'
    <1>1. /\ TypeOK /\ layout \in Layouts /\ slot' \in Slots /\ max_cnt' \in Nat /\ pc' = "open"
          /\ area' = NoArea /\ sectors' = <<>> /\ rem_len' = 0 /\ rc' = 0 /\ back' = -1
          /\ named' = NoSector /\ UNCHANGED config
      BY SlotAssumption DEF Lookup, IInv, TypeOK
    <1>2. id' \in {-1, 1, 2, 255} /\ (slot' = 0 => id' = 1) /\ (slot' = 1 => id' = 2)
      BY IdFacts DEF Lookup
    <1>3. NoArea.fa_size = 0 /\ NoSector \in [off : Nat, fs_off : Nat, fs_size : Nat]
      BY DEF NoArea, Area, NoSector
    <1>4. TypeOK'
      BY <1>1, <1>2, <1>3, SameEntries DEF TypeOK
    <1>5. ListInv' /\ SlotInv' /\ SectorNamed'
      BY <1>1, <1>2 DEF ListInv, SlotInv, SectorNamed
    <1> QED BY <1>4, <1>5 DEF IInv

\* The id leads to an area, or to none.
LEMMA OpenPreserves ==
    ASSUME IInv, Open
    PROVE  IInv'
    <1>1. /\ TypeOK /\ layout \in Layouts /\ swap_scratch \in BOOLEAN /\ pc = "open"
          /\ UNCHANGED <<config, slot, id, max_cnt, sectors, back, named>>
          /\ sectors = <<>> /\ rc = 0 /\ area = NoArea /\ named = NoSector /\ max_cnt \in Nat
          /\ id \in {-1, 1, 2, 255}
      BY DEF Open, IInv, TypeOK, ListInv, SlotInv
    <1>2. layout' = layout /\ swap_scratch' = swap_scratch /\ Entries' = Entries
      BY <1>1, SameEntries
    <1>3. CASE \E i \in DOMAIN Entries : Entries[i].fa_id = id % 256
      <2>1. area' = Entries[First(id % 256)]
        BY <1>3 DEF Open, First, IsFirst
      <2>2. area' \in {Entries[i] : i \in DOMAIN Entries} /\ Fits(layout, area')
        BY <1>1, <1>3, <2>1, OpenFacts
      <2>3. area'.fa_size \in Nat /\ area'.fa_size > 0 /\ area' # NoArea
        BY <2>2 DEF Fits, Whole, NoArea, Area
      <2>4. \/ max_cnt < 1 /\ pc' = "done" /\ rc' = -1 /\ rem_len' = rem_len
            \/ max_cnt >= 1 /\ pc' = "sectors" /\ rem_len' = area'.fa_size /\ rc' = rc
        BY <1>1, <1>3 DEF Open
      <2>5. rem_len' \in 0 .. area'.fa_size
        <3>1. rem_len = 0
          BY <1>1 DEF TypeOK, NoArea, Area
        <3> QED BY <2>3, <2>4, <3>1
      <2>6. TypeOK'
        BY <1>1, <1>2, <2>2, <2>4, <2>5 DEF TypeOK
      <2>7. ListInv'
        BY <1>1, <1>2, <2>3, <2>4, LayoutFacts DEF ListInv, IInv
      <2>8. SlotInv'
        <3>1. id = 1 => area' = Entries[1]
          BY <1>1, <2>1, OpenFacts
        <3>2. id = 2 => area' = Entries[2]
          BY <1>1, <2>1, OpenFacts
        <3>3. /\ id = 1 => <<area'.fa_off, area'.fa_size>> = <<layout.primary[1], layout.primary[2]>>
              /\ id = 2 => <<area'.fa_off, area'.fa_size>> = <<layout.secondary[1], layout.secondary[2]>>
          BY <1>1, <3>1, <3>2, EntryFacts DEF Entries
        <3>4. /\ <<layout.primary[1], layout.primary[2]>> = layout.primary
              /\ <<layout.secondary[1], layout.secondary[2]>> = layout.secondary
          BY <1>1, LayoutFacts
        <3> QED BY <1>1, <1>2, <2>4, <3>3, <3>4 DEF SlotInv, IInv
      <2>9. SectorNamed'
        BY <2>4 DEF SectorNamed
      <2> QED BY <2>6, <2>7, <2>8, <2>9 DEF IInv
    <1>4. CASE ~\E i \in DOMAIN Entries : Entries[i].fa_id = id % 256
      <2>1. pc' = "done" /\ rc' = -1 /\ UNCHANGED <<area, rem_len>>
        BY <1>4 DEF Open
      <2>2. TypeOK'
        BY <1>1, <1>2, <2>1 DEF TypeOK
      <2>3. ListInv' /\ SlotInv' /\ SectorNamed'
        BY <1>1, <1>2, <2>1 DEF ListInv, SlotInv, SectorNamed, IInv
      <2> QED BY <2>2, <2>3 DEF IInv
    <1> QED BY <1>3, <1>4

\* One more sector is listed.
LEMMA SectorPreserves ==
    ASSUME IInv, Sector
    PROVE  IInv'
    <1>1. /\ TypeOK /\ pc = "sectors" /\ rem_len >= layout.sector /\ Len(sectors) < max_cnt
          /\ sectors' = Append(sectors, Listing(Len(sectors) + 1))
          /\ rem_len' = rem_len - layout.sector
          /\ UNCHANGED <<config, pc, slot, id, area, max_cnt, rc, back, named>>
          /\ area # NoArea /\ rem_len + layout.sector * Len(sectors) = area.fa_size
          /\ max_cnt \in Nat /\ max_cnt >= 1 /\ rc = 0
          /\ sectors \in Seq([fs_off : Nat, fs_size : Nat])
      <2>1. sectors \in Seq([fs_off : Nat, fs_size : Nat]) /\ Len(sectors) + 1 - 1 = Len(sectors)
        BY DEF IInv, ListInv
      <2>2. sectors' = Append(sectors, Listing(Len(sectors) + 1))
        BY <2>1 DEF Sector, Listing
      <2> QED BY <2>1, <2>2 DEF Sector, IInv, TypeOK, ListInv
    <1>2. layout' = layout /\ swap_scratch' = swap_scratch /\ Entries' = Entries
      BY <1>1, SameEntries
    <1>3. layout.sector \in {1, 2, 4, 8} /\ area.fa_size \in Nat
      BY <1>1, AreaFacts DEF Whole
    <1> DEFINE len == Len(sectors)
    <1>4. len \in Nat /\ Listing(len + 1) \in [fs_off : Nat, fs_size : Nat]
      BY <1>1, <1>3 DEF Listing
    <1>5. /\ sectors' \in Seq([fs_off : Nat, fs_size : Nat]) /\ Len(sectors') = len + 1
          /\ \A k \in 1 .. (len + 1) : sectors'[k] = IF k = len + 1 THEN Listing(len + 1) ELSE sectors[k]
      BY <1>1, <1>4
    <1>6. \A k : Listing(k)' = Listing(k)
      BY <1>2 DEF Listing
    <1>7. rem_len' \in 0 .. area.fa_size /\ rem_len' + layout.sector * (len + 1) = area.fa_size
      <2>1. rem_len \in 0 .. area.fa_size
        BY <1>1 DEF TypeOK
      <2>2. layout.sector * len \in Nat /\ layout.sector * (len + 1) = layout.sector * len + layout.sector
        BY <1>3, <1>4, NextArith
      <2>3. /\ rem_len >= layout.sector /\ rem_len' = rem_len - layout.sector
            /\ rem_len + layout.sector * len = area.fa_size
        BY <1>1
      <2> HIDE DEF len
      <2> QED BY <1>3, <2>1, <2>2, <2>3
    <1>8. TypeOK'
      <2>1. Len(sectors') <= max_cnt
        BY <1>1, <1>4, <1>5
      <2>2. rem_len' \in 0 .. area'.fa_size
        BY <1>1, <1>7
      <2> QED BY <1>1, <1>2, <2>1, <2>2 DEF TypeOK
    <1>9. ListInv'
      <2>1. \A k \in 1 .. len : sectors[k] = Listing(k)
        BY DEF IInv, ListInv
      <2>2. \A k \in 1 .. Len(sectors') : sectors'[k] = Listing(k)'
        <3>1. ASSUME NEW k \in 1 .. (len + 1)
              PROVE  sectors'[k] = Listing(k)
          <4>1. CASE k = len + 1
            BY <1>5, <4>1
          <4>2. CASE k # len + 1
            <5>1. k \in 1 .. len
              BY <1>4, <3>1, <4>2
            <5> QED BY <1>5, <2>1, <4>2, <5>1
          <4> QED BY <4>1, <4>2
        <3> QED BY <1>5, <1>6, <3>1
      <2> QED BY <1>1, <1>2, <1>5, <1>7, <2>2 DEF ListInv
    <1>10. SlotInv' /\ SectorNamed'
      BY <1>1, <1>2 DEF SlotInv, SectorNamed, IInv
    <1> QED BY <1>8, <1>9, <1>10 DEF IInv

\* The list ends: at the end of the area, or of the room.
LEMMA SectorsEndPreserves ==
    ASSUME IInv, SectorsEnd
    PROVE  IInv'
    <1>1. /\ TypeOK /\ pc = "sectors" /\ pc' = "done"
          /\ rem_len < layout.sector \/ Len(sectors) >= max_cnt
          /\ rc' = IF rem_len > 0 /\ Len(sectors) < max_cnt THEN -1 ELSE 0
          /\ UNCHANGED <<config, slot, id, area, max_cnt, sectors, rem_len, back, named>>
          /\ area # NoArea /\ rem_len + layout.sector * Len(sectors) = area.fa_size
          /\ max_cnt \in Nat /\ max_cnt >= 1
          /\ sectors \in Seq([fs_off : Nat, fs_size : Nat]) /\ Len(sectors) \in Nat
          /\ rem_len \in Nat
      <2>1. sectors \in Seq([fs_off : Nat, fs_size : Nat])
        BY DEF IInv, ListInv
      <2>2. rem_len \in Nat
        <3>1. area.fa_size \in Nat
          BY AreaFacts DEF IInv, ListInv, SectorsEnd, Whole
        <3> QED BY <3>1 DEF IInv, TypeOK
      <2> QED BY <2>1, <2>2 DEF SectorsEnd, IInv, TypeOK, ListInv
    <1>2. layout' = layout /\ swap_scratch' = swap_scratch /\ Entries' = Entries
      BY <1>1, SameEntries
    <1>3. /\ layout.sector \in {1, 2, 4, 8} /\ area.fa_size \in Nat /\ area.fa_size > 0
          /\ area.fa_size % layout.sector = 0
          /\ area.fa_size \div layout.sector <= MaxImgSectors(layout) /\ MaxImgSectors(layout) \in Nat
      BY <1>1, AreaFacts DEF Whole
    <1> DEFINE len == Len(sectors)
               m == MaxImgSectors(layout)
               n == area.fa_size
    <1>4. /\ len = 0 => rem_len >= layout.sector
          /\ len >= m => rem_len = 0
      <2>1. len \in Nat /\ n \in Nat /\ m \in Nat /\ rem_len + layout.sector * len = n
            /\ n > 0 /\ n % layout.sector = 0 /\ n \div layout.sector <= m
            /\ rem_len \in Nat /\ layout.sector \in {1, 2, 4, 8}
        BY <1>1, <1>3
      <2> HIDE DEF len, m, n
      <2> DEFINE s == layout.sector
      <2>2. s \in {1, 2, 4, 8} /\ rem_len + s * len = n /\ n % s = 0 /\ n \div s <= m
        BY <2>1
      <2> HIDE DEF s
      <2>3. (len = 0 => rem_len >= s) /\ (len >= m => rem_len = 0)
        BY <2>1, <2>2, CountArith
      <2> QED BY <2>3 DEF s
    <1>5. rc' = 0 => len >= 1 /\ (max_cnt >= m => rem_len = 0)
      <2>1. len >= 1
        <3>1. len \in Nat /\ max_cnt \in Nat /\ max_cnt >= 1 /\ rem_len \in Nat
              /\ (rem_len < layout.sector \/ len >= max_cnt)
          BY <1>1
        <3>2. layout.sector \in Nat
          BY <1>3
        <3>3. len = 0 => rem_len >= layout.sector
          BY <1>4
        <3> DEFINE s == layout.sector
        <3> HIDE DEF len, s
        <3>4. s \in Nat /\ (len = 0 => rem_len >= s) /\ (rem_len < s \/ len >= max_cnt)
          BY <3>1, <3>2, <3>3 DEF s
        <3> QED BY <3>1, <3>4
      <2>2. CASE rem_len > 0 /\ len >= max_cnt /\ max_cnt >= m
        BY <1>1, <1>3, <1>4, <2>2
      <2> QED BY <1>1, <1>3, <2>1, <2>2
    <1>6. TypeOK'
      BY <1>1, <1>2 DEF TypeOK
    <1>7. ListInv'
      <2>1. \A k : Listing(k)' = Listing(k)
        BY <1>2 DEF Listing
      <2> QED BY <1>1, <1>2, <1>5, <2>1 DEF ListInv, IInv
    <1>8. SlotInv' /\ SectorNamed'
      BY <1>1, <1>2 DEF SlotInv, SectorNamed, IInv
    <1> QED BY <1>6, <1>7, <1>8 DEF IInv

\* The id leads back to the slot.
LEMMA ToSlotPreserves ==
    ASSUME IInv, ToSlot
    PROVE  IInv'
    <1>1. /\ TypeOK /\ pc = "done" /\ pc' = "idle"
          /\ UNCHANGED <<config, slot, id, area, max_cnt, sectors, rem_len, rc, named>>
      BY DEF ToSlot, IInv
    <1>2. layout' = layout /\ swap_scratch' = swap_scratch /\ Entries' = Entries
      BY <1>1, SameEntries
    <1>3. back' \in {-1, 0, 1} /\ (id = 1 => back' = 0) /\ (id = 2 => back' = 1)
      BY IdFacts DEF ToSlot
    <1>4. TypeOK'
      BY <1>1, <1>2, <1>3 DEF TypeOK
    <1>5. ListInv'
      <2>1. \A k : Listing(k)' = Listing(k)
        BY <1>2 DEF Listing
      <2> QED BY <1>1, <1>2, <2>1 DEF ListInv, IInv
    <1>6. SlotInv' /\ SectorNamed'
      BY <1>1, <1>2, <1>3 DEF SlotInv, SectorNamed, IInv
    <1> QED BY <1>4, <1>5, <1>6 DEF IInv

\* A sector is named for an offset.
LEMMA NamingPreserves ==
    ASSUME IInv, flash_area_get_sector
    PROVE  IInv'
    <1>1. /\ TypeOK /\ pc = "idle" /\ area # NoArea
          /\ UNCHANGED <<config, pc, slot, id, area, max_cnt, sectors, rem_len, rc, back>>
      BY DEF flash_area_get_sector, IInv
    <1>2. layout' = layout /\ swap_scratch' = swap_scratch /\ Entries' = Entries
      BY <1>1, SameEntries
    <1>3. PICK off \in Offs :
              named' = IF off >= area.fa_size * KiB THEN NoSector
                       ELSE [off |-> off, fs_size |-> page_size, fs_off |-> (off \div page_size) * page_size]
      BY DEF flash_area_get_sector
    <1>4. /\ layout.sector \in {1, 2, 4, 8} /\ area.fa_size \in Nat /\ off \in Nat
          /\ page_size \in {256, 1024, 2048, 4096, 8192}
          /\ area.fa_driver # "Driver_FLASH2" => page_size = layout.sector * 1024
      BY <1>1, AreaFacts, SlotAssumption DEF Whole, page_size, KiB
    <1> DEFINE p == page_size
               fs == (off \div p) * p
    <1> HIDE DEF p
    <1>5. fs \in Nat /\ fs <= off /\ off < fs + p /\ p \in Nat
      BY <1>4, PageArith DEF p
    <1>6. named' = NoSector
          \/ (named' = [off |-> off, fs_size |-> p, fs_off |-> fs] /\ off < area.fa_size * 1024)
      BY <1>3, <1>4 DEF p, KiB
    <1> HIDE DEF fs
    <1>7. TypeOK'
      <2>1. named' \in [off : Nat, fs_off : Nat, fs_size : Nat]
        BY <1>4, <1>5, <1>6 DEF NoSector
      <2> QED BY <1>1, <1>2, <2>1 DEF TypeOK
    <1>8. ListInv' /\ SlotInv'
      <2>1. \A k : Listing(k)' = Listing(k)
        BY <1>2 DEF Listing
      <2> QED BY <1>1, <1>2, <2>1 DEF ListInv, SlotInv, IInv
    <1>9. SectorNamed'
      <2>1. ASSUME named' = [off |-> off, fs_size |-> p, fs_off |-> fs], off < area.fa_size * 1024,
                   rc = 0, max_cnt >= MaxImgSectors(layout), area.fa_driver # "Driver_FLASH2"
            PROVE  \E k \in 1 .. Len(sectors) : /\ sectors[k].fs_off * KiB = fs
                                                /\ sectors[k].fs_size * KiB = p
        <3> DEFINE len == Len(sectors)
                   q == off \div (layout.sector * 1024)
        <3>1. /\ layout.sector * len = area.fa_size /\ len \in Nat
              /\ \A k \in 1 .. len : sectors[k] = Listing(k)
          <4>1. len \in Nat /\ rem_len + layout.sector * len = area.fa_size /\ rem_len = 0
            BY <1>1, <2>1 DEF IInv, ListInv
          <4>2. \A k \in 1 .. len : sectors[k] = Listing(k)
            BY DEF IInv, ListInv
          <4> QED BY <1>4, <4>1, <4>2
        <3>2. p = layout.sector * 1024 /\ fs = q * (layout.sector * 1024)
          BY <1>4, <2>1 DEF p, fs
        <3> HIDE DEF len
        <3>3. off < layout.sector * len * 1024
          BY <2>1, <3>1
        <3>4. q \in 0 .. (len - 1) /\ layout.sector * q * 1024 = q * (layout.sector * 1024)
          BY <1>4, <3>1, <3>3, NamedArith
        <3> HIDE DEF q
        <3>5. q + 1 \in 1 .. len
          BY <3>1, <3>4
        <3>6. sectors[q + 1].fs_off = layout.sector * q /\ sectors[q + 1].fs_size = layout.sector
          <4>1. sectors[q + 1] = Listing(q + 1)
            BY <3>1, <3>5
          <4> DEFINE k == q + 1
          <4>2. k - 1 = q
            BY <3>1, <3>4
          <4> HIDE DEF k
          <4>3. Listing(k).fs_off = layout.sector * (k - 1) /\ Listing(k).fs_size = layout.sector
            BY ListingFacts
          <4> QED BY <4>1, <4>2, <4>3 DEF k
        <3>7. sectors[q + 1].fs_off * KiB = fs /\ sectors[q + 1].fs_size * KiB = p
          BY <3>2, <3>4, <3>6 DEF KiB
        <3> QED BY <3>5, <3>7 DEF len
      <2>2. \A f, g : named' = [off |-> off, fs_size |-> p, fs_off |-> fs] =>
                named'.fs_off = fs /\ named'.off = off /\ named'.fs_size = p
        OBVIOUS
      <2> QED BY <1>1, <1>2, <1>5, <1>6, <2>1, <2>2 DEF SectorNamed
    <1> QED BY <1>7, <1>8, <1>9 DEF IInv

\* Every step.
LEMMA StepPreserves == IInv /\ [Next]_vars => IInv'
    <1> SUFFICES ASSUME IInv, [Next]_vars PROVE IInv'
      OBVIOUS
    <1>1. CASE UNCHANGED vars
      <2>1. /\ UNCHANGED <<config, pc, slot, id, area, max_cnt, sectors, rem_len>>
            /\ UNCHANGED <<rc, back, named>>
        BY <1>1 DEF vars
      <2>2. layout' = layout /\ swap_scratch' = swap_scratch /\ Entries' = Entries
        BY <2>1, SameEntries
      <2>3. \A k : Listing(k)' = Listing(k)
        BY <2>2 DEF Listing
      <2>4. TypeOK'
        BY <2>1, <2>2 DEF TypeOK, IInv
      <2>5. ListInv' /\ SlotInv' /\ SectorNamed'
        BY <2>1, <2>2, <2>3 DEF ListInv, SlotInv, SectorNamed, IInv
      <2> QED BY <2>4, <2>5 DEF IInv
    <1> QED BY <1>1, LookupPreserves, OpenPreserves, SectorPreserves, SectorsEndPreserves,
               ToSlotPreserves, NamingPreserves DEF Next

-----------------------------------------------------------------------------
(* The theorems.                                                           *)

\* The invariant holds throughout.
THEOREM Invariance == Spec => []IInv
    BY InitEstablishes, StepPreserves, PTL DEF Spec

\* The types of the lookups' variables: no list is longer than its caller's room.
THEOREM TypeCorrect == Spec => []TypeOK
    <1>1. IInv => TypeOK
      BY DEF IInv
    <1> QED BY <1>1, Invariance, PTL

\* The number of a slot leads to its area in the layout, and back to the number.
THEOREM SlotsRoundTrip == Spec => []SlotRoundTrip
    <1>1. IInv => SlotRoundTrip
      BY DEF IInv, SlotInv, SlotRoundTrip
    <1> QED BY <1>1, Invariance, PTL

\* flash_area_get_sectors lists an area from its start on without gaps, and all of it
\* when there is as much room as bootutil has.
THEOREM ListsTile == Spec => []SectorsTile
    <1>1. IInv => SectorsTile
      <2> SUFFICES ASSUME IInv, Listed PROVE SectorsTile
        BY DEF SectorsTile
      <2> DEFINE len == Len(sectors)
      <2>1. /\ area # NoArea /\ len >= 1 /\ len \in Nat
            /\ rem_len + layout.sector * len = area.fa_size
            /\ max_cnt >= MaxImgSectors(layout) => rem_len = 0
            /\ \A k \in 1 .. len : sectors[k] = Listing(k)
        BY DEF IInv, ListInv, Listed
      <2>2. layout.sector \in {1, 2, 4, 8} /\ area.fa_size \in Nat
        BY <2>1, AreaFacts DEF IInv, Whole
      <2>3. ASSUME NEW k \in 1 .. len
            PROVE  sectors[k].fs_off = IF k = 1 THEN 0 ELSE sectors[k - 1].fs_off + sectors[k - 1].fs_size
        <3>1. sectors[k].fs_off = layout.sector * (k - 1)
          BY <2>1, <2>3, ListingFacts
        <3>2. CASE k = 1
          BY <2>2, <3>1, <3>2
        <3>3. CASE k # 1
          <4>1. k - 1 \in 1 .. len
            BY <2>1, <2>3, <3>3
          <4>2. sectors[k - 1].fs_off = layout.sector * (k - 1 - 1) /\ sectors[k - 1].fs_size = layout.sector
            BY <2>1, <4>1, ListingFacts
          <4> DEFINE n == k - 1 - 1
          <4>3. n \in Nat /\ k - 1 = n + 1
            BY <2>1, <4>1
          <4> HIDE DEF n
          <4>4. layout.sector * (n + 1) = layout.sector * n + layout.sector
            BY <2>2, <4>3, NextArith
          <4>5. sectors[k].fs_off = layout.sector * (n + 1)
            BY <3>1, <4>3
          <4>6. sectors[k - 1].fs_off = layout.sector * n
            BY <4>2 DEF n
          <4> QED BY <3>3, <4>2, <4>4, <4>5, <4>6
        <3> QED BY <3>2, <3>3
      <2>4. max_cnt >= MaxImgSectors(layout) => sectors[len].fs_off + sectors[len].fs_size = area.fa_size
        <3>1. sectors[len].fs_off = layout.sector * (len - 1) /\ sectors[len].fs_size = layout.sector
          <4>1. len \in 1 .. len
            BY <2>1
          <4> QED BY <2>1, <4>1, ListingFacts
        <3> HIDE DEF len
        <3> QED BY <2>1, <2>2, <3>1
      <2> QED BY <2>3, <2>4 DEF SectorsTile
    <1> QED BY <1>1, Invariance, PTL

\* flash_area_get_sector names the page an offset is in, which on the chip is one of
\* the sectors that are listed.
THEOREM NamedSectorsAreListed == Spec => []SectorNamed
    <1>1. IInv => SectorNamed
      BY DEF IInv
    <1> QED BY <1>1, Invariance, PTL

-----------------------------------------------------------------------------
(* Where the layouts put the areas.                                        *)

\* An area begins on a sector and takes whole ones.
OnSectors(l, place) == place[1] % l.sector = 0 /\ place[2] % l.sector = 0

Before(place, other) == place[1] + place[2] <= other[1]

\* In every layout the boot loader comes first in the APROM, then the primary slot, then the
\* secondary, unless that one is in the SPI flash, and the APROM ends behind them.
LEMMA PlacementFacts ==
    ASSUME NEW l \in Layouts
    PROVE  /\ l.bl2[1] \in Nat /\ l.bl2[2] \in Nat /\ l.primary[1] \in Nat /\ l.primary[2] \in Nat
           /\ l.secondary[1] \in Nat /\ l.secondary[2] \in Nat /\ l.total \in Nat
           /\ l.scratch = <<l.scratch[1], l.scratch[2]>>
           /\ OnSectors(l, l.primary) /\ OnSectors(l, l.secondary) /\ OnSectors(l, l.scratch)
           /\ Before(l.bl2, l.primary) /\ l.primary[1] + l.primary[2] <= l.bl2[1] + l.total
           /\ \/ l = m460_spi
              \/ Before(l.primary, l.secondary) /\ l.secondary[1] + l.secondary[2] <= l.bl2[1] + l.total
    <1> USE DEF OnSectors, Before
    <1>1. CASE l = m2351
      BY <1>1 DEF m2351
    <1>2. CASE l = m2354
      BY <1>2 DEF m2354
    <1>3. CASE l = m261
      BY <1>3 DEF m261
    <1>4. CASE l = m2l31
      BY <1>4 DEF m2l31
    <1>5. CASE l = m3331
      BY <1>5 DEF m3331
    <1>6. CASE l = m460
      BY <1>6 DEF m460
    <1>7. CASE l = m460_spi
      <2>1. /\ l.sector = 4 /\ l.total = 1024 /\ l.bl2 = <<0, 84>> /\ l.scratch = <<246788, 4>>
            /\ l.primary = <<128, 32>> /\ l.secondary = <<0, 32>>
        BY <1>7 DEF m460_spi, m460
      <2> QED BY <1>7, <2>1
    <1>8. CASE l = m480
      BY <1>8 DEF m480
    <1>9. CASE l = m55m1
      BY <1>9 DEF m55m1
    <1> QED BY <1>1, <1>2, <1>3, <1>4, <1>5, <1>6, <1>7, <1>8, <1>9 DEF Layouts

SecondaryDriver(l) == IF l = m460_spi THEN "Driver_FLASH2" ELSE "Driver_FLASH0"

\* The places are the boot loader's, those of the two slots, and the scratch area's.
LEMMA PlacesFacts ==
    ASSUME NEW l \in Layouts, NEW s \in BOOLEAN, NEW p \in Places(l, s)
    PROVE  p \in {<<"Driver_FLASH0", l.bl2>>, <<"Driver_FLASH0", l.primary>>,
                  <<SecondaryDriver(l), l.secondary>>, <<"Driver_FLASH1", l.scratch>>}
    <1> DEFINE a == Area(1, FLASH_DEVICE_ID, "Driver_FLASH0", l.primary)
               b == IF l = m460_spi THEN Area(2, SPI_DEVICE_ID, "Driver_FLASH2", l.secondary)
                                    ELSE Area(2, FLASH_DEVICE_ID, "Driver_FLASH0", l.secondary)
               c == Area(255, FLASH_DEVICE_ID, "Driver_FLASH1", l.scratch)
               t == IF s THEN <<c>> ELSE <<>>
               place(x) == <<x.fa_driver, <<x.fa_off, x.fa_size>>>>
    <1>1. /\ place(a) = <<"Driver_FLASH0", l.primary>>
          /\ place(b) = <<SecondaryDriver(l), l.secondary>>
          /\ place(c) = <<"Driver_FLASH1", l.scratch>>
      BY LayoutFacts, PlacementFacts DEF Area, SecondaryDriver
    <1>2. flash_map(l, s) = <<a, b>> \o t /\ t \in {<<>>, <<c>>}
      BY DEF flash_map
    <1>3. Places(l, s) = {<<"Driver_FLASH0", l.bl2>>}
            \cup {place(x) : x \in {flash_map(l, s)[i] : i \in 1 .. Len(flash_map(l, s))}}
      BY DEF Places
    <1> HIDE DEF a, b, c, t, place
    <1>4. \A i \in DOMAIN (<<a, b>> \o t) : (<<a, b>> \o t)[i] \in {a, b, c}
      BY <1>2, ListFacts
    <1>5. DOMAIN (<<a, b>> \o t) = 1 .. Len(<<a, b>> \o t)
      <2>1. CASE t = <<>>
        BY <2>1
      <2>2. CASE t = <<c>>
        BY <2>2
      <2> QED BY <1>2, <2>1, <2>2
    <1>6. \A x \in {flash_map(l, s)[i] : i \in 1 .. Len(flash_map(l, s))} : x \in {a, b, c}
      BY <1>2, <1>4, <1>5
    <1> QED BY <1>1, <1>3, <1>6

\* Two of them in one device are apart, and all are where AreasPlaced wants them.
LEMMA PlacesApart ==
    ASSUME NEW l \in Layouts, NEW s \in BOOLEAN, NEW p \in Places(l, s), NEW q \in Places(l, s)
    PROVE  /\ p[2] # l.bl2 => OnSectors(l, p[2])
           /\ p[1] = "Driver_FLASH0" => l.bl2[1] <= p[2][1] /\ p[2][1] + p[2][2] <= l.bl2[1] + l.total
           /\ p # q /\ p[1] = q[1] => Before(p[2], q[2]) \/ Before(q[2], p[2])
    <1> DEFINE A == <<"Driver_FLASH0", l.bl2>>
               B == <<"Driver_FLASH0", l.primary>>
               C == <<SecondaryDriver(l), l.secondary>>
               D == <<"Driver_FLASH1", l.scratch>>
    <1>1. p \in {A, B, C, D} /\ q \in {A, B, C, D}
      BY PlacesFacts
    <1>2. /\ A[1] = "Driver_FLASH0" /\ A[2] = l.bl2 /\ B[1] = "Driver_FLASH0" /\ B[2] = l.primary
          /\ C[1] = SecondaryDriver(l) /\ C[2] = l.secondary /\ D[1] = "Driver_FLASH1" /\ D[2] = l.scratch
      OBVIOUS
    <1>3. D[1] # "Driver_FLASH0" /\ D[1] # C[1] /\ (l = m460_spi => C[1] # "Driver_FLASH0")
      BY DEF SecondaryDriver
    <1> HIDE DEF A, B, C, D
    <1>4. p[2] # l.bl2 => OnSectors(l, p[2])
      BY <1>1, <1>2, PlacementFacts
    <1>5. p[1] = "Driver_FLASH0" => l.bl2[1] <= p[2][1] /\ p[2][1] + p[2][2] <= l.bl2[1] + l.total
      BY <1>1, <1>2, <1>3, PlacementFacts DEF Before
    <1>6. /\ Before(A[2], B[2])
          /\ l = m460_spi \/ (Before(A[2], C[2]) /\ Before(B[2], C[2]))
      BY <1>2, PlacementFacts DEF Before
    <1>7. p # q /\ p[1] = q[1] => Before(p[2], q[2]) \/ Before(q[2], p[2])
      BY <1>1, <1>2, <1>3, <1>6
    <1> QED BY <1>4, <1>5, <1>7

\* No erase of an area can reach another one or the boot loader: on every platform the areas
\* are whole sectors, apart from each other, and inside their device.
THEOREM AreasArePlaced == Spec => []AreasPlaced
    <1>1. IInv => AreasPlaced
      <2> SUFFICES ASSUME IInv, NEW p \in Places(layout, swap_scratch), NEW q \in Places(layout, swap_scratch)
                   PROVE  /\ p[2] # layout.bl2 => p[2][1] % layout.sector = 0 /\ p[2][2] % layout.sector = 0
                          /\ p[1] = "Driver_FLASH0" =>
                                layout.bl2[1] <= p[2][1] /\ p[2][1] + p[2][2] <= layout.bl2[1] + layout.total
                          /\ p # q /\ p[1] = q[1] =>
                                p[2][1] + p[2][2] <= q[2][1] \/ q[2][1] + q[2][2] <= p[2][1]
        BY DEF AreasPlaced
      <2>1. layout \in Layouts /\ swap_scratch \in BOOLEAN
        BY DEF IInv, TypeOK
      <2> QED BY <2>1, PlacesApart DEF OnSectors, Before
    <1> QED BY <1>1, Invariance, PTL
=============================================================================
