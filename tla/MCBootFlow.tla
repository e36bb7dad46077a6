----------------------------- MODULE MCBootFlow -----------------------------
(* The builds: what each run of BootFlow boots with.                       *)
EXTENDS BootFlow

Build(b, s, spi) == [build |-> b, strategy |-> s, spi |-> spi]

\* The builds that keep every promise: all but RAM_LOAD where the clearing reaches
\* the loaded image, and images started from the SPI flash.
Sound ==
    {Build(b, s, FALSE) : b \in {"m460_armclang", "m460_gnu", "m55m1"},
                          s \in {"OVERWRITE_ONLY", "SWAP", "DIRECT_XIP"}}
    \cup {Build("m460_armclang", "RAM_LOAD", FALSE)}
    \cup {Build(b, s, TRUE) : b \in {"m460_armclang", "m460_gnu"}, s \in {"OVERWRITE_ONLY", "SWAP"}}

\* RAM_LOAD with the GNU linker script of m460.
RamLoadGnu == {Build("m460_gnu", "RAM_LOAD", FALSE)}
=============================================================================
