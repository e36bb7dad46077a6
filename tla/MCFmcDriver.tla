---------------------------- MODULE MCFmcDriver -----------------------------
(* Two pages of two units, the last of them refused by the controller.     *)
EXTENDS FmcDriver

MCRefused == {<<2, 1>>}
=============================================================================
