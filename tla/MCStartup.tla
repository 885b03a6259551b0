----------------------------- MODULE MCStartup -----------------------------
(***************************************************************************)
(* Startup with concrete constants for TLC.                                *)
(***************************************************************************)
EXTENDS Startup

\* Sleep counters at power-on: erased, small enough to be believed, invalid.
MCGarbage == {<<0, 0>>, <<1, 1>>, <<Invalid, 0>>}
=============================================================================
