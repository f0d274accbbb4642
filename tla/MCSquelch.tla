----------------------------- MODULE MCSquelch -----------------------------
(***************************************************************************)
(* Squelch for TLC: a short integrator, with levels below, between, at and *)
(* above the thresholds.                                                   *)
(***************************************************************************)
EXTENDS Squelch

MCAmps == {0, 1, 2, 3, 4, 6}
=============================================================================
