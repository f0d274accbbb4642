---------------------------- MODULE MCFirFilter ----------------------------
(***************************************************************************)
(* FirFilter for TLC: the constants are given in the cfg files.            *)
(***************************************************************************)
EXTENDS FirFilter
=============================================================================
