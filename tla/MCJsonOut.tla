----------------------------- MODULE MCJsonOut -----------------------------
(***************************************************************************)
(* JsonOut for TLC: the constants are given in the cfg files.              *)
(***************************************************************************)
EXTENDS JsonOut
=============================================================================
