------------------------ MODULE MCFingerprintSearch ------------------------
(***************************************************************************)
(* FingerprintSearch for TLC: short fingerprints and two offsets, with     *)
(* differences at, below and above the point of giving up and the weak     *)
(* threshold.                                                              *)
(***************************************************************************)
EXTENDS FingerprintSearch

MCOffsets == {0, 1}
MCSums == {0, 3, 6, 7, 13}
=============================================================================
