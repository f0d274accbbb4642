------------------------------ MODULE MCTrees ------------------------------
(***************************************************************************)
(* Trees for TLC: five keys for the user of splay.c, enough for every turn *)
(* of its loops; four names of which two have one CRC; two ships.          *)
(***************************************************************************)
EXTENDS Trees

MCCrc(s) == CASE s = "c" -> 2 [] s = "d" -> 3 [] OTHER -> 1
=============================================================================
