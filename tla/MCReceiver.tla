---------------------------- MODULE MCReceiver ----------------------------
(***************************************************************************)
(* Receiver for TLC: silence and the loudest sample, and reads that are    *)
(* short, the longest there may be, or too long.                           *)
(*                                                                         *)
(* From RECEIVER_BUF_COPY, 6, chunks of 5 and 12 fill a buffer of 24 up to *)
(* 16, 18, 21 or 23 with one channel before it wraps around, and with two  *)
(* interleaved ones up to 21, 23, 26, 28 or 30, the last three of which    *)
(* are behind the end of buffer_sql.                                       *)
(***************************************************************************)
EXTENDS Receiver

MCAmps == {0, AMax}
=============================================================================
