--------------------------- MODULE SlidingWindow ---------------------------
(***************************************************************************)
(* The promise of a history buffer: the latest W samples of a stream, in   *)
(* order.  A reader that looks while a sample arrives sees the W samples   *)
(* before that one.  Both history buffers of the receiver implement this   *)
(* window: the one of the FIR filter (FirFilter) and the sample buffer in  *)
(* which a transmission's start is searched (Receiver).                    *)
(***************************************************************************)
EXTENDS Naturals

CONSTANTS W,        \* length of the window, at least 1
          Samples,  \* the values of samples
          Filler    \* what the window holds before the stream starts

VARIABLES win,    \* win[1] is the oldest sample, win[W] the latest
          seen    \* what the reader saw when it last looked

vars == <<win, seen>>

Init == /\ win = [i \in 1..W |-> Filler]
        /\ seen = [i \in 1..W |-> Filler]

\* A sample arrives and becomes the latest one; the others move up by one.
Shift == /\ win'[W] \in Samples
         /\ win' = [i \in 1..W |-> IF i = W THEN win'[W] ELSE win[i + 1]]
         /\ \/ seen' = win
            \/ UNCHANGED seen

Next == Shift

Spec == Init /\ [][Next]_vars
=============================================================================
