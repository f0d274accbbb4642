----------------------------- MODULE FirFilter -----------------------------
(***************************************************************************)
(* The FIR filter of filter.c.  A filter keeps its recent input in a       *)
(* buffer that is longer than its taps; when the buffer is full the last   *)
(* "length" samples move to the front.  The products and sums of mac are   *)
(* left out: what matters is which samples are multiplied with the taps.   *)
(***************************************************************************)
EXTENDS Naturals

CONSTANTS length,     \* number of taps
          BufferLen,  \* size of the buffer
          Samples,    \* the values of samples
          Filler,     \* the cleared buffer
          MaxLen      \* bound: samples per call of filter_run_buf

\* The two halves of the memcpy do not overlap: 36 taps, 1024 samples.
ASSUME FirAssumption ==
  /\ length \in Nat \ {0} /\ BufferLen \in Nat /\ 2 * length <= BufferLen
  /\ length < BufferLen
  /\ Filler \in Samples
  /\ MaxLen \in Nat

VARIABLES buffer,     \* f->buffer
          pointer,    \* f->pointer
          local,      \* filter_run_buf: its own copy of the pointer
          od,         \* filter_run_buf: samples done
          len,        \* filter_run_buf: samples to do
          stage,      \* "idle" between calls, "loop" in filter_run_buf
          operands    \* what the latest mac multiplied with the taps

firVars == <<buffer, pointer, local, od, len, stage, operands>>

\* filter_init clears the filter and leaves room for the taps.
FirInit == /\ buffer = [i \in 0..(BufferLen - 1) |-> Filler]
           /\ pointer = length
           /\ local = length
           /\ od = 0
           /\ len = 0
           /\ stage = "idle"
           /\ operands = [i \in 1..length |-> Filler]

\* The "length" samples of buffer b before position p.
Before(b, p) == [i \in 1..length |-> b[p - length + i - 1]]

\* Mutant: the samples are moved from one position too early.
MovedToFront_OffByOne(b) ==
  [i \in 0..(BufferLen - 1) |->
     IF i < length THEN b[BufferLen - length + i - 1] ELSE b[i]]

\* The memcpy of the last samples to the front.
MovedToFront(b) ==
  [i \in 0..(BufferLen - 1) |->
     IF i < length THEN b[BufferLen - length + i] ELSE b[i]]

\* Mutant: the pointer goes back to the start, not behind the moved samples.
Feed_FromStart(x, p, newp) ==
  LET filled == [buffer EXCEPT ![p] = x]
  IN  /\ operands' = Before(filled, p)
      /\ IF p + 1 = BufferLen
           THEN buffer' = MovedToFront(filled) /\ newp' = 0
           ELSE buffer' = filled /\ newp' = p + 1

\* One sample at position p: store it, filter, wrap a full buffer around.
\* The pointer moves to newp'.
Feed(x, p, newp) ==
  LET filled == [buffer EXCEPT ![p] = x]
  IN  /\ operands' = Before(filled, p)
      /\ IF p + 1 = BufferLen
           THEN buffer' = MovedToFront(filled) /\ newp' = length
           ELSE buffer' = filled /\ newp' = p + 1

\* filter_run: one sample, on f->pointer.
filter_run(x) == /\ stage = "idle"
                 /\ Feed(x, pointer, pointer)
                 /\ UNCHANGED <<local, od, len, stage>>

\* filter_run_buf: the pointer is copied to a local ...
RunBufBegin(n) == /\ stage = "idle"
                  /\ local' = pointer
                  /\ od' = 0
                  /\ len' = n
                  /\ stage' = "loop"
                  /\ UNCHANGED <<buffer, pointer, operands>>

\* ... that runs ahead over the samples ...
RunBufRound(x) == /\ stage = "loop"
                  /\ od < len
                  /\ Feed(x, local, local)
                  /\ od' = od + 1
                  /\ UNCHANGED <<pointer, len, stage>>

\* ... and is stored back at the end.
RunBufEnd == /\ stage = "loop"
             /\ od = len
             /\ pointer' = local
             /\ stage' = "idle"
             /\ UNCHANGED <<buffer, local, od, len, operands>>

FirNext == \/ \E x \in Samples : filter_run(x) \/ RunBufRound(x)
           \/ \E n \in 0..MaxLen : RunBufBegin(n)
           \/ RunBufEnd

FirSpec == FirInit /\ [][FirNext]_firVars

-----------------------------------------------------------------------------
\* The pointer that says where the next sample goes.
Position == IF stage = "loop" THEN local ELSE pointer

\* Every variable has its type.  The range of the two pointers says that every
\* access of filter_run and filter_run_buf, "length" samples back to the
\* position itself, is inside the buffer.
FirTypeOK == /\ buffer \in [0..(BufferLen - 1) -> Samples]
             /\ pointer \in length..(BufferLen - 1)
             /\ local \in length..(BufferLen - 1)
             /\ od \in 0..len
             /\ len \in 0..MaxLen
             /\ stage \in {"idle", "loop"}
             /\ operands \in [1..length -> Samples]

\* The taps are always multiplied with the latest "length" samples before the
\* one that arrives, in order, whatever mix of calls fed them and wherever the
\* buffer wrapped around ("is the source offset calculated right?").
Window == INSTANCE SlidingWindow WITH
            W <- length,
            win <- Before(buffer, Position),
            seen <- operands
ImplementsWindow == Window!Spec
=============================================================================
