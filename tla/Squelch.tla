------------------------------ MODULE Squelch ------------------------------
(***************************************************************************)
(* The squelch of copy_buffer (receiver.c): a leaky integrator over the    *)
(* absolute value of the high-passed samples, and a hysteresis that is     *)
(* looked at once in RED_STEP samples.  Noise is loud, so a low level      *)
(* means that somebody transmits and opens the squelch.                    *)
(*                                                                         *)
(* One step is the part of one round of copy_buffer's loop that concerns   *)
(* the squelch.  What a change of the squelch sets off is in Receiver.     *)
(***************************************************************************)
EXTENDS Naturals

CONSTANTS DIV,        \* SQL_ABSVAL_DIVIDER
          THR_OPEN,   \* SQL_ABSVAL_THR_OPEN
          THR_CLOSE,  \* SQL_ABSVAL_THR_CLOSE
          RED_STEP,   \* samples per look at the thresholds: 15
          AMax,       \* the largest absolute value of a sample: 32768
          Amps        \* the absolute values that occur, 0..AMax in the code

ASSUME SquelchAssumption ==
  /\ DIV \in Nat \ {0} /\ RED_STEP \in Nat \ {0} /\ AMax \in Nat
  /\ Amps \subseteq 0..AMax
  /\ THR_OPEN \in Nat /\ THR_CLOSE \in Nat /\ THR_OPEN <= THR_CLOSE
  /\ THR_CLOSE < DIV * (AMax + 1)

VARIABLES sql_absval_sum,
          sql_red_step,
          sql_open,
          cur_sql           \* absolute value of the latest filtered sample

sqlvars == <<sql_absval_sum, sql_red_step, sql_open, cur_sql>>

\* The squelch starts up closed, as if it had heard noise.
Init == /\ sql_absval_sum = THR_CLOSE
        /\ sql_red_step = 0
        /\ sql_open = FALSE
        /\ cur_sql = 0

\* Mutant: the integrator does not leak.
Integrate_NoLeak(sum, a) == sum + a

\* The integrator: the sum decays by its DIV-th part, then the sample is added.
Integrate(sum, a) == sum - (sum \div DIV) + a

\* Mutant: the threshold to close is checked the wrong way round.
Closes_Swapped(sum) == sql_open /\ sum < THR_CLOSE

\* Mutant: one threshold for both changes.
Closes_NoHysteresis(sum) == sql_open /\ sum >= THR_OPEN

\* The two changes at a look at the thresholds.
Closes(sum) == sql_open /\ sum > THR_CLOSE

\* Mutant: the squelch opens on noise.
Opens_Swapped(sum) == ~sql_open /\ sum > THR_OPEN

Opens(sum) == (~sql_open \/ Closes(sum)) /\ sum < THR_OPEN

\* This sample is one at which the thresholds are looked at.
Looks == sql_red_step + 1 = RED_STEP

Sample(a) ==
  LET sum == Integrate(sql_absval_sum, a)
  IN  /\ sql_absval_sum' = sum
      /\ cur_sql' = a
      /\ IF Looks
           THEN /\ sql_red_step' = 0
                /\ sql_open' = (Opens(sum) \/ (sql_open /\ ~Closes(sum)))
           ELSE /\ sql_red_step' = sql_red_step + 1
                /\ UNCHANGED sql_open

Next == \E a \in Amps : Sample(a)

\* Samples keep coming while the program runs: the sound card produces them
\* in real time.
Spec == Init /\ [][Next]_sqlvars
FairSpec == Spec /\ WF_sqlvars(Next)

-----------------------------------------------------------------------------
\* Every variable has its type; the sum never exceeds what DIV samples of the
\* largest absolute value can hold, far below what an unsigned long holds.
TypeOK == /\ sql_absval_sum \in 0..(DIV * (AMax + 1) - 1)
          /\ sql_red_step \in 0..(RED_STEP - 1)
          /\ sql_open \in BOOLEAN
          /\ cur_sql \in 0..AMax

\* The state of the squelch is out of date by less than one round of the
\* decimation: an open squelch is above the closing threshold, and a closed
\* one below the opening threshold, by no more than the samples since the
\* last look can account for.
StateTracksLevel ==
  /\ sql_open => sql_absval_sum <= THR_CLOSE + sql_red_step * AMax
  /\ ~sql_open => sql_absval_sum + sql_red_step * (THR_OPEN \div DIV)
                    >= THR_OPEN

Quiet == cur_sql < THR_OPEN \div DIV
Noisy == cur_sql > THR_CLOSE \div DIV

\* A channel that stays quiet opens the squelch, and it stays open.
QuietOpens == <>[]Quiet => <>[]sql_open

\* A channel that stays noisy closes the squelch, and it stays closed.
NoiseCloses == <>[]Noisy => <>[](~sql_open)
=============================================================================
