--------------------------- MODULE SquelchProofs ---------------------------
(***************************************************************************)
(* Proofs about Squelch, for every divider, threshold and sample range.    *)
(***************************************************************************)
EXTENDS Squelch, Integers, TLAPS

-----------------------------------------------------------------------------
(***************************************************************************)
(* The integer division by which the integrator decays.                    *)
(***************************************************************************)

\* What an integer quotient is.
LEMMA Quotient ==
  ASSUME NEW s \in Nat, NEW d \in Nat \ {0}
  PROVE  /\ s \div d \in Nat
         /\ d * (s \div d) <= s
         /\ s < d * (s \div d) + d
  OBVIOUS

\* A product grows with its factor.
LEMMA Scale ==
  ASSUME NEW d \in Nat \ {0}, NEW k \in Nat
  PROVE  d * k \in Nat /\ k <= d * k
  OBVIOUS

\* The quotient of a sum below d * (m + 1) is at most m.
LEMMA QuotientBound ==
  ASSUME NEW s \in Nat, NEW d \in Nat \ {0}, NEW m \in Nat,
         s <= d * (m + 1) - 1
  PROVE  s \div d <= m
<1> DEFINE q == s \div d
<1>1. q \in Nat /\ d * q <= s
  BY Quotient
<1>2. SUFFICES ASSUME q >= m + 1 PROVE FALSE
  BY <1>1
<1>3. d * q = d * (m + 1) + d * (q - (m + 1))
  BY <1>1
<1>4. d * (q - (m + 1)) \in Nat /\ d * (m + 1) \in Nat
  BY <1>1, <1>2, Scale
<1> HIDE DEF q
<1> QED
  BY <1>1, <1>3, <1>4

\* Decay is monotonic: the larger sum stays the larger one.
LEMMA DecayMonotonic ==
  ASSUME NEW s \in Nat, NEW t \in Nat, NEW d \in Nat \ {0}, t <= s
  PROVE  t - (t \div d) <= s - (s \div d)
<1> DEFINE q == s \div d
           p == t \div d
<1>1. /\ q \in Nat /\ d * q <= s
      /\ p \in Nat /\ t < d * p + d
  BY Quotient
<1>2. CASE q <= p
  BY <1>1, <1>2
<1>3. CASE q > p
  <2>1. d * q = d * p + d + d * (q - p - 1)
    BY <1>1
  <2>2. q - p - 1 \in Nat
    BY <1>1, <1>3
  <2>3. d * (q - p - 1) \in Nat /\ q - p - 1 <= d * (q - p - 1)
    BY <2>2, Scale
  <2>4. d * p \in Nat /\ d * q \in Nat
    BY <1>1, Scale
  <2> HIDE DEF q, p
  <2>5. s - t >= q - p
    BY <1>1, <2>1, <2>2, <2>3, <2>4
  <2> QED
    BY <1>1, <2>5 DEF q, p
<1> QED
  BY <1>1, <1>2, <1>3

\* The sum of the integrator stays within its range.
LEMMA IntegrateRange ==
  ASSUME NEW s \in 0..(DIV * (AMax + 1) - 1), NEW a \in 0..AMax
  PROVE  /\ Integrate(s, a) \in 0..(DIV * (AMax + 1) - 1)
         /\ Integrate(s, a) <= s + a
<1> DEFINE q == s \div DIV
<1>1. DIV \in Nat \ {0} /\ AMax \in Nat
  BY SquelchAssumption DEF SquelchAssumption
<1>2. DIV * (AMax + 1) \in Nat
  BY <1>1, Scale
<1>3. s \in Nat /\ s <= DIV * (AMax + 1) - 1
  BY <1>2
<1>4. q \in Nat /\ DIV * q <= s /\ s < DIV * q + DIV
  BY <1>1, <1>3, Quotient
<1>5. q <= AMax
  BY <1>1, <1>3, QuotientBound
<1>6. DIV * (AMax + 1) = DIV * q + DIV + DIV * (AMax - q)
  BY <1>1, <1>4
<1>7. DIV * (AMax - q) \in Nat /\ AMax - q <= DIV * (AMax - q)
  BY <1>1, <1>4, <1>5, Scale
<1>8. DIV * q \in Nat /\ q <= DIV * q
  BY <1>1, <1>4, Scale
<1>9. Integrate(s, a) = s - q + a
  BY DEF Integrate
<1> HIDE DEF q
<1> QED
  BY <1>1, <1>2, <1>3, <1>4, <1>5, <1>6, <1>7, <1>8, <1>9

-----------------------------------------------------------------------------
(***************************************************************************)
(* The invariants.                                                         *)
(***************************************************************************)

\* The types, with the range of the sum, hold in every step of the loop.
LEMMA SquelchTypeStep == ASSUME TypeOK, [Next]_sqlvars PROVE TypeOK'
<1>1. DIV \in Nat \ {0} /\ AMax \in Nat /\ RED_STEP \in Nat \ {0}
  BY SquelchAssumption DEF SquelchAssumption
<1>2. ASSUME NEW a \in Amps, Sample(a) PROVE TypeOK'
  <2>1. a \in 0..AMax
    BY SquelchAssumption DEF SquelchAssumption
  <2>2. sql_absval_sum' \in 0..(DIV * (AMax + 1) - 1) /\ cur_sql' \in 0..AMax
    BY <1>2, <2>1, IntegrateRange DEF Sample, TypeOK
  <2>3. sql_red_step' \in 0..(RED_STEP - 1)
    BY <1>1, <1>2 DEF Sample, Looks, TypeOK
  <2>4. sql_open' \in BOOLEAN
    BY <1>2 DEF Sample, TypeOK
  <2> QED
    BY <2>2, <2>3, <2>4 DEF TypeOK
<1>3. CASE UNCHANGED sqlvars
  BY <1>3 DEF sqlvars, TypeOK
<1> QED
  BY <1>2, <1>3 DEF Next

\* The integrator of copy_buffer stays within its range: the sum never wraps.
THEOREM IntegratorBounded == Spec => []TypeOK
<1>1. Init => TypeOK
  <2>1. DIV * (AMax + 1) \in Nat
    BY SquelchAssumption, Scale DEF SquelchAssumption
  <2> QED
    <3>1. THR_CLOSE \in 0..(DIV * (AMax + 1) - 1)
      BY <2>1, SquelchAssumption DEF SquelchAssumption
    <3>2. 0 \in 0..(RED_STEP - 1) /\ 0 \in 0..AMax
      BY SquelchAssumption DEF SquelchAssumption
    <3> QED
      BY <3>1, <3>2 DEF Init, TypeOK
<1>2. TypeOK /\ [Next]_sqlvars => TypeOK'
  BY SquelchTypeStep
<1> QED
  BY <1>1, <1>2, PTL DEF Spec

\* The squelch is never further from its level than one round of the
\* decimation allows.
THEOREM TracksLevel == Spec => []StateTracksLevel
<1>1. Init => StateTracksLevel
  BY SquelchAssumption DEF SquelchAssumption, Init, StateTracksLevel
<1>2. ASSUME TypeOK, StateTracksLevel, [Next]_sqlvars
      PROVE  StateTracksLevel'
  <2> DEFINE s == sql_absval_sum
             k == THR_OPEN \div DIV
  <2>1. /\ DIV \in Nat \ {0} /\ AMax \in Nat /\ RED_STEP \in Nat \ {0}
        /\ THR_OPEN \in Nat /\ THR_CLOSE \in Nat /\ THR_OPEN <= THR_CLOSE
    BY SquelchAssumption DEF SquelchAssumption
  <2>2. s \in Nat /\ sql_red_step \in Nat /\ sql_open \in BOOLEAN
    BY <1>2, <2>1, Scale DEF TypeOK
  <2>3. k \in Nat
    BY <2>1, Quotient
  <2>4. ASSUME NEW a \in Amps, Sample(a) PROVE StateTracksLevel'
    <3>1. a \in 0..AMax
      BY SquelchAssumption DEF SquelchAssumption
    <3>2. sql_absval_sum' \in Nat /\ sql_absval_sum' <= s + a
      <4>1. sql_absval_sum' \in 0..(DIV * (AMax + 1) - 1)
        BY <1>2, <2>4, <3>1, IntegrateRange DEF Sample, TypeOK
      <4>2. sql_absval_sum' <= s + a
        BY <1>2, <2>4, <3>1, IntegrateRange DEF Sample, TypeOK
      <4> QED
        BY <4>1, <4>2
    <3>3. CASE Looks
      <4>1. sql_red_step' = 0
        BY <2>4, <3>3 DEF Sample
      <4>2. sql_open' <=> \/ Opens(sql_absval_sum')
                          \/ sql_open /\ ~Closes(sql_absval_sum')
        BY <2>4, <3>3 DEF Sample
      <4>3. sql_open' => sql_absval_sum' <= THR_CLOSE
        BY <2>1, <3>2, <4>2 DEF Opens, Closes
      <4>4. ~sql_open' => sql_absval_sum' >= THR_OPEN
        BY <2>1, <3>2, <4>2 DEF Opens, Closes
      <4>5. 0 * AMax = 0 /\ 0 * k = 0
        BY <2>1, <2>3
      <4>6. sql_open' => sql_absval_sum' <= THR_CLOSE + sql_red_step' * AMax
        BY <2>1, <3>2, <4>1, <4>3, <4>5
      <4>7. ~sql_open' => sql_absval_sum' + sql_red_step' * k >= THR_OPEN
        BY <3>2, <4>1, <4>4, <4>5
      <4> QED
        BY <4>6, <4>7 DEF StateTracksLevel
    <3>4. CASE ~Looks
      <4>1. sql_red_step' = sql_red_step + 1 /\ sql_open' = sql_open
        BY <2>4, <3>4 DEF Sample
      <4>2. /\ sql_red_step * AMax \in Nat /\ sql_red_step * k \in Nat
            /\ (sql_red_step + 1) * AMax = sql_red_step * AMax + AMax
            /\ (sql_red_step + 1) * k = sql_red_step * k + k
        BY <2>1, <2>2, <2>3
      <4>3. sql_open => s <= THR_CLOSE + sql_red_step * AMax
        BY <1>2 DEF StateTracksLevel
      <4>4. ~sql_open => s + sql_red_step * k >= THR_OPEN
        BY <1>2 DEF StateTracksLevel
      <4>5. sql_open => sql_absval_sum' <=
                          THR_CLOSE + (sql_red_step + 1) * AMax
        BY <2>1, <2>2, <3>1, <3>2, <4>2, <4>3
      <4>6. sql_absval_sum' = s - s \div DIV + a
        BY <2>4 DEF Sample, Integrate
      <4>7. ~sql_open => sql_absval_sum' + (sql_red_step + 1) * k >= THR_OPEN
        <5>1. CASE s >= THR_OPEN
          <6>1. THR_OPEN - k <= s - (s \div DIV)
            BY <2>1, <2>2, <5>1, DecayMonotonic
          <6>2. s \div DIV \in Nat
            BY <2>1, <2>2, Quotient
          <6> HIDE DEF k, s
          <6> QED
            BY <2>1, <2>2, <2>3, <3>1, <4>2, <4>6, <6>1, <6>2
        <5>2. CASE s < THR_OPEN
          <6>1. s - (s \div DIV) >= s - k
            <7>1. /\ s \div DIV \in Nat /\ DIV * (s \div DIV) <= s
                  /\ THR_OPEN < DIV * k + DIV
              BY <2>1, <2>2, Quotient
            <7>2. DIV * (k + 1) = DIV * k + DIV
              BY <2>1, <2>3
            <7>3. DIV * (k + 1) \in Nat
              BY <2>1, <2>3, Scale
            <7>4. s <= DIV * (k + 1) - 1
              BY <2>1, <2>2, <5>2, <7>1, <7>2, <7>3
            <7>5. s \div DIV <= k
              BY <2>1, <2>2, <2>3, <7>4, QuotientBound
            <7> QED
              BY <2>2, <2>3, <7>1, <7>5
          <6>2. s \div DIV \in Nat
            BY <2>1, <2>2, Quotient
          <6> HIDE DEF k, s
          <6> QED
            BY <2>1, <2>2, <2>3, <3>1, <4>2, <4>4, <4>6, <6>1, <6>2
        <5> QED
          BY <2>1, <2>2, <5>1, <5>2
      <4> QED
        BY <4>1, <4>5, <4>7 DEF StateTracksLevel
    <3> QED
      BY <3>3, <3>4
  <2>5. CASE UNCHANGED sqlvars
    BY <1>2, <2>5 DEF sqlvars, StateTracksLevel
  <2> QED
    BY <1>2, <2>4, <2>5 DEF Next
<1> QED
  BY <1>1, <1>2, IntegratorBounded, PTL DEF Spec
=============================================================================
