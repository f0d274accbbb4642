---------------------------- MODULE SignalProofs ----------------------------
(***************************************************************************)
(* Proofs about the two parts of the receiver that only look at samples:   *)
(* FirFilter, for every number of taps and size of buffer, and             *)
(* FingerprintSearch, for any number of fingerprints, offsets and          *)
(* differences, any length of the list and any weak threshold.             *)
(***************************************************************************)
EXTENDS FirFilter, FingerprintSearch, FiniteSetTheorems, WellFoundedInduction, TLAPS

-----------------------------------------------------------------------------
(***************************************************************************)
(* The FIR filter.                                                         *)
(***************************************************************************)

\* The sizes that the bounds of the buffer follow from.
LEMMA Sizes ==
  /\ length \in Nat /\ length >= 1
  /\ BufferLen \in Nat /\ 2 * length <= BufferLen /\ length < BufferLen
  BY FirAssumption DEF FirAssumption

\* What Feed does to the buffer, the pointer and the window.
LEMMA FeedShifts ==
  ASSUME NEW x \in Samples,
         buffer \in [0..(BufferLen - 1) -> Samples],
         NEW p \in length..(BufferLen - 1),
         NEW q,
         LET filled == [buffer EXCEPT ![p] = x]
         IN  /\ operands' = Before(filled, p)
             /\ IF p + 1 = BufferLen
                  THEN buffer' = MovedToFront(filled) /\ q = length
                  ELSE buffer' = filled /\ q = p + 1
  PROVE  /\ buffer' \in [0..(BufferLen - 1) -> Samples]
         /\ q \in length..(BufferLen - 1)
         /\ operands' = Before(buffer, p)
         /\ Before(buffer, p) \in [1..length -> Samples]
         /\ Before(buffer', q)
              = [i \in 1..length |-> IF i = length THEN x
                                     ELSE Before(buffer, p)[i + 1]]
<1> DEFINE filled == [buffer EXCEPT ![p] = x]
<1> USE Sizes
<1>1. /\ filled \in [0..(BufferLen - 1) -> Samples]
      /\ filled[p] = x
      /\ \A j \in 0..(BufferLen - 1) : j # p => filled[j] = buffer[j]
  OBVIOUS
<1>2. \A i \in 1..length : p - length + i - 1 \in 0..(BufferLen - 1) \ {p}
  OBVIOUS
<1>3. operands' = Before(buffer, p)
  BY <1>1, <1>2 DEF Before
<1>4. Before(buffer, p) \in [1..length -> Samples]
  BY <1>2 DEF Before
<1>5. \A i \in 1..length :
        Before(filled, p + 1)[i] = IF i = length THEN x
                                   ELSE Before(buffer, p)[i + 1]
  BY <1>1, <1>2 DEF Before
<1>6. CASE p + 1 = BufferLen
  <2>1. buffer' = MovedToFront(filled) /\ q = length
    BY <1>6
  <2>2. \A i \in 1..length :
          MovedToFront(filled)[i - 1] = filled[p - length + i]
    BY <1>6 DEF MovedToFront
  <2>3. MovedToFront(filled) \in [0..(BufferLen - 1) -> Samples]
    BY <1>1 DEF MovedToFront
  <2> HIDE DEF filled
  <2>4. ASSUME NEW i \in 1..length
        PROVE  Before(buffer', q)[i] = Before(filled, p + 1)[i]
    <3>1. q - length + i - 1 = i - 1 /\ (p + 1) - length + i - 1 = p - length + i
      BY <2>1
    <3>2. Before(buffer', q)[i] = buffer'[i - 1]
      BY <3>1 DEF Before
    <3>3. Before(filled, p + 1)[i] = filled[p - length + i]
      BY <3>1 DEF Before
    <3> QED
      BY <2>1, <2>2, <3>2, <3>3
  <2>5. Before(buffer', q)
          = [i \in 1..length |-> IF i = length THEN x
                                 ELSE Before(buffer, p)[i + 1]]
    BY ONLY <1>5, <2>4 DEF Before
  <2> QED
    BY <1>3, <1>4, <2>1, <2>3, <2>5
<1>7. CASE p + 1 # BufferLen
  <2>1. buffer' = filled /\ q = p + 1
    BY <1>7
  <2>2. q \in length..(BufferLen - 1)
    BY <1>7, <2>1
  <2> HIDE DEF filled
  <2> QED
    BY <1>1, <1>3, <1>4, <1>5, <2>1, <2>2 DEF Before
<1> QED
  BY <1>6, <1>7

\* Initially the types are right.
LEMMA FirTypeInit == ASSUME FirInit PROVE FirTypeOK
  BY FirAssumption, Sizes DEF FirAssumption, FirInit, FirTypeOK

\* One call or round that feeds a sample: types, window and reader.
LEMMA FeedStep ==
  ASSUME FirTypeOK, NEW x \in Samples, filter_run(x) \/ RunBufRound(x)
  PROVE  FirTypeOK' /\ Window!Shift
<1>1. CASE filter_run(x)
  <2>1. /\ buffer' \in [0..(BufferLen - 1) -> Samples]
        /\ pointer' \in length..(BufferLen - 1)
        /\ operands' = Before(buffer, pointer)
        /\ Before(buffer, pointer) \in [1..length -> Samples]
        /\ Before(buffer', pointer')
             = [i \in 1..length |-> IF i = length THEN x
                                    ELSE Before(buffer, pointer)[i + 1]]
    <3>1. /\ buffer \in [0..(BufferLen - 1) -> Samples]
          /\ pointer \in length..(BufferLen - 1)
      BY DEF FirTypeOK
    <3>2. LET filled == [buffer EXCEPT ![pointer] = x]
          IN  /\ operands' = Before(filled, pointer)
              /\ IF pointer + 1 = BufferLen
                   THEN buffer' = MovedToFront(filled) /\ pointer' = length
                   ELSE buffer' = filled /\ pointer' = pointer + 1
      BY ONLY <1>1 DEF filter_run, Feed
    <3> QED
      BY ONLY <3>1, <3>2, FeedShifts, x \in Samples
  <2>2. Position = pointer /\ Position' = pointer'
    BY <1>1 DEF filter_run, Position
  <2>3. FirTypeOK'
    BY <1>1, <2>1 DEF filter_run, FirTypeOK
  <2>4. Before(buffer, Position) = Before(buffer, pointer)
    BY <2>2
  <2>5. Before(buffer, Position)'
          = [i \in 1..length |-> IF i = length THEN x
                                 ELSE Before(buffer, Position)[i + 1]]
    BY <2>1, <2>2, <2>4 DEF Before
  <2>6. Before(buffer, Position)'[length] = x
    BY <2>5, Sizes
  <2>7. operands' = Before(buffer, Position)
    BY <2>1, <2>4
  <2> QED
    BY <2>3, <2>5, <2>6, <2>7 DEF Window!Shift
<1>2. CASE RunBufRound(x)
  <2>1. /\ buffer' \in [0..(BufferLen - 1) -> Samples]
        /\ local' \in length..(BufferLen - 1)
        /\ operands' = Before(buffer, local)
        /\ Before(buffer, local) \in [1..length -> Samples]
        /\ Before(buffer', local')
             = [i \in 1..length |-> IF i = length THEN x
                                    ELSE Before(buffer, local)[i + 1]]
    <3>1. /\ buffer \in [0..(BufferLen - 1) -> Samples]
          /\ local \in length..(BufferLen - 1)
      BY DEF FirTypeOK
    <3>2. LET filled == [buffer EXCEPT ![local] = x]
          IN  /\ operands' = Before(filled, local)
              /\ IF local + 1 = BufferLen
                   THEN buffer' = MovedToFront(filled) /\ local' = length
                   ELSE buffer' = filled /\ local' = local + 1
      BY ONLY <1>2 DEF RunBufRound, Feed
    <3> QED
      BY ONLY <3>1, <3>2, FeedShifts, x \in Samples
  <2>2. Position = local /\ Position' = local'
    BY <1>2 DEF RunBufRound, Position
  <2>3. FirTypeOK'
    BY <1>2, <2>1, FirAssumption DEF FirAssumption, RunBufRound, FirTypeOK
  <2>4. Before(buffer, Position) = Before(buffer, local)
    BY <2>2
  <2>5. Before(buffer, Position)'
          = [i \in 1..length |-> IF i = length THEN x
                                 ELSE Before(buffer, Position)[i + 1]]
    BY <2>1, <2>2, <2>4 DEF Before
  <2>6. Before(buffer, Position)'[length] = x
    BY <2>5, Sizes
  <2>7. operands' = Before(buffer, Position)
    BY <2>1, <2>4
  <2> QED
    BY <2>3, <2>5, <2>6, <2>7 DEF Window!Shift
<1> QED
  BY <1>1, <1>2

\* The steps that only hand the pointer over do not show.
LEMMA HandOverStep ==
  ASSUME FirTypeOK,
         \/ \E n \in 0..MaxLen : RunBufBegin(n)
         \/ RunBufEnd
         \/ UNCHANGED firVars
  PROVE  FirTypeOK' /\ UNCHANGED Window!vars
<1>1. Position' = Position /\ buffer' = buffer /\ operands' = operands
  BY DEF RunBufBegin, RunBufEnd, firVars, Position
<1>2. FirTypeOK'
  BY FirAssumption
     DEF FirAssumption, RunBufBegin, RunBufEnd, firVars, FirTypeOK
<1> QED
  BY <1>1, <1>2 DEF Window!vars, Before

\* The types and the bounds of every access to the buffer.
THEOREM FirTypeCorrect == FirSpec => []FirTypeOK
<1>1. FirInit => FirTypeOK
  BY FirTypeInit
<1>2. FirTypeOK /\ [FirNext]_firVars => FirTypeOK'
  BY FeedStep, HandOverStep DEF FirNext
<1> QED
  BY <1>1, <1>2, PTL DEF FirSpec

\* The filter implements the sliding window: its taps are applied to the
\* latest samples, in order, for every length and every mix of calls.
THEOREM FirRefinement == FirSpec => ImplementsWindow
<1>1. FirInit => Window!Init
  <2> SUFFICES ASSUME FirInit PROVE Window!Init
    OBVIOUS
  <2>1. Position = length
    BY DEF FirInit, Position
  <2>2. \A i \in 1..length : length - length + i - 1 \in 0..(BufferLen - 1)
    BY Sizes
  <2> QED
    BY <2>1, <2>2 DEF FirInit, Before, Window!Init
<1>2. FirTypeOK /\ [FirNext]_firVars => [Window!Next]_(Window!vars)
  BY FeedStep, HandOverStep DEF FirNext, Window!Next
<1> QED
  BY <1>1, <1>2, FirTypeCorrect, PTL DEF FirSpec, ImplementsWindow, Window!Spec

-----------------------------------------------------------------------------
(***************************************************************************)
(* The search of fingerprints.                                             *)
(***************************************************************************)

(***************************************************************************)
(* Minima and quotients.                                                   *)
(***************************************************************************)

\* A set of natural numbers has a smallest element, which is what Min chooses.
LEMMA Minimum ==
  ASSUME NEW T \in SUBSET Nat, T # {}
  PROVE  Min(T) \in T /\ \A y \in T : Min(T) <= y
<1>1. PICK x \in T : \A y \in T : ~ (<<y, x>> \in OpToRel(<, Nat))
  BY WFMin, NatLessThanWellFounded
<1>2. \A y \in T : x <= y
  <2> SUFFICES ASSUME NEW y \in T, y < x PROVE FALSE
    OBVIOUS
  <2>1. <<y, x>> \in Nat \X Nat /\ <<y, x>>[1] < <<y, x>>[2]
    OBVIOUS
  <2> QED
    BY <1>1, <2>1 DEF OpToRel
<1> QED
  BY <1>2 DEF Min

LEMMA MinimumIs ==
  ASSUME NEW T \in SUBSET Nat, NEW m \in T, \A y \in T : m <= y
  PROVE  Min(T) = m
<1>1. Min(T) \in T /\ \A y \in T : Min(T) <= y
  BY Minimum
<1>2. Min(T) \in Nat /\ m \in Nat /\ Min(T) <= m /\ m <= Min(T)
  BY <1>1
<1> QED
  BY <1>2

\* What a quotient is, and that it grows with the dividend.
LEMMA Quotient ==
  ASSUME NEW a \in Nat, NEW d \in Nat \ {0}
  PROVE  a \div d \in Nat /\ d * (a \div d) <= a /\ a < d * (a \div d) + d
  OBVIOUS

LEMMA QuotientGrows ==
  ASSUME NEW a \in Nat, NEW b \in Nat, NEW d \in Nat \ {0}, a <= b
  PROVE  a \div d <= b \div d
<1> DEFINE p == a \div d
           q == b \div d
<1>1. p \in Nat /\ d * p <= a /\ q \in Nat /\ b < d * q + d
  BY Quotient
<1> HIDE DEF p, q
<1>2. ASSUME p >= q + 1 PROVE FALSE
  <2>1. d * p = d * q + d + d * (p - q - 1)
    BY <1>1
  <2>2. p - q - 1 \in Nat
    BY <1>1, <1>2
  <2>3. d * (p - q - 1) \in Nat
    BY <2>2
  <2>4. d * p \in Nat /\ d * q \in Nat
    BY <1>1
  <2> QED
    BY <1>1, <2>1, <2>3, <2>4
<1>3. p <= q
  BY <1>1, <1>2
<1> QED
  BY <1>3 DEF p, q

LEMMA QuotientSmaller ==
  ASSUME NEW a \in Nat, NEW d \in Nat \ {0}
  PROVE  a \div d <= a
<1> DEFINE q == a \div d
<1>1. q \in Nat /\ d * q <= a
  BY Quotient
<1> HIDE DEF q
<1>2. d * q = q + (d - 1) * q /\ (d - 1) * q \in Nat
  BY <1>1
<1>3. q <= a
  BY <1>1, <1>2
<1> QED
  BY <1>3 DEF q

-----------------------------------------------------------------------------
(***************************************************************************)
(* One fingerprint.                                                        *)
(***************************************************************************)

\* A fingerprint whose differences to the samples are `sums' matches at x.
Fits(n, sums, x) == sums[x] <= Giveup(n) /\ sums[x] \div (3 * n) < threshold_weak

LEMMA Constants ==
  ASSUME NEW n \in FpLens
  PROVE  /\ n \in Nat \ {0} /\ 3 * n \in Nat \ {0} /\ n * 3 = 3 * n
         /\ threshold_weak \in Nat /\ ULONG_MAX \in Nat /\ Giveup(n) \in Nat
         /\ ULONG_MAX \div (3 * n) \in Nat
         /\ threshold_weak <= ULONG_MAX \div (3 * n) /\ threshold_weak <= ULONG_MAX
<1>1. /\ n \in Nat \ {0} /\ threshold_weak \in Nat /\ ULONG_MAX \in Nat
      /\ ULONG_MAX \div (3 * n) >= threshold_weak
  BY SearchAssumption DEF SearchAssumption
<1>2. 3 * n \in Nat \ {0} /\ n * 3 = 3 * n /\ Giveup(n) \in Nat
  BY <1>1 DEF Giveup
<1>3. ULONG_MAX \div (3 * n) \in Nat /\ ULONG_MAX \div (3 * n) <= ULONG_MAX
  BY <1>1, <1>2, Quotient, QuotientSmaller
<1> QED
  BY <1>1, <1>2, <1>3

\* Giving up early loses nothing: the offset that is found is the first with the
\* least difference, if the fingerprint matches at all, and the mean there is
\* above the threshold if it does not.
LEMMA Compared ==
  ASSUME NEW n \in FpLens, NEW sums \in [Offsets -> Sums]
  PROVE  LET difs == Difs(n, sums)
             b == BestX(difs)
             dif == Dif(n, difs)
         IN  /\ b \in Offsets /\ dif \in Nat
             /\ dif < threshold_weak <=> \E x \in Offsets : Fits(n, sums, x)
             /\ dif < threshold_weak =>
                  /\ dif = Min({sums[x] \div (3 * n) : x \in Offsets})
                  /\ dif < ULONG_MAX
                  /\ \A y \in Offsets : sums[b] <= sums[y]
                  /\ \A y \in Offsets : y < b => sums[b] < sums[y]
<1> DEFINE difs == Difs(n, sums)
           b == BestX(difs)
           dif == Dif(n, difs)
           d == 3 * n
           g == Giveup(n)
<1>1. /\ n \in Nat \ {0} /\ d \in Nat \ {0} /\ n * 3 = d
      /\ threshold_weak \in Nat /\ ULONG_MAX \in Nat /\ g \in Nat
      /\ ULONG_MAX \div d \in Nat
      /\ threshold_weak <= ULONG_MAX \div d /\ threshold_weak <= ULONG_MAX
  BY Constants
<1>2. Offsets \subseteq Nat /\ Offsets # {} /\ \A x \in Offsets : sums[x] \in Nat
  BY SearchAssumption DEF SearchAssumption
<1>3. \A x \in Offsets : difs[x] = (IF sums[x] > g THEN ULONG_MAX ELSE sums[x])
  BY DEF Difs, match_single
<1> HIDE DEF difs, g
<1>4. \A x \in Offsets : difs[x] \in Nat
  BY <1>1, <1>2, <1>3
<1>5. /\ b \in Offsets
      /\ \A y \in Offsets : difs[b] <= difs[y]
      /\ \A y \in Offsets : y < b => difs[b] < difs[y]
  <2> DEFINE T == {difs[x] : x \in Offsets}
             B == {x \in Offsets : \A y \in Offsets : difs[x] <= difs[y]}
  <2>1. T \in SUBSET Nat /\ T # {}
    BY <1>2, <1>4
  <2>2. PICK x \in Offsets : difs[x] = Min(T)
    BY <2>1, Minimum
  <2>3. x \in B
    BY <2>1, <2>2, Minimum
  <2>4. B \in SUBSET Nat /\ B # {}
    BY <1>2, <2>3
  <2>5. b \in B /\ \A y \in B : b <= y
    BY <2>4, Minimum DEF BestX
  <2> HIDE DEF b
  <2>6. ASSUME NEW y \in Offsets, y < b PROVE difs[b] < difs[y]
    <3>1. y \notin B
      BY <1>2, <2>4, <2>5, <2>6
    <3>2. PICK z \in Offsets : ~ (difs[y] <= difs[z])
      BY <2>6, <3>1
    <3>3. difs[b] <= difs[z]
      BY <2>5, <3>2
    <3> QED
      BY <1>4, <2>5, <2>6, <3>2, <3>3
  <2> QED
    BY <2>5, <2>6
<1> HIDE DEF b
<1>6. dif = difs[b] \div d /\ dif \in Nat
  BY <1>1, <1>4, <1>5, Quotient DEF Dif, b
<1> HIDE DEF dif, d
<1>7. ASSUME dif < threshold_weak
      PROVE  sums[b] <= g /\ difs[b] = sums[b]
  <2>1. ~ (sums[b] > g)
    BY <1>1, <1>3, <1>5, <1>6, <1>7
  <2> QED
    BY <1>1, <1>2, <1>3, <1>5, <2>1
<1>8. ASSUME dif < threshold_weak, NEW y \in Offsets
      PROVE  sums[b] <= sums[y] /\ (y < b => sums[b] < sums[y])
  <2>1. /\ sums[b] <= g /\ difs[b] = sums[b] /\ sums[b] \in Nat /\ sums[y] \in Nat
        /\ difs[b] <= difs[y] /\ (y < b => difs[b] < difs[y])
    BY <1>2, <1>5, <1>7, <1>8
  <2>2. CASE sums[y] > g
    BY <1>1, <2>1, <2>2
  <2>3. CASE ~ (sums[y] > g)
    BY <1>3, <2>1, <2>3
  <2> QED
    BY <2>2, <2>3
<1>9. ASSUME NEW x \in Offsets, Fits(n, sums, x)
      PROVE  dif < threshold_weak
  <2>1. sums[x] <= g /\ sums[x] \div d < threshold_weak
    BY <1>9 DEF Fits, d, g
  <2>2. difs[x] = sums[x]
    BY <1>1, <1>2, <1>3, <2>1
  <2>3. difs[b] \div d <= sums[x] \div d /\ sums[x] \div d \in Nat
    BY <1>1, <1>2, <1>4, <1>5, <2>2, QuotientGrows, Quotient
  <2> QED
    BY <1>1, <1>6, <2>1, <2>3
<1>10. ASSUME dif < threshold_weak
       PROVE  dif = Min({sums[x] \div d : x \in Offsets})
  <2> DEFINE T == {sums[x] \div d : x \in Offsets}
  <2>1. T \in SUBSET Nat
    BY <1>1, <1>2, Quotient
  <2>2. dif \in T
    BY <1>5, <1>6, <1>7, <1>10
  <2>3. \A y \in T : dif <= y
    <3> SUFFICES ASSUME NEW x \in Offsets PROVE dif <= sums[x] \div d
      OBVIOUS
    <3>1. sums[b] <= sums[x] /\ sums[b] \in Nat /\ sums[x] \in Nat
      BY <1>2, <1>5, <1>8, <1>10
    <3> QED
      BY <1>1, <1>6, <1>7, <1>10, <3>1, QuotientGrows
  <2> QED
    BY <2>1, <2>2, <2>3, MinimumIs
<1>11. ASSUME dif < threshold_weak PROVE Fits(n, sums, b) /\ dif < ULONG_MAX
  BY <1>1, <1>6, <1>7, <1>11 DEF Fits, d, g
<1> QED
  BY <1>5, <1>6, <1>8, <1>9, <1>10, <1>11 DEF dif, difs, b, d

-----------------------------------------------------------------------------
(***************************************************************************)
(* What has been tried.                                                    *)
(***************************************************************************)

Trial == [n : FpLens, sums : [Offsets -> Sums]]

LEMMA Trials ==
  ASSUME NEW u \in Trial, NEW x \in Offsets
  PROVE  /\ u.n \in FpLens /\ u.sums \in [Offsets -> Sums] /\ u.sums[x] \in Nat
         /\ u.sums[x] \div (3 * u.n) \in Nat
<1>1. u.n \in FpLens /\ u.sums \in [Offsets -> Sums] /\ u.sums[x] \in Nat
  BY SearchAssumption DEF SearchAssumption, Trial
<1>2. u.sums[x] \div (3 * u.n) \in Nat
  BY <1>1, Constants, Quotient
<1> QED
  BY <1>1, <1>2

\* The mean of what was tried is a natural number.
LEMMA Means ==
  ASSUME tried \in Seq(Trial), NEW t \in DOMAIN tried
  PROVE  MeanOf(t) \in Nat
<1>1. tried[t] \in Trial
  OBVIOUS
<1>2. {Mean(t, x) : x \in Offsets} \in SUBSET Nat
  BY <1>1, Trials DEF Mean
<1>3. {Mean(t, x) : x \in Offsets} # {}
  BY SearchAssumption DEF SearchAssumption
<1>4. Min({Mean(t, x) : x \in Offsets}) \in {Mean(t, x) : x \in Offsets}
  BY <1>2, <1>3, Minimum
<1> QED
  BY <1>2, <1>4 DEF MeanOf

LEMMA MatchingFinite ==
  ASSUME tried \in Seq(Trial)
  PROVE  /\ Matching \subseteq 1..Len(tried)
         /\ IsFiniteSet(Matching) /\ Cardinality(Matching) \in Nat
<1>1. Matching \subseteq 1..Len(tried) /\ Len(tried) \in Nat
  BY DEF Matching
<1>2. IsFiniteSet(1..Len(tried))
  BY <1>1, FS_Interval
<1>3. IsFiniteSet(Matching)
  BY <1>1, <1>2, FS_Subset
<1> QED
  BY <1>1, <1>3, FS_CardinalityType

\* A fingerprint that is tried leaves what is known of the others.
LEMMA TriedGrows ==
  ASSUME tried \in Seq(Trial), NEW u \in Trial, tried' = Append(tried, u),
         NEW k, k = Len(tried) + 1
  PROVE  /\ tried' \in Seq(Trial) /\ Len(tried') = k
         /\ k \in DOMAIN tried' /\ k \notin DOMAIN tried /\ tried'[k] = u
         /\ DOMAIN tried' = DOMAIN tried \cup {k}
         /\ \A t \in DOMAIN tried : t \in Nat /\ t < k /\ tried'[t] = tried[t]
         /\ \A t \in DOMAIN tried : MeanOf(t)' = MeanOf(t)
         /\ MeanOf(k)' = Min({u.sums[x] \div (3 * u.n) : x \in Offsets})
         /\ Matching' = Matching \cup
                        (IF \E x \in Offsets : Fits(u.n, u.sums, x) THEN {k} ELSE {})
<1>1. /\ tried' \in Seq(Trial) /\ Len(tried') = k
      /\ k \in DOMAIN tried' /\ k \notin DOMAIN tried /\ tried'[k] = u
      /\ DOMAIN tried' = DOMAIN tried \cup {k}
  OBVIOUS
<1>2. \A t \in DOMAIN tried : t \in Nat /\ t < k /\ tried'[t] = tried[t]
  OBVIOUS
<1>3. \A t \in DOMAIN tried : MeanOf(t)' = MeanOf(t)
  BY <1>2 DEF MeanOf, Mean
<1>4. MeanOf(k)' = Min({u.sums[x] \div (3 * u.n) : x \in Offsets})
  BY <1>1 DEF MeanOf, Mean
<1>5. \A t \in DOMAIN tried, x \in Offsets : MatchesAt(t, x)' <=> MatchesAt(t, x)
  BY <1>2 DEF MatchesAt, Mean
<1>6. \A x \in Offsets : MatchesAt(k, x)' <=> Fits(u.n, u.sums, x)
  BY <1>1 DEF MatchesAt, Mean, Fits
<1>7. Matching' = {t \in DOMAIN tried \cup {k} : \E x \in Offsets : MatchesAt(t, x)'}
  BY <1>1 DEF Matching
<1>8. Matching' = Matching \cup
                 (IF \E x \in Offsets : Fits(u.n, u.sums, x) THEN {k} ELSE {})
  BY <1>1, <1>5, <1>6, <1>7 DEF Matching
<1> QED
  BY <1>1, <1>2, <1>3, <1>4, <1>8

-----------------------------------------------------------------------------
(***************************************************************************)
(* The list.                                                               *)
(***************************************************************************)

\* What ListHoldsMatches says of the entry m at index i.
Listed(m, i) ==
  /\ m.fp \in Matching
  /\ Cardinality({t \in Matching : t < m.fp}) = i
  /\ m.dif = MeanOf(m.fp)
  /\ \A y \in Offsets : tried[m.fp].sums[m.x_ofs] <= tried[m.fp].sums[y]
  /\ \A y \in Offsets : y < m.x_ofs =>
       tried[m.fp].sums[m.x_ofs] < tried[m.fp].sums[y]

LEMMA ListIs ==
  ListHoldsMatches <=>
    (pc # "undefined" => /\ Cardinality(Matching) = matches_c
                         /\ \A i \in 0..(matches_c - 1) : Listed(matches[i], i))
BY DEF ListHoldsMatches, Listed

LEMMA InitSearch == Init => SearchInv
<1> SUFFICES ASSUME Init PROVE SearchInv
  OBVIOUS
<1> USE DEF Init
<1>1. TOPLEN \in Nat \ {0} /\ ULONG_MAX \in Nat
  BY SearchAssumption DEF SearchAssumption
<1>2. Matching = {}
  BY DEF Matching
<1>3. 0..(matches_c - 1) = {}
  OBVIOUS
<1>4. DOMAIN matches = 0..(TOPLEN - 1)
  OBVIOUS
<1>5. ListInv
  BY <1>1, <1>2, <1>3, <1>4 DEF ListInv
<1>6. BestInv
  BY DEF BestInv
<1>7. ListHoldsMatches
  BY <1>2, <1>3, FS_EmptySet DEF ListHoldsMatches
<1>8. AnnouncesBest
  BY DEF AnnouncesBest
<1> QED
  BY <1>5, <1>6, <1>7, <1>8 DEF SearchInv

\* A fingerprint that does not come close enough changes nothing in the list.
LEMMA TryMisses ==
  ASSUME SearchInv, NEW n \in FpLens, NEW sums \in [Offsets -> Sums],
         Try(n, sums), ~ (Dif(n, Difs(n, sums)) < threshold_weak)
  PROVE  SearchInv'
<1> DEFINE u == [n |-> n, sums |-> sums]
<1>1. pc = "search" /\ ListInv /\ BestInv /\ ListHoldsMatches
  BY DEF Try, SearchInv
<1>2. /\ UNCHANGED <<matches, matches_c, best, worst, pc>>
      /\ tried' = Append(tried, u) /\ fp' = fp + 1
  BY DEF Try
<1>3. tried \in Seq(Trial) /\ u \in Trial /\ u.n = n /\ u.sums = sums
  BY <1>1 DEF ListInv, Trial
<1>4. PICK k : k = Len(tried) + 1
  OBVIOUS
<1> HIDE DEF u
<1>5. ~ \E x \in Offsets : Fits(n, sums, x)
  BY Compared
<1>6. Matching' = Matching
  BY <1>2, <1>3, <1>4, <1>5, TriedGrows
<1>7. /\ tried' \in Seq(Trial) /\ Len(tried') = k
      /\ \A t \in DOMAIN tried : tried'[t] = tried[t] /\ MeanOf(t)' = MeanOf(t)
  BY <1>2, <1>3, <1>4, TriedGrows
<1>8. Matching \subseteq DOMAIN tried
  BY DEF Matching
<1>9. ListInv'
  BY <1>1, <1>2, <1>4, <1>6, <1>7 DEF ListInv, Trial, worst
<1>10. BestInv'
  BY <1>1, <1>2 DEF BestInv, best
<1>11. \A i \in 0..(matches_c - 1) : Listed(matches[i], i)'
  <2> SUFFICES ASSUME NEW i \in 0..(matches_c - 1) PROVE Listed(matches[i], i)'
    OBVIOUS
  <2> DEFINE m == matches[i]
  <2>1. Listed(m, i)
    BY <1>1, ListIs
  <2>2. m' = m /\ m.fp \in Matching /\ m.fp \in DOMAIN tried
    BY <1>2, <1>8, <2>1 DEF Listed
  <2>3. tried'[m.fp] = tried[m.fp] /\ MeanOf(m.fp)' = MeanOf(m.fp)
    BY <1>7, <2>2 DEF MeanOf, Mean
  <2> HIDE DEF m
  <2>4. Listed(m, i)'
    BY <1>6, <2>1, <2>2, <2>3 DEF Listed
  <2> QED
    BY <2>4 DEF m
<1>12. ListHoldsMatches'
  <2>1. Cardinality(Matching') = matches_c'
    BY <1>1, <1>2, <1>6, ListIs
  <2>2. (ListHoldsMatches <=>
         (pc # "undefined" => /\ Cardinality(Matching) = matches_c
                              /\ \A i \in 0..(matches_c - 1) : Listed(matches[i], i)))'
    BY ListIs, PTL
  <2> QED
    BY <1>2, <1>11, <2>1, <2>2
<1>13. AnnouncesBest'
  BY <1>1, <1>2 DEF AnnouncesBest
<1> QED
  BY <1>9, <1>10, <1>12, <1>13 DEF SearchInv

\* What a fingerprint that comes close enough does, unless the search ends in
\* undefined behaviour: it is stored behind the matches found before.
LEMMA HitStores ==
  ASSUME SearchInv, NEW n \in FpLens, NEW sums \in [Offsets -> Sums],
         Try(n, sums), Dif(n, Difs(n, sums)) < threshold_weak, pc' # "undefined",
         NEW entry, entry = [fp |-> fp, dif |-> Dif(n, Difs(n, sums)),
                             x_ofs |-> BestX(Difs(n, sums))]
  PROVE  /\ pc = "search" /\ pc' = "search" /\ matches_c \in 0..(TOPLEN - 1)
         /\ matches_c' = matches_c + 1 /\ DOMAIN matches' = 0..(TOPLEN - 1)
         /\ matches'[matches_c] = entry
         /\ \A i \in 0..(matches_c - 1) : matches'[i] = matches[i]
         /\ matches_worst' = -1
         /\ best' = IF entry.dif < matches_best_dif THEN <<matches_c, entry.dif>>
                                                    ELSE best
<1>1. /\ matches_c \in 0..TOPLEN /\ DOMAIN matches = 0..(TOPLEN - 1)
      /\ matches_worst = -1 /\ pc = "search"
  BY DEF SearchInv, ListInv, Try
<1>2. TOPLEN \in Nat \ {0}
  BY SearchAssumption DEF SearchAssumption
<1>3. ~ Skipped(Dif(n, Difs(n, sums)))
  BY <1>1 DEF Skipped
<1>4. AddMatch(entry)
  BY <1>3 DEF Try
<1>5. entry.dif \in Nat /\ entry.dif < ULONG_MAX /\ ULONG_MAX \in Nat
  BY Compared, Constants
<1>6. match_ins \in DOMAIN matches /\ pc' = "search"
  BY <1>4 DEF AddMatch
<1>7. HasRoom /\ match_ins = matches_c
  BY <1>1, <1>2, <1>6 DEF match_ins
<1>8. matches_c \in 0..(TOPLEN - 1) /\ matches_c' = matches_c + 1
  BY <1>1, <1>2, <1>4, <1>7 DEF HasRoom, AddMatch
<1>9. matches' = [matches EXCEPT ![matches_c] = entry]
  BY <1>4, <1>7 DEF AddMatch
<1>10. /\ DOMAIN matches' = 0..(TOPLEN - 1) /\ matches'[matches_c] = entry
       /\ \A i \in 0..(matches_c - 1) : matches'[i] = matches[i]
  BY <1>1, <1>2, <1>8, <1>9
<1>11. ~ IsWorst(entry.dif)
  BY <1>1, <1>5 DEF IsWorst
<1>12. matches_worst' = -1
  BY <1>1, <1>4, <1>11 DEF AddMatch
<1>13. best' = IF entry.dif < matches_best_dif THEN <<matches_c, entry.dif>> ELSE best
  BY <1>4, <1>7 DEF AddMatch, IsBest, best
<1> QED
  BY <1>1, <1>6, <1>8, <1>10, <1>12, <1>13

\* A fingerprint that comes close enough is the next in the list, and the best if
\* it comes closer than all before it.
LEMMA TryHits ==
  ASSUME SearchInv, NEW n \in FpLens, NEW sums \in [Offsets -> Sums],
         Try(n, sums), Dif(n, Difs(n, sums)) < threshold_weak, pc' # "undefined"
  PROVE  SearchInv'
<1> DEFINE u == [n |-> n, sums |-> sums]
           dif == Dif(n, Difs(n, sums))
           x_ofs == BestX(Difs(n, sums))
<1>1. /\ pc = "search" /\ ListInv /\ BestInv /\ ListHoldsMatches
      /\ tried' = Append(tried, u) /\ fp' = fp + 1
  BY DEF Try, SearchInv
<1>2. tried \in Seq(Trial) /\ u \in Trial /\ u.n = n /\ u.sums = sums
  BY <1>1 DEF ListInv, Trial
<1>3. PICK k : k = Len(tried) + 1
  OBVIOUS
<1>4. k = fp /\ k \in Nat
  BY <1>1, <1>2, <1>3 DEF ListInv
<1>5. PICK e : e = [fp |-> fp, dif |-> dif, x_ofs |-> x_ofs]
  OBVIOUS
<1>6. PICK c : c = matches_c
  OBVIOUS
<1>7. /\ pc' = "search" /\ c \in 0..(TOPLEN - 1) /\ c \in Nat
      /\ matches_c' = c + 1 /\ DOMAIN matches' = 0..(TOPLEN - 1)
      /\ matches'[c] = e
      /\ \A i \in 0..(c - 1) : matches'[i] = matches[i]
      /\ matches_worst' = -1
      /\ best' = IF e.dif < matches_best_dif THEN <<c, e.dif>> ELSE best
  BY <1>5, <1>6, HitStores
<1>8. /\ \E x \in Offsets : Fits(n, sums, x)
      /\ dif \in Nat /\ dif < ULONG_MAX
      /\ dif = Min({sums[x] \div (3 * n) : x \in Offsets})
      /\ \A y \in Offsets : sums[x_ofs] <= sums[y]
      /\ \A y \in Offsets : y < x_ofs => sums[x_ofs] < sums[y]
  BY Compared
<1> HIDE DEF u, dif, x_ofs
<1>9. e.fp = k /\ e.dif = dif /\ e.x_ofs = x_ofs
  BY <1>4, <1>5
<1>10. /\ tried' \in Seq(Trial) /\ Len(tried') = k /\ tried'[k] = u
       /\ \A t \in DOMAIN tried : /\ t \in Nat /\ t < k /\ tried'[t] = tried[t]
                                  /\ MeanOf(t)' = MeanOf(t)
       /\ MeanOf(k)' = dif /\ k \notin DOMAIN tried
       /\ Matching' = Matching \cup {k}
  BY <1>1, <1>2, <1>3, <1>8, TriedGrows
<1>11. Matching \subseteq DOMAIN tried
  BY DEF Matching
<1>12. 0..c = 0..(c - 1) \cup {c} /\ c \notin 0..(c - 1) /\ (c + 1) - 1 = c
  BY <1>7
<1>13. \A i \in 0..(c - 1) : /\ Listed(matches[i], i)
                             /\ matches[i].fp \in Matching
                             /\ matches[i].fp \in DOMAIN tried
                             /\ matches[i].fp \in Nat /\ matches[i].fp < k
  BY <1>1, <1>6, <1>10, <1>11, ListIs DEF Listed
<1>14. ListInv'
  <2>1. Matching = {matches[i].fp : i \in 0..(c - 1)}
    BY <1>1, <1>6 DEF ListInv
  <2>2. {matches'[i].fp : i \in 0..c} = {matches[i].fp : i \in 0..(c - 1)} \cup {k}
    <3>1. matches'[c].fp = k
      BY <1>7, <1>9
    <3>2. \A i \in 0..(c - 1) : matches'[i].fp = matches[i].fp
      BY <1>7
    <3>3. {matches'[i].fp : i \in 0..(c - 1)} = {matches[i].fp : i \in 0..(c - 1)}
      BY <3>2
    <3>4. {matches'[i].fp : i \in 0..c}
            = {matches'[i].fp : i \in 0..(c - 1)} \cup {matches'[c].fp}
      BY <1>12
    <3> QED
      BY <3>1, <3>3, <3>4
  <2>3. Matching' = {matches'[i].fp : i \in 0..(matches_c' - 1)}
    BY <1>7, <1>10, <1>12, <2>1, <2>2
  <2>4. \A i, j \in 0..c : i < j => matches'[i].fp < matches'[j].fp
    <3> SUFFICES ASSUME NEW i \in 0..c, NEW j \in 0..c, i < j
                 PROVE  matches'[i].fp < matches'[j].fp
      OBVIOUS
    <3>1. i \in 0..(c - 1) /\ matches'[i] = matches[i]
      BY <1>7
    <3>2. CASE j = c
      BY <1>7, <1>9, <1>13, <3>1, <3>2
    <3>3. CASE j \in 0..(c - 1)
      BY <1>1, <1>6, <1>7, <3>1, <3>3 DEF ListInv
    <3> QED
      BY <1>12, <3>2, <3>3
  <2>5. \A i, j \in 0..(matches_c' - 1) : i < j => matches'[i].fp < matches'[j].fp
    BY <1>7, <1>12, <2>4
  <2>6. matches_c' \in 0..TOPLEN /\ fp' = Len(tried') + 1
    BY <1>1, <1>4, <1>7, <1>10, SearchAssumption DEF SearchAssumption
  <2> QED
    BY <1>7, <1>10, <2>3, <2>5, <2>6 DEF ListInv, Trial
<1>15. \A i \in 0..(c - 1) : Listed(matches[i], i)'
  <2> SUFFICES ASSUME NEW i \in 0..(c - 1) PROVE Listed(matches[i], i)'
    OBVIOUS
  <2> DEFINE m == matches[i]
  <2>1. Listed(m, i) /\ m.fp \in DOMAIN tried /\ m.fp \in Nat /\ m.fp < k
    BY <1>13
  <2>2. m' = m /\ m.fp \in Matching /\ m.fp \in Matching'
    BY <1>7, <1>10, <2>1 DEF Listed
  <2>3. tried'[m.fp] = tried[m.fp] /\ MeanOf(m.fp)' = MeanOf(m.fp)
    BY <1>10, <2>1, <2>2 DEF MeanOf, Mean
  <2>4. {t \in Matching' : t < m.fp} = {t \in Matching : t < m.fp}
    BY <1>4, <1>10, <2>1
  <2> HIDE DEF m
  <2>5. Listed(m, i)'
    BY <2>1, <2>2, <2>3, <2>4 DEF Listed
  <2> QED
    BY <2>5 DEF m
<1>16. /\ IsFiniteSet(Matching) /\ Cardinality(Matching) = c
       /\ Cardinality(Matching') = c + 1
  <2>1. IsFiniteSet(Matching) /\ Cardinality(Matching) = c
    BY <1>1, <1>2, <1>6, ListIs, MatchingFinite
  <2>2. k \notin Matching
    BY <1>10, <1>11
  <2> QED
    BY <1>10, <2>1, <2>2, FS_AddElement
<1>17. Listed(matches[c], c)'
  <2>1. (matches[c])' = e /\ e.fp = k
    BY <1>7, <1>9
  <2>2. {t \in Matching' : t < k} = Matching
    BY <1>4, <1>10, <1>11
  <2>3. /\ tried'[k].sums = sums /\ k \in Matching'
    BY <1>2, <1>10
  <2>4. /\ Cardinality({t \in Matching' : t < k}) = c
        /\ e.dif = MeanOf(k)'
        /\ \A y \in Offsets : tried'[k].sums[e.x_ofs] <= tried'[k].sums[y]
        /\ \A y \in Offsets : y < e.x_ofs =>
             tried'[k].sums[e.x_ofs] < tried'[k].sums[y]
    BY <1>8, <1>9, <1>10, <1>16, <2>2, <2>3
  <2>5. Listed(e, c)'
    BY <2>1, <2>3, <2>4 DEF Listed, MeanOf, Mean
  <2> QED
    BY <2>1, <2>5 DEF Listed, MeanOf, Mean
<1>18. ListHoldsMatches'
  <2>1. \A i \in 0..c : Listed(matches[i], i)'
    BY <1>12, <1>15, <1>17
  <2>2. (ListHoldsMatches <=>
         (pc # "undefined" => /\ Cardinality(Matching) = matches_c
                              /\ \A i \in 0..(matches_c - 1) : Listed(matches[i], i)))'
    BY ListIs, PTL
  <2>3. \A i \in 0..(matches_c' - 1) : Listed(matches[i], i)'
    BY <1>7, <1>12, <2>1
  <2> QED
    BY <1>7, <1>16, <2>2, <2>3
<1>19. \A i \in 0..(c - 1) : matches[i].dif \in Nat
  BY <1>2, <1>13, Means DEF Listed
<1>20. BestInv'
  <2>1. matches_c' # 0 /\ (matches_c' - 1) = c
    BY <1>7
  <2>2. CASE c = 0
    <3>1. matches_best_dif = ULONG_MAX
      BY <1>1, <1>6, <2>2 DEF BestInv
    <3>2. matches_best' = 0 /\ matches_best_dif' = e.dif
      BY <1>7, <1>8, <1>9, <2>2, <3>1 DEF best
    <3>3. \A i \in 0..c : i = 0
      BY <2>2
    <3>4. matches_best_dif' = matches'[0].dif /\ matches_best_dif' \in Nat
      BY <1>7, <1>8, <1>9, <2>2, <3>2
    <3>5. \A i \in 0..c : /\ matches_best_dif' <= matches'[i].dif
                          /\ i < matches_best' => matches_best_dif' < matches'[i].dif
      BY <3>2, <3>3, <3>4
    <3> QED
      BY <2>1, <2>2, <3>2, <3>4, <3>5 DEF BestInv
  <2>3. CASE c # 0
    <3>1. /\ matches_best \in 0..(c - 1)
          /\ matches_best_dif = matches[matches_best].dif
          /\ \A i \in 0..(c - 1) :
               /\ matches_best_dif <= matches[i].dif
               /\ i < matches_best => matches_best_dif < matches[i].dif
      BY <1>1, <1>6, <2>3 DEF BestInv
    <3>2. matches_best_dif \in Nat
      BY <1>19, <3>1
    <3>3. matches'[c].dif = dif /\ dif \in Nat
      BY <1>7, <1>8, <1>9
    <3>4. CASE dif < matches_best_dif
      <4>1. matches_best' = c /\ matches_best_dif' = dif
        BY <1>7, <1>9, <3>4 DEF best
      <4>2. \A i \in 0..(c - 1) : dif < matches'[i].dif
        BY <1>7, <1>19, <3>1, <3>2, <3>3, <3>4
      <4>3. \A i \in 0..c : /\ dif <= matches'[i].dif
                            /\ i < c => dif < matches'[i].dif
        BY <1>7, <1>12, <1>19, <3>3, <4>2
      <4> QED
        BY <1>7, <2>1, <3>3, <4>1, <4>3 DEF BestInv
    <3>5. CASE ~ (dif < matches_best_dif)
      <4>1. matches_best' = matches_best /\ matches_best_dif' = matches_best_dif
        BY <1>7, <1>9, <3>5 DEF best
      <4>2. \A i \in 0..c :
              /\ matches_best_dif <= matches'[i].dif
              /\ i < matches_best => matches_best_dif < matches'[i].dif
        <5>1. \A i \in 0..(c - 1) :
                /\ matches_best_dif <= matches'[i].dif
                /\ i < matches_best => matches_best_dif < matches'[i].dif
          BY <1>7, <3>1
        <5>2. matches_best_dif <= matches'[c].dif /\ ~ (c < matches_best)
          BY <1>7, <3>1, <3>2, <3>3, <3>5
        <5> QED
          BY <1>12, <5>1, <5>2
      <4>3. matches_best \in 0..c /\ matches'[matches_best] = matches[matches_best]
        BY <1>7, <3>1
      <4> QED
        BY <2>1, <3>1, <4>1, <4>2, <4>3 DEF BestInv
    <3> QED
      BY <3>4, <3>5
  <2> QED
    BY <2>2, <2>3
<1>21. AnnouncesBest'
  BY <1>7 DEF AnnouncesBest
<1> QED
  BY <1>14, <1>18, <1>20, <1>21 DEF SearchInv

\* The entry the best index points at is the first of the closest fingerprints that
\* match, because the list holds all of them in the order of the search.
LEMMA AnnounceTakesBest ==
  ASSUME SearchInv, Announce
  PROVE  SearchInv'
<1>1. /\ pc = "search" /\ pc' = "announced"
      /\ UNCHANGED <<fp, matches, matches_c, matches_best, matches_best_dif,
                     matches_worst, tried>>
      /\ result' = IF matches_best >= 0 THEN matches[matches_best].fp ELSE 0
  BY DEF Announce, best, worst
<1>2. ListInv /\ BestInv /\ ListHoldsMatches
  BY <1>1 DEF SearchInv
<1>3. Matching' = Matching
  BY <1>1 DEF Matching, MatchesAt, Mean
<1>4. ListInv' /\ BestInv' /\ ListHoldsMatches'
  <2>1. ListInv'
    BY <1>1, <1>2, <1>3 DEF ListInv
  <2>2. BestInv'
    BY <1>1, <1>2 DEF BestInv
  <2>3. ListHoldsMatches'
    BY <1>1, <1>2, <1>3 DEF ListHoldsMatches, MeanOf, Mean
  <2> QED
    BY <2>1, <2>2, <2>3
<1>5. AnnouncesBest'
  <2>1. CASE Matching = {}
    <3>1. matches_c = 0
      BY <1>1, <1>2, <2>1, FS_EmptySet, ListIs
    <3>2. result' = 0
      BY <1>1, <1>2, <3>1 DEF BestInv
    <3> QED
      BY <1>3, <2>1, <3>2 DEF AnnouncesBest
  <2>2. CASE Matching # {}
    <3> DEFINE c == matches_c
               b == matches_best
    <3>1. Matching = {matches[i].fp : i \in 0..(c - 1)} /\ c \in Nat
      BY <1>2, SearchAssumption DEF ListInv, SearchAssumption
    <3>2. c # 0
      BY <2>2, <3>1
    <3>3. /\ b \in 0..(c - 1)
          /\ \A i \in 0..(c - 1) : /\ matches[b].dif <= matches[i].dif
                                   /\ i < b => matches[b].dif < matches[i].dif
      BY <1>2, <3>2 DEF BestInv
    <3>4. PICK r : r = matches[b].fp
      OBVIOUS
    <3>5. result' = r /\ r \in Matching
      BY <1>1, <3>1, <3>3, <3>4
    <3>6. \A i \in 0..(c - 1) : matches[i].dif = MeanOf(matches[i].fp)
      BY <1>1, <1>2, ListIs DEF Listed
    <3>7. \A i, j \in 0..(c - 1) : i < j => matches[i].fp < matches[j].fp
      BY <1>2 DEF ListInv
    <3>8. Matching \subseteq Nat
      <4>1. tried \in Seq(Trial) /\ Len(tried) \in Nat
        BY <1>2 DEF ListInv, Trial
      <4> QED
        BY <4>1, MatchingFinite
    <3>9. ASSUME NEW t \in Matching
          PROVE  MeanOf(r) <= MeanOf(t) /\ (t < r => MeanOf(r) < MeanOf(t))
      <4>1. PICK i \in 0..(c - 1) : t = matches[i].fp
        BY <3>1, <3>9
      <4>2. MeanOf(t) = matches[i].dif /\ MeanOf(r) = matches[b].dif
        BY <3>3, <3>4, <3>6, <4>1
      <4>3. ASSUME t < r PROVE i < b
        <5>1. t \in Nat /\ r \in Nat
          BY <3>5, <3>8, <3>9
        <5>2. i # b
          BY <3>4, <4>1, <4>3, <5>1
        <5>3. ~ (b < i)
          BY <3>3, <3>4, <3>7, <4>1, <4>3, <5>1
        <5> QED
          BY <3>1, <3>3, <4>1, <5>2, <5>3
      <4>4. /\ matches[b].dif <= matches[i].dif
            /\ t < r => matches[b].dif < matches[i].dif
        BY <3>3, <4>1, <4>3, Zenon
      <4> QED
        BY <4>2, <4>4, Zenon
    <3>10. \A t \in Matching : MeanOf(t)' = MeanOf(t)
      BY <1>1 DEF MeanOf, Mean
    <3>11. MeanOf(r)' = MeanOf(r)
      BY <3>5, <3>10
    <3>12. /\ result' \in Matching'
           /\ \A t \in Matching' : MeanOf(result)' <= MeanOf(t)'
           /\ \A t \in Matching' : t < result' => MeanOf(result)' < MeanOf(t)'
      <4>1. MeanOf(result)' = MeanOf(r)'
        BY <3>5 DEF MeanOf, Mean
      <4> QED
        BY <1>3, <3>5, <3>9, <3>10, <3>11, <4>1
    <3> QED
      BY <1>3, <2>2, <3>12 DEF AnnouncesBest
  <2> QED
    BY <2>1, <2>2
<1> QED
  BY <1>4, <1>5 DEF SearchInv

LEMMA NextSearch == SearchInv /\ [Next]_vars => SearchInv'
<1> SUFFICES ASSUME SearchInv, [Next]_vars PROVE SearchInv'
  OBVIOUS
<1>1. ASSUME NEW n \in FpLens, NEW sums \in [Offsets -> Sums], Try(n, sums)
      PROVE  SearchInv'
  <2>1. CASE ~ (Dif(n, Difs(n, sums)) < threshold_weak)
    BY <1>1, <2>1, TryMisses
  <2>2. CASE Dif(n, Difs(n, sums)) < threshold_weak /\ pc' # "undefined"
    BY <1>1, <2>2, TryHits
  <2>3. CASE pc' = "undefined"
    BY <2>3 DEF SearchInv
  <2> QED
    BY <2>1, <2>2, <2>3
<1>2. CASE Announce
  BY <1>2, AnnounceTakesBest
<1>3. CASE UNCHANGED vars
  <2>1. /\ UNCHANGED <<fp, matches, matches_c, matches_best, matches_best_dif,
                       matches_worst, tried, pc, result>>
    BY <1>3 DEF vars, best, worst
  <2>2. Matching' = Matching
    BY <2>1 DEF Matching, MatchesAt, Mean
  <2>3. ListInv' <=> ListInv
    BY <2>1, <2>2 DEF ListInv
  <2>4. BestInv' <=> BestInv
    BY <2>1 DEF BestInv
  <2>5. ListHoldsMatches' <=> ListHoldsMatches
    BY <2>1, <2>2 DEF ListHoldsMatches, MeanOf, Mean
  <2>6. AnnouncesBest' <=> AnnouncesBest
    BY <2>1, <2>2 DEF AnnouncesBest, MeanOf, Mean
  <2> QED
    BY <2>1, <2>3, <2>4, <2>5, <2>6 DEF SearchInv
<1>4. CASE Stopped
  BY <1>3, <1>4 DEF Stopped
<1> QED
  BY <1>1, <1>2, <1>3, <1>4 DEF Next

-----------------------------------------------------------------------------
(***************************************************************************)
(* The theorems.                                                           *)
(***************************************************************************)

\* Until a match is stored outside the list, the list grows with the fingerprints
\* that match, in their order, and the best index points at the first of the
\* closest ones: search_fingerprints.
THEOREM SearchInductive == Spec => []SearchInv
<1>1. Init => SearchInv
  BY InitSearch
<1>2. SearchInv /\ [Next]_vars => SearchInv'
  BY NextSearch
<1> QED
  BY <1>1, <1>2, PTL DEF Spec

\* Whatever the fingerprints and the differences, the list holds exactly those that
\* match, each at its first best offset, although match_single gives a comparison
\* up early and returns -1 for it.
THEOREM ListIsComplete == Spec => []ListHoldsMatches
<1>1. SearchInv => ListHoldsMatches
  BY DEF SearchInv, ListHoldsMatches
<1> QED
  BY <1>1, SearchInductive, PTL

\* The fingerprint that is announced is the first of the closest ones, and none is
\* announced only if none matches.
THEOREM AnnouncedIsBest == Spec => []AnnouncesBest
<1>1. SearchInv => AnnouncesBest
  BY DEF SearchInv, AnnouncesBest
<1> QED
  BY <1>1, SearchInductive, PTL
=============================================================================
