------------------------- MODULE FingerprintSearch -------------------------
(***************************************************************************)
(* search_fingerprints and match_single of receiver.c: what is heard when  *)
(* the squelch opens is compared with every fingerprint, at every offset.  *)
(* Those that come close enough are put in a list of TOPLEN entries, and   *)
(* the closest is announced with a "match" event; without one, the opening *)
(* is announced with a "sql" event.                                        *)
(*                                                                         *)
(* One step is one round of the loop over the fingerprints.  The weighted  *)
(* difference between the samples and a fingerprint at an offset is any of *)
(* Sums: at the offsets below the length of the fingerprint the code reads *)
(* in front of the samples, where anything may be.                         *)
(***************************************************************************)
EXTENDS Integers, Sequences, FiniteSetsExt

CONSTANTS TOPLEN,          \* entries of the list of matches
          FpCount,         \* fingerprints that are loaded
          FpLens,          \* lengths a fingerprint may have
          Offsets,         \* offsets at which one is tried, 0..(len-1)
          Sums,            \* weighted differences
          threshold_weak,  \* 1100 in the code
          ULONG_MAX        \* what -1 is as an unsigned number

ASSUME SearchAssumption ==
  /\ TOPLEN \in Nat \ {0} /\ FpCount \in Nat
  /\ FpLens \subseteq Nat \ {0}
  /\ Offsets \subseteq Nat /\ Offsets # {} /\ IsFiniteSet(Offsets)
  /\ Sums \subseteq Nat
  /\ threshold_weak \in Nat /\ ULONG_MAX \in Nat
  /\ \A n \in FpLens : ULONG_MAX \div (3 * n) >= threshold_weak

VARIABLES
  fp,                \* the fingerprint that is next
  matches,           \* the list, and how much of it is in use
  matches_c,
  matches_best,      \* index and difference of the best match
  matches_best_dif,
  matches_worst,     \* and, as it is meant, of the worst
  matches_worst_dif,
  pc,
  result,            \* the fingerprint announced, 0 for none
  tried,             \* history: length and differences of each fingerprint
  stored             \* history: the index of the latest store

best == <<matches_best, matches_best_dif>>
worst == <<matches_worst, matches_worst_dif>>
vars == <<fp, matches, matches_c, best, worst, pc, result, tried, stored>>

NoEntry == [fp |-> 0, dif |-> 0, x_ofs |-> 0]
NotStored == TOPLEN

Init == /\ fp = 1
        /\ matches = [i \in 0..(TOPLEN - 1) |-> NoEntry]
        /\ matches_c = 0
        /\ matches_best = -1
        /\ matches_best_dif = ULONG_MAX
        /\ matches_worst = -1
        /\ matches_worst_dif = ULONG_MAX
        /\ pc = "search"
        /\ result = 0
        /\ tried = <<>>
        /\ stored = NotStored

-----------------------------------------------------------------------------
\* match_single: the difference, or -1 when it exceeds giveup.
match_single(sum, giveup) == IF sum > giveup THEN ULONG_MAX ELSE sum

\* The comparisons are given up at two thirds of what the weak threshold allows.
Giveup(n) == threshold_weak * (n * 2)

\* The difference of a fingerprint of length n at each offset.
Difs(n, sums) == [x \in Offsets |-> match_single(sums[x], Giveup(n))]

\* Mutant: the offset kept is the last of the best ones.
BestX_Last(difs) ==
  Max({x \in Offsets : \A y \in Offsets : difs[x] <= difs[y]})

\* The first offset with the least difference.
BestX(difs) ==
  Min({x \in Offsets : \A y \in Offsets : difs[x] <= difs[y]})

Dif(n, difs) == difs[BestX(difs)] \div (n * 3)

HasRoom == matches_c < TOPLEN

\* "worse match than the worst": matches_worst has to be set for that.
Skipped(dif) == ~HasRoom /\ matches_worst >= 0 /\ matches_worst_dif < dif

\* Where the match is stored: nowhere in the list when the list is full.
match_ins == IF HasRoom THEN matches_c ELSE -1

\* Mutant: a match as good as the best replaces it.
IsBest_Ties(dif) == dif <= matches_best_dif

IsBest(dif) == dif < matches_best_dif

\* The difference is compared with the index matches_worst, as unsigned.
IsWorst(dif) ==
  dif > IF matches_worst < 0 THEN ULONG_MAX ELSE matches_worst

\* A match is added to the list.  A store in front of the list has undefined
\* behaviour: the model stops there and promises nothing any more.
AddMatch(entry) ==
  /\ matches_c' = IF HasRoom THEN matches_c + 1 ELSE matches_c
  /\ matches_best' = IF IsBest(entry.dif) THEN match_ins ELSE matches_best
  /\ matches_best_dif' = IF IsBest(entry.dif) THEN entry.dif
                                             ELSE matches_best_dif
  /\ matches_worst' = IF IsWorst(entry.dif) THEN match_ins ELSE matches_worst
  /\ matches_worst_dif' = IF IsWorst(entry.dif) THEN entry.dif
                                               ELSE matches_worst_dif
  /\ matches' = [matches EXCEPT ![match_ins] = entry]
  /\ stored' = match_ins
  /\ pc' = IF match_ins \in DOMAIN matches THEN "search" ELSE "undefined"

\* One fingerprint, of length n.
Try(n, sums) ==
  /\ pc = "search"
  /\ fp <= FpCount
  /\ LET difs == Difs(n, sums)
         dif == Dif(n, difs)
     IN  IF dif < threshold_weak /\ ~Skipped(dif)
           THEN AddMatch([fp |-> fp, dif |-> dif, x_ofs |-> BestX(difs)])
           ELSE /\ stored' = NotStored
                /\ UNCHANGED <<matches, matches_c, best, worst, pc>>
  /\ tried' = Append(tried, [n |-> n, sums |-> sums])
  /\ fp' = fp + 1
  /\ UNCHANGED result

\* The best match is announced; NULL makes copy_buffer call notify_out_sql.
Announce ==
  /\ pc = "search"
  /\ fp > FpCount
  /\ result' = IF matches_best >= 0 THEN matches[matches_best].fp ELSE 0
  /\ pc' = "announced"
  /\ UNCHANGED <<fp, matches, matches_c, best, worst, tried, stored>>

Stopped == pc \in {"announced", "undefined"} /\ UNCHANGED vars

Next == \/ \E n \in FpLens, sums \in [Offsets -> Sums] : Try(n, sums)
        \/ Announce
        \/ Stopped

Spec == Init /\ [][Next]_vars

-----------------------------------------------------------------------------
\* What the search should find, from the differences alone: a fingerprint
\* matches at an offset when its difference stays within giveup and its mean
\* is below the weak threshold.
Mean(t, x) == tried[t].sums[x] \div (3 * tried[t].n)
MatchesAt(t, x) == /\ tried[t].sums[x] <= Giveup(tried[t].n)
                   /\ Mean(t, x) < threshold_weak
Matching == {t \in DOMAIN tried : \E x \in Offsets : MatchesAt(t, x)}
MeanOf(t) == Min({Mean(t, x) : x \in Offsets})

\* The list holds the fingerprints that match, all of them, in the order in
\* which they were tried, each at its first best offset (search_fingerprints:
\* giving a comparison up early loses no better offset).
ListHoldsMatches ==
  pc # "undefined" =>
    /\ Cardinality(Matching) = matches_c
    /\ \A i \in 0..(matches_c - 1) :
         LET m == matches[i]
         IN  /\ m.fp \in Matching
             /\ Cardinality({t \in Matching : t < m.fp}) = i
             /\ m.dif = MeanOf(m.fp)
             /\ \A y \in Offsets :
                  tried[m.fp].sums[m.x_ofs] <= tried[m.fp].sums[y]
             /\ \A y \in Offsets : y < m.x_ofs =>
                  tried[m.fp].sums[m.x_ofs] < tried[m.fp].sums[y]

\* The fingerprint announced is the best of those that match, the first of
\* them when several are as good, and there is none only if none matches.
AnnouncesBest ==
  pc = "announced" =>
    IF Matching = {} THEN result = 0
    ELSE /\ result \in Matching
         /\ \A t \in Matching : MeanOf(result) <= MeanOf(t)
         /\ \A t \in Matching : t < result => MeanOf(result) < MeanOf(t)

\* "worse match than the worst, not adding to matches": with a full list, a
\* match that is worse than all that are in it is not stored.
WorstNotAdded ==
  [][\A n \in FpLens, sums \in [Offsets -> Sums] :
       /\ Try(n, sums)
       /\ matches_c = TOPLEN
       /\ \A i \in DOMAIN matches : matches[i].dif < Dif(n, Difs(n, sums))
       => stored' = NotStored]_vars

-----------------------------------------------------------------------------
\* The inductive invariant behind ListHoldsMatches and AnnouncesBest.

\* Until a match is stored outside the list, it grows with the fingerprints that
\* match, and the worst one is never set.
ListInv ==
  /\ pc \in {"search", "announced"}
  /\ tried \in Seq([n : FpLens, sums : [Offsets -> Sums]]) /\ fp = Len(tried) + 1
  /\ matches_c \in 0..TOPLEN /\ DOMAIN matches = 0..(TOPLEN - 1)
  /\ matches_worst = -1
  /\ Matching = {matches[i].fp : i \in 0..(matches_c - 1)}
  /\ \A i, j \in 0..(matches_c - 1) : i < j => matches[i].fp < matches[j].fp

\* The best match is the first of the closest ones.
BestInv ==
  IF matches_c = 0 THEN matches_best = -1 /\ matches_best_dif = ULONG_MAX
  ELSE /\ matches_best \in 0..(matches_c - 1)
       /\ matches_best_dif = matches[matches_best].dif
       /\ \A i \in 0..(matches_c - 1) :
            /\ matches_best_dif <= matches[i].dif
            /\ i < matches_best => matches_best_dif < matches[i].dif

SearchInv ==
  pc # "undefined" => ListInv /\ BestInv /\ ListHoldsMatches /\ AnnouncesBest
=============================================================================
