--------------------------- MODULE WebClientProofs ---------------------------
(***************************************************************************)
(* Proofs about WebClient and its server, for any number of pages and any  *)
(* length of the ring.                                                     *)
(***************************************************************************)
EXTENDS WebClient, WellFoundedInduction, TLAPS

------------------------------------------------------------------------------
(***************************************************************************)
(* Sequences that are the end of another one.                              *)
(***************************************************************************)

IsEndOf(q, s) == /\ Len(q) <= Len(s)
                 /\ \A i \in 1 .. Len(q) : q[i] = s[Len(s) - Len(q) + i]

\* The end of a sequence, written with SubSeq.
LEMMA EndSubSeq ==
  ASSUME NEW S, NEW s \in Seq(S), NEW q \in Seq(S), Len(q) <= Len(s)
  PROVE  q = SubSeq(s, Len(s) - Len(q) + 1, Len(s)) <=> IsEndOf(q, s)
<1> DEFINE n == Len(s)
           k == Len(q)
           e == SubSeq(s, n - k + 1, n)
<1>1. n \in Nat /\ k \in Nat /\ n - k + 1 \in 1 .. (n + 1)
  OBVIOUS
<1>2. e \in Seq(S) /\ Len(e) = k /\ \A i \in 1 .. k : e[i] = s[n - k + i]
  BY <1>1
<1>3. ASSUME IsEndOf(q, s) PROVE q = e
  BY <1>1, <1>2, <1>3 DEF IsEndOf
<1>4. ASSUME q = e PROVE IsEndOf(q, s)
  BY <1>1, <1>2, <1>4 DEF IsEndOf
<1> QED
  BY <1>3, <1>4

\* One sequence behind another.
LEMMA Concatenated ==
  ASSUME NEW S, NEW s \in Seq(S), NEW t \in Seq(S)
  PROVE  /\ s \o t \in Seq(S) /\ Len(s \o t) = Len(s) + Len(t)
         /\ Len(s) \in Nat /\ Len(t) \in Nat
         /\ \A i \in 1 .. Len(s) : (s \o t)[i] = s[i]
         /\ \A i \in 1 .. Len(t) : (s \o t)[Len(s) + i] = t[i]
<1>1. /\ s \o t \in Seq(S) /\ Len(s \o t) = Len(s) + Len(t)
      /\ Len(s) \in Nat /\ Len(t) \in Nat
  OBVIOUS
<1>2. \A i \in 1 .. Len(s) : (s \o t)[i] = s[i]
  OBVIOUS
<1>3. ASSUME NEW i \in 1 .. Len(t) PROVE (s \o t)[Len(s) + i] = t[i]
  <2>1. Len(s) + i > Len(s) /\ (Len(s) + i) - Len(s) = i
    BY <1>1
  <2> QED
    BY <1>1, <2>1
<1> QED
  BY <1>1, <1>2, <1>3

\* It stays the end when both get longer.
LEMMA EndAppended ==
  ASSUME NEW S, NEW s \in Seq(S), NEW q \in Seq(S), NEW t \in Seq(S), IsEndOf(q, s)
  PROVE  IsEndOf(q \o t, s \o t)
  BY DEF IsEndOf

\* The end of an end.
LEMMA EndOfEnd ==
  ASSUME NEW S, NEW s \in Seq(S), NEW q \in Seq(S), IsEndOf(q, s),
         NEW k \in 1 .. (Len(q) + 1)
  PROVE  /\ SubSeq(q, k, Len(q)) \in Seq(S)
         /\ Len(SubSeq(q, k, Len(q))) = Len(q) - k + 1
         /\ IsEndOf(SubSeq(q, k, Len(q)), s)
<1> DEFINE e == SubSeq(q, k, Len(q))
<1>1. Len(q) \in Nat /\ Len(s) \in Nat
  OBVIOUS
<1>2. e \in Seq(S) /\ Len(e) = Len(q) - k + 1
      /\ \A i \in 1 .. Len(e) : e[i] = q[k + i - 1]
  BY <1>1
<1> HIDE DEF e
<1>3. ASSUME NEW i \in 1 .. Len(e) PROVE e[i] = s[Len(s) - Len(e) + i]
  <2>1. k + i - 1 \in 1 .. Len(q)
    BY <1>1, <1>2
  <2>2. Len(s) - Len(q) + (k + i - 1) = Len(s) - Len(e) + i
    BY <1>1, <1>2
  <2> QED
    BY <1>2, <2>1, <2>2 DEF IsEndOf
<1>4. Len(e) <= Len(s)
  BY <1>1, <1>2 DEF IsEndOf
<1> QED
  BY <1>2, <1>3, <1>4 DEF IsEndOf, e

\* The smaller and the larger one of two numbers.
LEMMA OfTwo ==
  ASSUME NEW a \in Int, NEW b \in Int
  PROVE  /\ Min({a, b}) = IF a <= b THEN a ELSE b
         /\ Max({a, b}) = IF a <= b THEN b ELSE a
<1>1. \A m, n \in {a, b} : (\A y \in {a, b} : m <= y) /\ (\A y \in {a, b} : n <= y) => m = n
  OBVIOUS
<1>2. \E m \in {a, b} : \A y \in {a, b} : m <= y
  OBVIOUS
<1>3. Min({a, b}) \in {a, b} /\ \A y \in {a, b} : Min({a, b}) <= y
  BY <1>2 DEF Min
<1>4. \E m \in {a, b} : \A y \in {a, b} : m >= y
  OBVIOUS
<1>5. Max({a, b}) \in {a, b} /\ \A y \in {a, b} : Max({a, b}) >= y
  BY <1>4 DEF Max
<1> QED
  BY <1>3, <1>5

------------------------------------------------------------------------------
(***************************************************************************)
(* The ring.                                                               *)
(***************************************************************************)

\* RingInv without SubSeq and Min.
RingForm == /\ sent \in Nat /\ evq_seq \in Nat /\ unnoticed \in BOOLEAN
            /\ log \in Seq(Stored) /\ evq \in Seq(Stored)
            /\ bases \in Seq(Nat) /\ bases # <<>>
            /\ Len(evq) <= evq_seq
            /\ IsEndOf(evq, log)
            /\ Len(evq) >= RING \/ Len(evq) = evq_seq
            /\ evq_seq = Len(log) - bases[Len(bases)]
            /\ Len(evq) > RING => unnoticed

LEMMA RingFormOf == RingInv <=> RingForm
<1>1. RING \in Nat \ {0}
  BY RINGAssumption DEF RINGAssumption
<1> DEFINE least == Min({RING, evq_seq})
           Types == /\ evq_seq \in Nat /\ log \in Seq(Stored) /\ evq \in Seq(Stored)
                    /\ bases \in Seq(Nat) /\ bases # <<>>
                    /\ Len(evq) <= evq_seq /\ evq_seq = Len(log) - bases[Len(bases)]
<1>2. ASSUME Types
      PROVE  /\ Len(evq) >= least <=> Len(evq) >= RING \/ Len(evq) = evq_seq
             /\ evq = SubSeq(log, Len(log) - Len(evq) + 1, Len(log)) <=> IsEndOf(evq, log)
  <2>1. /\ Len(evq) \in Nat /\ Len(log) \in Nat /\ Len(bases) \in Nat
        /\ bases[Len(bases)] \in Nat
    BY <1>2
  <2>2. least = IF RING <= evq_seq THEN RING ELSE evq_seq
    <3>1. RING \in Int /\ evq_seq \in Int
      BY <1>1, <1>2
    <3> QED
      BY ONLY <3>1, OfTwo
  <2> HIDE DEF least
  <2>3. Len(evq) <= Len(log)
    BY <1>2, <2>1
  <2>4. Len(evq) >= least <=> Len(evq) >= RING \/ Len(evq) = evq_seq
    BY <1>1, <1>2, <2>1, <2>2
  <2>5. evq = SubSeq(log, Len(log) - Len(evq) + 1, Len(log)) <=> IsEndOf(evq, log)
    BY <1>2, <2>3, EndSubSeq
  <2> QED
    BY <2>4, <2>5
<1>3. ASSUME RingInv PROVE RingForm
  <2>1. evq_seq = Len(log) - bases[Len(bases)]
    BY <1>3 DEF RingInv, RingHoldsLatest, Run
  <2>2. Types
    BY <1>3, <2>1 DEF RingInv, evq_len
  <2> QED
    BY <1>2, <1>3, <2>2 DEF RingInv, RingForm, RingHoldsLatest, evq_len
<1>4. ASSUME RingForm PROVE RingInv
  <2>1. Types
    BY <1>4 DEF RingForm
  <2> QED
    <3>1. RingHoldsLatest
      BY <1>2, <1>4, <2>1 DEF RingForm, RingHoldsLatest, evq_len, Run
    <3> QED
      BY <1>4, <3>1 DEF RingForm, RingInv, evq_len
<1> QED
  <2>1. RingInv \in BOOLEAN /\ RingForm \in BOOLEAN
    BY DEF RingInv, RingForm
  <2> QED
    BY <1>3, <1>4, <2>1

\* What is cut off at a notification.
LEMMA Kept ==
  ASSUME NEW q \in Seq(Stored)
  PROVE  LET kept == SubSeq(q, Max({1, Len(q) - RING + 1}), Len(q))
         IN  /\ kept \in Seq(Stored)
             /\ Len(kept) = IF Len(q) <= RING THEN Len(q) ELSE RING
             /\ \A s \in Seq(Stored) : IsEndOf(q, s) => IsEndOf(kept, s)
<1> DEFINE k == Max({1, Len(q) - RING + 1})
<1>1. RING \in Nat \ {0} /\ Len(q) \in Nat
  BY RINGAssumption DEF RINGAssumption
<1>2. k = IF 1 <= Len(q) - RING + 1 THEN Len(q) - RING + 1 ELSE 1
  <2>1. 1 \in Int /\ Len(q) - RING + 1 \in Int
    BY <1>1
  <2> QED
    BY ONLY <2>1, OfTwo
<1> HIDE DEF k
<1>3. /\ k \in 1 .. (Len(q) + 1)
      /\ Len(q) - k + 1 = IF Len(q) <= RING THEN Len(q) ELSE RING
  <2>1. CASE Len(q) <= RING
    BY <1>1, <1>2, <2>1
  <2>2. CASE RING < Len(q)
    <3> DEFINE n == Len(q)
    <3>1. n \in Nat /\ RING < n /\ RING \in Nat \ {0} /\ k = n - RING + 1
      BY <1>1, <1>2, <2>2
    <3> HIDE DEF n
    <3>2. k \in 1 .. (n + 1) /\ n - k + 1 = RING /\ ~ (n <= RING)
      BY ONLY <3>1
    <3> QED
      BY <3>2 DEF n
  <2> QED
    BY <1>1, <2>1, <2>2
<1>4. IsEndOf(q, q)
  BY DEF IsEndOf
<1>5. SubSeq(q, k, Len(q)) \in Seq(Stored) /\ Len(SubSeq(q, k, Len(q))) = Len(q) - k + 1
  BY <1>3, <1>4, EndOfEnd
<1>6. \A s \in Seq(Stored) : IsEndOf(q, s) => IsEndOf(SubSeq(q, k, Len(q)), s)
  BY <1>3, EndOfEnd
<1> QED
  BY <1>3, <1>5, <1>6 DEF k

\* An answer is made of the end of the queue; it has a NULL only if it is longer.
LEMMA Response ==
  ASSUME NEW q \in Seq(Stored), NEW last \in Nat, NEW s \in Nat,
         bases \in Seq(Nat), bases # <<>>,
         last - s > Len(q) => last - s > RING
  PROVE  LET answer == upd_response(q, last, s)
         IN  /\ answer \in Answers
             /\ \A i \in DOMAIN answer.ev : answer.ev[i] = NULL => Len(answer.ev) > RING
<1> DEFINE n == last - s
           e == last_events(q, n)
<1>1. RING \in Nat \ {0} /\ Len(q) \in Nat /\ n \in Int /\ (n > Len(q) => n > RING)
  BY RINGAssumption DEF RINGAssumption
<1>2. bases[Run] + last \in Int /\ Run \in Int
  BY DEF Run
<1>3. ASSUME last > s
      PROVE  /\ e \in Seq(Nat)
             /\ \A i \in DOMAIN e : e[i] = NULL => Len(e) > RING
  BY <1>1, <1>3 DEF last_events, Stored, NULL
<1> QED
  BY <1>2, <1>3 DEF upd_response, Answers

------------------------------------------------------------------------------
(***************************************************************************)
(* The steps.                                                              *)
(***************************************************************************)

\* What comes with a batch is put behind the queue and behind the log.
LEMMA Batch ==
  ASSUME RingForm, NEW n \in Nat, NEW good \in 0 .. n
  PROVE  LET stored == SubSeq([i \in 1 .. n |-> sent + i], 1, good)
         IN  /\ stored \in Seq(Stored) /\ Len(stored) = good
             /\ evq \o stored \in Seq(Stored) /\ log \o stored \in Seq(Stored)
             /\ Len(evq \o stored) = Len(evq) + good
             /\ Len(log \o stored) = Len(log) + good
             /\ IsEndOf(evq \o stored, log \o stored)
<1> DEFINE batch == [i \in 1 .. n |-> sent + i]
           stored == SubSeq(batch, 1, good)
<1>1. batch \in Seq(Stored) /\ Len(batch) = n
  BY DEF RingForm, Stored, NULL
<1> HIDE DEF batch
<1>2. stored \in Seq(Stored) /\ Len(stored) = good
  BY <1>1
<1> HIDE DEF stored
<1>3. evq \in Seq(Stored) /\ log \in Seq(Stored) /\ IsEndOf(evq, log)
  BY DEF RingForm
<1>4. IsEndOf(evq \o stored, log \o stored)
  BY <1>2, <1>3, EndAppended
<1>5. /\ evq \o stored \in Seq(Stored) /\ log \o stored \in Seq(Stored)
      /\ Len(evq \o stored) = Len(evq) + good
      /\ Len(log \o stored) = Len(log) + good
  BY ONLY <1>2, <1>3, Concatenated
<1> QED
  BY <1>2, <1>4, <1>5 DEF stored, batch

LEMMA PushStep ==
  ASSUME RingInv, CallInv, Push
  PROVE  RingInv' /\ CallInv'
<1>1. PICK n \in 1 .. BatchLimit, good \in 0 .. BatchLimit :
             /\ good <= n /\ sent' = sent + n
             /\ handle_push([i \in 1 .. n |-> sent + i], good)
             /\ UNCHANGED page
  BY DEF Push
<1> DEFINE stored == SubSeq([i \in 1 .. n |-> sent + i], 1, good)
           q == evq \o stored
           last == evq_seq + good
           kept == SubSeq(q, Max({1, Len(q) - RING + 1}), Len(q))
<1>2. /\ n \in Nat /\ good \in 0 .. n /\ RING \in Nat \ {0}
      /\ Len([i \in 1 .. n |-> sent + i]) = n
  BY <1>1, RINGAssumption DEF RINGAssumption
<1>3. /\ evq_seq' = last /\ log' = log \o stored /\ bases' = bases /\ seq' = seq
      /\ \/ Notify(q, last) /\ unnoticed' = FALSE
         \/ evq' = q /\ unnoticed' = (unnoticed \/ good > 0) /\ call' = call
  BY <1>1, <1>2 DEF handle_push, page
<1>4. RingForm
  BY RingFormOf
<1>5. /\ stored \in Seq(Stored) /\ q \in Seq(Stored) /\ log' \in Seq(Stored)
      /\ Len(q) = Len(evq) + good /\ Len(log') = Len(log) + good
      /\ IsEndOf(q, log')
  BY <1>2, <1>3, <1>4, Batch
<1>6. /\ sent' \in Nat /\ Len(evq) \in Nat /\ good \in Nat
      /\ evq_seq \in Nat /\ Len(evq) <= evq_seq /\ bases \in Seq(Nat) /\ bases # <<>>
      /\ Len(evq) >= RING \/ Len(evq) = evq_seq
  BY <1>1, <1>2, <1>4 DEF RingForm
<1>7. last \in Nat /\ last = evq_seq + good /\ last = Len(log') - bases[Len(bases)]
  <2>1. bases[Len(bases)] \in Nat /\ Len(log) \in Nat /\ evq_seq = Len(log) - bases[Len(bases)]
    BY <1>4 DEF RingForm
  <2>2. Len(log') = Len(log) + good
    BY <1>5
  <2> QED
    BY ONLY <1>6, <2>1, <2>2
<1> HIDE DEF stored, q, last
<1>8. (RingInv <=> RingForm)'
  BY RingFormOf, PTL
<1>9. CASE Notify(q, last) /\ unnoticed' = FALSE
  <2>1. /\ evq' = kept
        /\ call' = [c \in Clients |-> IF call[c].at = "longpoll"
                                      THEN upd_response(kept, last, call[c].seq)
                                      ELSE call[c]]
    BY <1>9 DEF Notify
  <2>2. /\ kept \in Seq(Stored) /\ IsEndOf(kept, log')
        /\ Len(kept) = IF Len(q) <= RING THEN Len(q) ELSE RING
    BY <1>5, Kept
  <2>3. Len(q) = Len(evq) + good
    BY <1>5
  <2> HIDE DEF kept
  <2>4. /\ Len(kept) <= last /\ ~ (Len(kept) > RING)
        /\ Len(kept) >= RING \/ Len(kept) = last
    <3>1. CASE Len(q) <= RING
      BY ONLY <1>2, <1>6, <1>7, <2>2, <2>3, <3>1
    <3>2. CASE ~ (Len(q) <= RING)
      BY ONLY <1>2, <1>6, <1>7, <2>2, <2>3, <3>2
    <3> QED
      BY <3>1, <3>2
  <2>5. RingForm'
    BY <1>3, <1>5, <1>6, <1>7, <1>9, <2>1, <2>2, <2>4 DEF RingForm
  <2>6. ASSUME NEW c \in Clients PROVE Legal(call[c])'
    <3>1. CASE call[c].at = "longpoll"
      <4>1. call[c].seq \in 0 .. evq_seq
        BY <3>1 DEF CallInv, Legal, NoCall, Failed, Answers
      <4>2. call[c].seq \in Nat
        BY <1>6, <4>1
      <4>3. last - call[c].seq > Len(kept) => last - call[c].seq > RING
        BY ONLY <1>2, <1>7, <2>4, <4>2
      <4> DEFINE answer == upd_response(kept, last, call[c].seq)
      <4>4. /\ answer \in Answers
            /\ \A i \in DOMAIN answer.ev : answer.ev[i] = NULL => Len(answer.ev) > RING
        BY <1>6, <1>7, <2>2, <4>2, <4>3, Response
      <4> HIDE DEF answer
      <4>5. call'[c] = answer
        BY <2>1, <3>1 DEF answer
      <4> QED
        BY <4>4, <4>5 DEF Legal, Answers
    <3>2. CASE call[c].at # "longpoll"
      <4>1. Legal(call[c]) /\ call'[c] = call[c]
        BY <2>1, <3>2 DEF CallInv
      <4>2. \/ call[c] \in {NoCall, Failed}
            \/ call[c] \in [at : {"request"}, seq : Nat]
            \/ /\ call[c] \in Answers
               /\ \A i \in DOMAIN call[c].ev :
                    call[c].ev[i] = NULL => Len(call[c].ev) > RING
        BY <3>2, <4>1 DEF Legal
      <4> QED
        BY <4>1, <4>2 DEF Legal, Answers
    <3> QED
      BY <3>1, <3>2
  <2> QED
    BY <1>3, <1>8, <2>1, <2>5, <2>6 DEF CallInv
<1>10. CASE evq' = q /\ unnoticed' = (unnoticed \/ good > 0) /\ call' = call
  <2>1. Len(q) = Len(evq) + good
    BY <1>5
  <2>2. /\ Len(q) <= last
        /\ Len(q) >= RING \/ Len(q) = last
    <3>1. Len(q) <= last
      BY ONLY <1>6, <1>7, <2>1
    <3>2. CASE Len(evq) >= RING
      BY ONLY <1>2, <1>6, <2>1, <3>1, <3>2
    <3>3. CASE Len(evq) = evq_seq
      BY ONLY <1>6, <1>7, <2>1, <3>1, <3>3
    <3> QED
      BY <1>6, <3>2, <3>3
  <2>3. ASSUME Len(q) > RING PROVE unnoticed'
    <3>1. Len(evq) > RING \/ good > 0
      BY ONLY <1>2, <1>6, <2>1, <2>3
    <3> QED
      BY <1>4, <1>10, <3>1 DEF RingForm
  <2>4. unnoticed' \in BOOLEAN
    BY <1>10
  <2>5. RingForm'
    BY <1>3, <1>5, <1>6, <1>7, <1>10, <2>2, <2>3, <2>4 DEF RingForm
  <2>6. 0 .. evq_seq \subseteq 0 .. evq_seq'
    BY <1>3, <1>6, <1>7
  <2>7. ASSUME NEW c \in Clients PROVE Legal(call[c])'
    <3>1. Legal(call[c]) /\ call'[c] = call[c]
      BY <1>10 DEF CallInv
    <3>2. call[c] \in [at : {"longpoll"}, seq : 0 .. evq_seq]
            => call[c] \in [at : {"longpoll"}, seq : 0 .. evq_seq']
      BY <2>6
    <3> QED
      BY <3>1, <3>2 DEF Legal
  <2> QED
    BY <1>3, <1>8, <1>10, <2>5, <2>7 DEF CallInv
<1> QED
  BY <1>3, <1>9, <1>10

\* A poll asks after a number that was given out, or after what the ring holds.
LEMMA UpdStep ==
  ASSUME RingInv, CallInv, NEW c \in Clients, handle_upd(c), UNCHANGED <<sent, page>>
  PROVE  RingInv' /\ CallInv'
<1> DEFINE asked == call[c].seq
           s == StartSeq(asked)
           answer == upd_response(evq, evq_seq, s)
<1>1. /\ call[c].at = "request" /\ UNCHANGED server /\ seq' = seq
      /\ call' = [call EXCEPT ![c] = IF s = evq_seq THEN [at |-> "longpoll", seq |-> s]
                                     ELSE answer]
  BY DEF handle_upd, page
<1>2. asked \in Nat
  BY <1>1 DEF CallInv, Legal, NoCall, Failed, Answers
<1>3. RingForm /\ RING \in Nat \ {0}
  BY RingFormOf, RINGAssumption DEF RINGAssumption
<1>4. /\ evq_seq \in Nat /\ evq \in Seq(Stored) /\ Len(evq) \in Nat /\ Len(evq) <= evq_seq
      /\ Len(evq) >= RING \/ Len(evq) = evq_seq
      /\ bases \in Seq(Nat) /\ bases # <<>>
  BY <1>3 DEF RingForm
<1>5. Min({RING, evq_len}) = IF RING <= Len(evq) THEN RING ELSE Len(evq)
  <2>1. RING \in Int /\ Len(evq) \in Int
    BY <1>3, <1>4
  <2> QED
    BY ONLY <2>1, OfTwo DEF evq_len
<1>6. s = IF asked # 0 /\ asked <= evq_seq THEN asked
          ELSE evq_seq - (IF RING <= Len(evq) THEN RING ELSE Len(evq))
  BY <1>5 DEF StartSeq
<1> HIDE DEF asked, s, answer
<1>7. s \in 0 .. evq_seq /\ s \in Nat
  BY <1>2, <1>3, <1>4, <1>6
<1>8. evq_seq - s > Len(evq) => evq_seq - s > RING
  <2>1. CASE asked # 0 /\ asked <= evq_seq
    BY <1>2, <1>3, <1>4, <1>6, <2>1
  <2>2. CASE ~ (asked # 0 /\ asked <= evq_seq)
    BY <1>2, <1>3, <1>4, <1>6, <2>2
  <2> QED
    BY <2>1, <2>2
<1>9. /\ answer \in Answers
      /\ \A i \in DOMAIN answer.ev : answer.ev[i] = NULL => Len(answer.ev) > RING
  BY <1>4, <1>7, <1>8, Response DEF answer
<1>10. Legal(call'[c]) /\ DOMAIN call' = Clients
  BY <1>1, <1>7, <1>9 DEF CallInv, Legal
<1>11. ASSUME NEW d \in Clients PROVE Legal(call[d])'
  <2>1. Legal(call'[d])
    BY <1>1, <1>10 DEF CallInv
  <2> QED
    BY <1>1, <2>1 DEF Legal, server, Answers
<1>12. RingInv'
  BY <1>1 DEF RingInv, RingHoldsLatest, evq_len, Run, server, page
<1> QED
  BY <1>1, <1>10, <1>11, <1>12 DEF CallInv

\* A call that ends, or is lost, is one that may be made again.
LEMMA CallStep ==
  ASSUME RingInv, CallInv, UNCHANGED server, sent' = sent,
         NEW c \in Clients, NEW x, Legal(x), call' = [call EXCEPT ![c] = x],
         seq' \in [Clients -> Nat]
  PROVE  RingInv' /\ CallInv'
<1>1. ASSUME NEW d \in Clients PROVE Legal(call[d])'
  <2>1. Legal(call'[d])
    BY DEF CallInv
  <2> QED
    BY <2>1 DEF Legal, server, Answers
<1>2. RingInv'
  BY DEF RingInv, RingHoldsLatest, evq_len, Run, server
<1> QED
  BY <1>1, <1>2 DEF CallInv

LEMMA RestartStep ==
  ASSUME RingInv, CallInv, Restart, UNCHANGED <<sent, page>>
  PROVE  RingInv' /\ CallInv'
<1>1. /\ evq' = <<>> /\ evq_seq' = 0 /\ log' = log /\ unnoticed' = FALSE
      /\ bases' = Append(bases, Len(log)) /\ sent' = sent /\ seq' = seq
      /\ call' = [c \in Clients |-> IF call[c].at \in {"request", "longpoll"}
                                    THEN Failed ELSE call[c]]
  BY DEF Restart, page
<1>2. RingForm
  BY RingFormOf
<1>3. /\ evq' \in Seq(Stored) /\ Len(evq') = 0 /\ Len(log) \in Nat
      /\ bases' \in Seq(Nat) /\ bases' # <<>> /\ bases'[Len(bases')] = Len(log)
      /\ IsEndOf(evq', log)
  BY <1>1, <1>2 DEF RingForm, IsEndOf
<1>4. RING \in Nat \ {0}
  BY RINGAssumption DEF RINGAssumption
<1>5. RingForm'
  <2>1. sent' \in Nat /\ log' \in Seq(Stored) /\ evq_seq' \in Nat /\ unnoticed' \in BOOLEAN
    BY <1>1, <1>2 DEF RingForm
  <2>2. /\ Len(evq') = evq_seq' /\ Len(evq') <= evq_seq' /\ ~ (Len(evq') > RING)
        /\ IsEndOf(evq', log')
    BY <1>1, <1>3, <1>4
  <2>3. evq_seq' = Len(log') - bases'[Len(bases')]
    BY <1>1, <1>3
  <2> QED
    BY <1>3, <2>1, <2>2, <2>3 DEF RingForm
<1>6. (RingInv <=> RingForm)'
  BY RingFormOf, PTL
<1>7. ASSUME NEW c \in Clients PROVE Legal(call[c])'
  <2>1. CASE call[c].at \in {"request", "longpoll"}
    BY <1>1, <2>1 DEF Legal
  <2>2. CASE call[c].at \notin {"request", "longpoll"}
    <3>1. Legal(call[c]) /\ call'[c] = call[c]
      BY <1>1, <2>2 DEF CallInv
    <3> QED
      BY <2>2, <3>1 DEF Legal, Answers
  <2> QED
    BY <2>1, <2>2
<1> QED
  BY <1>1, <1>5, <1>6, <1>7 DEF CallInv

LEMMA WebStep == ASSUME WebInv, [Next]_vars PROVE WebInv'
<1>1. RingInv /\ CallInv /\ DOMAIN mode = Clients /\ DOMAIN ev = Clients
  BY DEF WebInv
<1>2. CASE Push
  BY <1>1, <1>2, PushStep DEF WebInv, Push, page
<1>3. CASE Restart /\ UNCHANGED <<sent, page>>
  BY <1>1, <1>3, RestartStep DEF WebInv, page
<1>4. ASSUME NEW c \in Clients, ajax_update(c) PROVE WebInv'
  <2> DEFINE x == [at |-> "request", seq |-> seq[c]]
  <2>1. /\ call' = [call EXCEPT ![c] = x]
        /\ UNCHANGED server /\ UNCHANGED <<sent, seq, ev, mode>>
    BY <1>4 DEF ajax_update, page
  <2>2. Legal(x) /\ seq' \in [Clients -> Nat]
    BY <1>1, <2>1 DEF Legal, CallInv
  <2> HIDE DEF x
  <2>3. RingInv' /\ CallInv'
    BY <1>1, <2>1, <2>2, CallStep
  <2> QED
    BY <1>1, <2>1, <2>3 DEF WebInv
<1>5. ASSUME NEW c \in Clients, Success(c) PROVE WebInv'
  <2>1. /\ call[c].at = "answer" /\ call' = [call EXCEPT ![c] = NoCall]
        /\ seq' = [seq EXCEPT ![c] = call[c].seq]
        /\ UNCHANGED server /\ sent' = sent
        /\ DOMAIN mode' = Clients /\ DOMAIN ev' = Clients
    BY <1>1, <1>5 DEF Success
  <2>2. Legal(NoCall)
    BY DEF Legal
  <2>3. call[c].seq \in Nat
    BY <1>1, <2>1 DEF CallInv, Legal, NoCall, Failed, Answers
  <2>4. seq' \in [Clients -> Nat]
    BY <1>1, <2>1, <2>3 DEF CallInv
  <2>5. RingInv' /\ CallInv'
    BY <1>1, <2>1, <2>2, <2>4, CallStep
  <2> QED
    BY <2>1, <2>5 DEF WebInv
<1>6. ASSUME NEW c \in Clients, NEW x \in {NoCall, Failed},
             call' = [call EXCEPT ![c] = x], UNCHANGED server, sent' = sent,
             seq' \in [Clients -> Nat], DOMAIN mode' = Clients, DOMAIN ev' = Clients
      PROVE  WebInv'
  <2>1. Legal(x)
    BY DEF Legal
  <2>2. RingInv' /\ CallInv'
    BY <1>1, <1>6, <2>1, CallStep
  <2> QED
    BY <1>6, <2>2 DEF WebInv
<1>7. ASSUME NEW c \in Clients, Error(c) \/ (Lose(c) /\ UNCHANGED <<sent, page>>)
      PROVE  WebInv'
  <2>1. CASE Error(c)
    BY <1>1, <1>6, <2>1 DEF Error, page, CallInv
  <2>2. CASE Lose(c) /\ UNCHANGED <<sent, page>>
    BY <1>1, <1>6, <2>2 DEF Lose, page, CallInv
  <2> QED
    BY <1>7, <2>1, <2>2
<1>8. ASSUME NEW c \in Clients, Reload(c) PROVE WebInv'
  <2>1. seq' \in [Clients -> Nat] /\ DOMAIN mode' = Clients /\ DOMAIN ev' = Clients
    BY <1>1, <1>8 DEF Reload, CallInv
  <2> QED
    BY <1>6, <1>8, <2>1 DEF Reload
<1>9. CASE UNCHANGED <<server, call, sent, seq, ev>> /\ DOMAIN mode' = Clients
  BY <1>1, <1>9 DEF WebInv, RingInv, RingHoldsLatest, evq_len, Run, CallInv, Legal,
                    Answers, server
<1>10. ASSUME NEW c \in Clients, activate(c) PROVE WebInv'
  BY <1>1, <1>9, <1>10 DEF activate
<1>11. ASSUME NEW c \in Clients, handle_upd(c), UNCHANGED <<sent, page>> PROVE WebInv'
  <2>1. RingInv' /\ CallInv'
    BY <1>1, <1>11, UpdStep
  <2> QED
    BY <1>1, <1>11, <2>1 DEF WebInv, page
<1>12. CASE UNCHANGED vars
  BY <1>1, <1>9, <1>12 DEF vars, page
<1> QED
  BY <1>2, <1>3, <1>4, <1>5, <1>7, <1>8, <1>10, <1>11, <1>12 DEF Next

------------------------------------------------------------------------------
(***************************************************************************)
(* The theorems.                                                           *)
(***************************************************************************)

\* The invariant behind what follows: the queue is the end of the log, and the
\* calls are about numbers that were given out.
THEOREM WebInductive == Spec => []WebInv
<1>1. Init => WebInv
  <2> SUFFICES ASSUME Init PROVE WebInv
    OBVIOUS
  <2>1. RingForm
    <3>1. RING \in Nat \ {0}
      BY RINGAssumption DEF RINGAssumption
    <3>2. /\ evq = <<>> /\ log = <<>> /\ bases = <<0>> /\ evq_seq = 0 /\ sent = 0
          /\ unnoticed = FALSE
      BY DEF Init, ServerInit
    <3>3. /\ evq \in Seq(Stored) /\ log \in Seq(Stored) /\ Len(evq) = 0 /\ Len(log) = 0
          /\ IsEndOf(evq, log)
      BY <3>2 DEF IsEndOf
    <3>4. bases \in Seq(Nat) /\ bases # <<>> /\ bases[Len(bases)] = 0
      BY <3>2
    <3>5. sent \in Nat /\ evq_seq \in Nat /\ unnoticed \in BOOLEAN
      BY <3>2
    <3>6. evq_seq = Len(log) - bases[Len(bases)]
      <4>1. evq_seq = 0
        BY <3>2
      <4> QED
        BY ONLY <3>3, <3>4, <4>1
    <3>7. Len(evq) = evq_seq /\ Len(evq) <= evq_seq
      <4>1. evq_seq = 0
        BY <3>2
      <4> QED
        BY ONLY <3>3, <4>1
    <3>8. ~ (Len(evq) > RING)
      BY ONLY <3>1, <3>3
    <3> QED
      BY ONLY <3>3, <3>4, <3>5, <3>6, <3>7, <3>8 DEF RingForm
  <2>2. CallInv
    BY DEF Init, ServerInit, CallInv, Legal
  <2> QED
    BY <2>1, <2>2, RingFormOf DEF WebInv, Init
<1> QED
  BY <1>1, WebStep, PTL DEF Spec

\* The ring of app.js holds the latest events of this run of the server, and more
\* only after a batch that did not parse.
THEOREM RingIsLatest == Spec => []RingHoldsLatest
  BY WebInductive, PTL DEF WebInv, RingInv

\* A page that gets an answer goes on polling, unless the answer is longer than
\* the ring or the page lists nothing: a NULL in an answer has no other reason.
THEOREM StopsWhenBehind == Spec => StopsOnlyWhenBehind
<1> DEFINE Stops(c) == mode[c] # "stopped" /\ mode'[c] = "stopped" =>
                         Len(call[c].ev) > RING \/ ev'[c] = <<>>
<1>1. ASSUME WebInv, Next, NEW c \in Clients PROVE Stops(c)
  <2>1. DOMAIN mode = Clients /\ DOMAIN ev = Clients /\ Legal(call[c])
    BY <1>1 DEF WebInv, CallInv
  <2>2. ASSUME NEW d \in Clients, Success(d) PROVE Stops(c)
    <3> DEFINE list == FoldLeft(Listed, ev[d], call[d].ev)
               late == \E i \in DOMAIN call[d].ev : call[d].ev[i] = NULL
    <3>1. /\ call[d].at = "answer"
          /\ mode' = IF late \/ (mode[d] = "Live" /\ list = <<>>)
                     THEN [mode EXCEPT ![d] = "stopped"] ELSE mode
          /\ ~ late => ev' = [ev EXCEPT ![d] = list]
      BY <2>2 DEF Success
    <3> HIDE DEF list
    <3>2. CASE c # d
      BY <2>1, <3>1, <3>2
    <3>3. CASE c = d
      <4>1. late => Len(call[c].ev) > RING
        BY <2>1, <3>1, <3>3 DEF Legal, NoCall, Failed
      <4> QED
        BY <2>1, <3>1, <3>3, <4>1
    <3> QED
      BY <3>2, <3>3
  <2>3. ASSUME NEW d \in Clients, activate(d) \/ Reload(d) PROVE Stops(c)
    BY <2>1, <2>3 DEF activate, Reload
  <2>4. CASE mode' = mode
    BY <2>4
  <2> QED
    BY <1>1, <2>2, <2>3, <2>4 DEF Next, Push, ajax_update, Error, page
<1>2. ASSUME WebInv, [Next]_vars
      PROVE  [\A c \in Clients : Stops(c)]_vars
  BY <1>1, <1>2
<1> QED
  BY <1>2, WebInductive, PTL DEF Spec, StopsOnlyWhenBehind

------------------------------------------------------------------------------
(***************************************************************************)
(* Folds.  The list of a page is a fold over an answer; what it is after   *)
(* each event is a sequence of its own.                                    *)
(***************************************************************************)

\* A set of numbers has a smallest element, which is what Min chooses.
LEMMA Minimum ==
  ASSUME NEW T \in SUBSET Nat, T # {}
  PROVE  Min(T) \in T /\ \A y \in T : Min(T) <= y
<1>1. PICK x \in T : \A y \in T : ~ (<<y, x>> \in OpToRel(<, Nat))
  BY WFMin, NatLessThanWellFounded
<1>2. \A y \in T : x <= y
  <2> SUFFICES ASSUME NEW y \in T, y < x PROVE FALSE
    OBVIOUS
  <2>1. <<y, x>> \in Nat \X Nat /\ <<y, x>>[1] < <<y, x>>[2]
    OBVIOUS
  <2> QED
    BY <1>1, <2>1 DEF OpToRel
<1> QED
  BY <1>2 DEF Min

\* A number that is as large as any other of a set is what Max chooses.
LEMMA MaximumIs ==
  ASSUME NEW T \in SUBSET Nat, NEW x \in T, \A y \in T : x >= y
  PROVE  Max(T) = x
<1> DEFINE m == Max(T)
<1>1. m \in T /\ \A y \in T : m >= y
  BY DEF Max
<1>2. m \in Nat /\ x \in Nat
  BY <1>1
<1> HIDE DEF m
<1>3. m >= x /\ x >= m
  BY <1>1
<1>4. m = x
  BY ONLY <1>2, <1>3
<1> QED
  BY <1>4 DEF m

\* Induction, for a set.
LEMMA Induction ==
  ASSUME NEW T \in SUBSET Nat, 0 \in T, \A n \in T : n + 1 \in T
  PROVE  T = Nat
<1> SUFFICES ASSUME Nat \ T # {} PROVE FALSE
  OBVIOUS
<1> DEFINE m == Min(Nat \ T)
<1>1. m \in Nat \ T /\ \A y \in Nat \ T : m <= y
  BY Minimum
<1> HIDE DEF m
<1>2. m - 1 \in Nat /\ m - 1 \in T
  BY <1>1
<1>3. (m - 1) + 1 = m
  BY <1>1
<1> QED
  BY <1>1, <1>2, <1>3

\* iter of MapThenFoldSet, for Listed, on the subsets of a set.
IsIter(f, list, q, D) ==
  f = [s \in SUBSET D |-> IF s = {} THEN list
                          ELSE Listed(f[s \ {Max(s)}], q[Max(s)])]

LEMMA IterExists ==
  ASSUME NEW list, NEW q
  PROVE  \A k \in Nat : \E f : IsIter(f, list, q, 1 .. k)
<1> DEFINE T == {k \in Nat : \E f : IsIter(f, list, q, 1 .. k)}
<1>1. 0 \in T
  <2> DEFINE f == [s \in SUBSET (1 .. 0) |-> list]
  <2>1. 1 .. 0 = {}
    OBVIOUS
  <2>2. IsIter(f, list, q, 1 .. 0)
    BY <2>1 DEF IsIter
  <2> QED
    BY <2>2
<1>2. ASSUME NEW k \in T PROVE k + 1 \in T
  <2>1. k \in Nat
    OBVIOUS
  <2>2. PICK f : IsIter(f, list, q, 1 .. k)
    OBVIOUS
  <2> DEFINE g == [s \in SUBSET (1 .. (k + 1)) |->
                     IF k + 1 \in s THEN Listed(f[s \ {k + 1}], q[k + 1]) ELSE f[s]]
             R(h, s) == IF s = {} THEN list ELSE Listed(h[s \ {Max(s)}], q[Max(s)])
  <2>3. \A s \in SUBSET (1 .. k) : f[s] = R(f, s)
    BY <2>2 DEF IsIter
  <2>4. \A s \in SUBSET (1 .. (k + 1)) : k + 1 \notin s => s \in SUBSET (1 .. k)
    BY <2>1
  <2>5. SUBSET (1 .. k) \subseteq SUBSET (1 .. (k + 1)) /\ k + 1 \notin 1 .. k
    BY <2>1
  <2>6. \A s \in SUBSET (1 .. k) : g[s] = f[s]
    BY <2>5
  <2>7. ASSUME NEW s \in SUBSET (1 .. (k + 1)) PROVE g[s] = R(g, s)
    <3>1. CASE k + 1 \in s
      <4>1. Max(s) = k + 1
        <5>1. s \in SUBSET Nat /\ \A y \in s : k + 1 >= y
          BY <2>1
        <5> QED
          BY <3>1, <5>1, MaximumIs
      <4>2. s \ {k + 1} \in SUBSET (1 .. k)
        BY <2>4
      <4>3. g[s] = Listed(f[s \ {k + 1}], q[k + 1])
        BY <3>1
      <4> HIDE DEF g
      <4>4. g[s \ {k + 1}] = f[s \ {k + 1}]
        BY <2>6, <4>2
      <4> QED
        BY <3>1, <4>1, <4>3, <4>4
    <3>2. CASE k + 1 \notin s
      <4>1. s \in SUBSET (1 .. k) /\ s \ {Max(s)} \in SUBSET (1 .. k)
        BY <2>4, <3>2
      <4> HIDE DEF g
      <4>2. g[s] = f[s] /\ g[s \ {Max(s)}] = f[s \ {Max(s)}]
        BY <2>6, <4>1
      <4> QED
        BY <2>3, <4>1, <4>2
    <3> QED
      BY <3>1, <3>2
  <2>8. g = [s \in SUBSET (1 .. (k + 1)) |-> g[s]]
    OBVIOUS
  <2> HIDE DEF g
  <2>9. IsIter(g, list, q, 1 .. (k + 1))
    BY <2>7, <2>8 DEF IsIter
  <2> QED
    BY <2>1, <2>9
<1> HIDE DEF T
<1>3. T = Nat
  <2>1. T \in SUBSET Nat
    BY DEF T
  <2> QED
    BY <1>1, <1>2, <2>1, Induction
<1> QED
  BY <1>3 DEF T

\* The fold handles the events from the first to the last.
LEMMA FoldSteps ==
  ASSUME NEW S, NEW q \in Seq(S), NEW list
  PROVE  \E F : /\ F[0] = list
                /\ \A i \in 1 .. Len(q) : F[i] = Listed(F[i - 1], q[i])
                /\ FoldLeft(Listed, list, q) = F[Len(q)]
<1> DEFINE D == DOMAIN q
           iter[s \in SUBSET D] == IF s = {} THEN list
                                   ELSE Listed(iter[s \ {Max(s)}], q[Max(s)])
<1>1. D = 1 .. Len(q) /\ Len(q) \in Nat
  OBVIOUS
<1>2. \E f : IsIter(f, list, q, D)
  BY <1>1, IterExists
<1>3. IsIter(iter, list, q, D)
  BY <1>2 DEF IsIter
<1>4. FoldLeft(Listed, list, q) = iter[D]
  BY DEF FoldLeft, MapThenFoldSet
<1> HIDE DEF iter, D
<1>5. \A s \in SUBSET D : iter[s] = IF s = {} THEN list
                                    ELSE Listed(iter[s \ {Max(s)}], q[Max(s)])
  BY <1>3 DEF IsIter
<1> DEFINE F == [i \in 0 .. Len(q) |-> iter[1 .. i]]
<1>6. F[0] = list
  <2>1. {} \in SUBSET D /\ 1 .. 0 = {} /\ 0 \in 0 .. Len(q)
    BY <1>1
  <2> QED
    BY <1>5, <2>1
<1>7. ASSUME NEW i \in 1 .. Len(q) PROVE F[i] = Listed(F[i - 1], q[i])
  <2>1. /\ i \in Nat \ {0} /\ i \in 0 .. Len(q) /\ i - 1 \in 0 .. Len(q)
        /\ 1 .. i # {} /\ (1 .. i) \ {i} = 1 .. (i - 1)
    BY <1>1
  <2>4. (1 .. i) \in SUBSET D
    BY <1>1
  <2>2. Max(1 .. i) = i
    <3>1. i \in 1 .. i /\ (1 .. i) \in SUBSET Nat /\ \A y \in 1 .. i : i >= y
      BY <2>1
    <3> QED
      BY <3>1, MaximumIs
  <2>3. iter[1 .. i] = Listed(iter[(1 .. i) \ {i}], q[i])
    BY <1>5, <2>1, <2>2, <2>4
  <2> QED
    BY <2>1, <2>3
<1>8. FoldLeft(Listed, list, q) = F[Len(q)]
  BY <1>1, <1>4
<1> HIDE DEF F
<1> QED
  BY <1>6, <1>7, <1>8

------------------------------------------------------------------------------
(***************************************************************************)
(* What a list shows.                                                      *)
(***************************************************************************)

IsStartOf(e) == e % 2 = 1

\* The two events of an over.
LEMMA Overs ==
  ASSUME NEW e \in Stored
  PROVE  /\ Over(e) \in Nat /\ e \in Nat /\ e > 0
         /\ IsEnd(e) <=> ~ IsStartOf(e)
         /\ IsStartOf(e) => e = 2 * Over(e) - 1
         /\ IsEnd(e) => e = 2 * Over(e)
  BY DEF Over, IsEnd, IsStartOf, Stored, NULL

\* One event adds itself to what a list shows: a start always, an end only to a
\* start that is shown.  The newest over is the first one if events come in order.
LEMMA ListedShows ==
  ASSUME NEW l \in Seq(Entries), NEW e \in Stored,
         Feed!NewestFirst(l), \A x \in Feed!Shown(l) : x < e
  PROVE  /\ Listed(l, e) \in Seq(Entries)
         /\ Feed!NewestFirst(Listed(l, e))
         /\ Feed!Shown(Listed(l, e)) =
               Feed!Shown(l) \cup (IF IsStartOf(e) \/ e - 1 \in Feed!Shown(l) THEN {e} ELSE {})
<1> DEFINE o == Over(e)
           n == Listed(l, e)
<1>1. /\ o \in Nat /\ e \in Nat /\ (IsEnd(e) <=> ~ IsStartOf(e))
      /\ IsStartOf(e) => e = 2 * o - 1
      /\ IsEnd(e) => e = 2 * o
  BY Overs
<1>2. \A i \in DOMAIN l : l[i].over \in Nat /\ l[i].done \in BOOLEAN
  <2>1. \A i \in DOMAIN l : l[i] \in Entries
    OBVIOUS
  <2> QED
    BY <2>1 DEF Entries
<1> HIDE DEF o
<1>3. CASE IsStartOf(e)
  <2> DEFINE x == [over |-> o, done |-> FALSE]
  <2>1. n = <<x>> \o l
    BY <1>1, <1>3 DEF Listed, o
  <2>2. x \in Entries
    BY <1>1 DEF Entries
  <2> HIDE DEF n, x
  <2>3. /\ n \in Seq(Entries) /\ DOMAIN n = 1 .. (Len(l) + 1) /\ DOMAIN l = 1 .. Len(l)
        /\ n[1] = x /\ \A i \in 1 .. Len(l) : n[i + 1] = l[i]
        /\ Len(l) \in Nat
    BY <2>1, <2>2
  <2>4. \A i \in DOMAIN n : i = 1 \/ (i - 1 \in DOMAIN l /\ n[i] = l[i - 1])
    BY <2>3
  <2>5. \A i \in DOMAIN l : i + 1 \in DOMAIN n /\ n[i + 1] = l[i]
    BY <2>3
  <2>6. 1 \in DOMAIN n /\ x.over = o /\ x.done = FALSE
    BY <2>3 DEF x
  <2>7. {2 * n[i].over - 1 : i \in DOMAIN n} = {2 * l[i].over - 1 : i \in DOMAIN l} \cup {e}
    <3> DEFINE A == {2 * n[i].over - 1 : i \in DOMAIN n}
               B == {2 * l[i].over - 1 : i \in DOMAIN l}
    <3>1. 2 * n[1].over - 1 = e
      BY <1>1, <1>3, <2>3, <2>6
    <3>2. \A i \in DOMAIN n : 2 * n[i].over - 1 \in B \cup {e}
      BY <2>4, <3>1
    <3>3. e \in A
      BY <2>6, <3>1
    <3>4. \A i \in DOMAIN l : 2 * l[i].over - 1 \in A
      BY <2>5
    <3> QED
      BY <3>2, <3>3, <3>4
  <2>8. {2 * n[i].over : i \in {j \in DOMAIN n : n[j].done}}
          = {2 * l[i].over : i \in {j \in DOMAIN l : l[j].done}}
    <3> DEFINE A == {2 * n[i].over : i \in {j \in DOMAIN n : n[j].done}}
               B == {2 * l[i].over : i \in {j \in DOMAIN l : l[j].done}}
    <3>1. \A i \in DOMAIN n : n[i].done => 2 * n[i].over \in B
      BY ONLY <2>3, <2>4, <2>6
    <3>2. \A i \in DOMAIN l : l[i].done => 2 * l[i].over \in A
      BY ONLY <2>5
    <3> QED
      BY ONLY <3>1, <3>2
  <2>9. Feed!NewestFirst(n)
    <3>1. ASSUME NEW i \in DOMAIN l PROVE l[i].over < o
      <4>1. 2 * l[i].over - 1 < e
        BY DEF Feed!Shown
      <4> QED
        BY <1>1, <1>2, <1>3, <4>1
    <3>2. ASSUME NEW i \in DOMAIN n, NEW j \in DOMAIN n, i < j
          PROVE  n[i].over > n[j].over
      <4>1. j - 1 \in DOMAIN l /\ n[j] = l[j - 1]
        BY <2>3, <3>2
      <4>2. CASE i = 1
        BY <1>1, <1>2, <2>3, <2>6, <3>1, <4>1, <4>2
      <4>3. CASE i # 1
        <5>1. i - 1 \in DOMAIN l /\ n[i] = l[i - 1] /\ i - 1 < j - 1
          BY <2>3, <2>4, <3>2, <4>3
        <5> QED
          BY <4>1, <5>1 DEF Feed!NewestFirst
      <4> QED
        BY <4>2, <4>3
    <3> QED
      BY <3>2 DEF Feed!NewestFirst
  <2> QED
    BY <1>3, <2>3, <2>7, <2>8, <2>9 DEF Feed!Shown, n
<1>4. CASE IsEnd(e)
  <2> DEFINE found == {i \in DOMAIN l : l[i].over = o}
             m == Min(found)
  <2>1. e - 1 \in Feed!Shown(l) <=> found # {}
    <3>1. \A i \in DOMAIN l : 2 * l[i].over - 1 = e - 1 <=> l[i].over = o
      BY <1>1, <1>2, <1>4
    <3>2. \A i \in DOMAIN l : 2 * l[i].over # e - 1
      BY <1>1, <1>2, <1>4
    <3> QED
      BY <3>1, <3>2 DEF Feed!Shown
  <2>2. n = IF found = {} THEN l ELSE [l EXCEPT ![m].done = TRUE]
    BY <1>4 DEF Listed, o
  <2> HIDE DEF n
  <2>3. CASE found = {}
    BY <1>1, <1>4, <2>1, <2>2, <2>3 DEF n
  <2>4. CASE found # {}
    <3>1. m \in DOMAIN l /\ l[m].over = o
      <4>1. found \in SUBSET Nat
        OBVIOUS
      <4> QED
        BY <2>4, <4>1, Minimum
    <3> HIDE DEF m
    <3> DEFINE x == [l[m] EXCEPT !.done = TRUE]
    <3>2. x \in Entries /\ x.over = o /\ x.done = TRUE
      <4>1. l[m] \in Entries
        BY <3>1
      <4>2. ASSUME NEW y \in [over : Nat, done : BOOLEAN], NEW z,
                   z = [y EXCEPT !.done = TRUE]
            PROVE  z \in [over : Nat, done : BOOLEAN] /\ z.over = y.over /\ z.done = TRUE
        BY <4>2
      <4> QED
        BY <3>1, <4>1, <4>2 DEF Entries
    <3>3. n = [l EXCEPT ![m] = x]
      BY <2>2, <2>4
    <3> HIDE DEF x
    <3>4. /\ n \in Seq(Entries) /\ DOMAIN n = DOMAIN l
          /\ n[m] = x /\ \A i \in DOMAIN l : i # m => n[i] = l[i]
      BY <3>1, <3>2, <3>3
    <3>5. \A i \in DOMAIN l : n[i].over = l[i].over
      BY <3>1, <3>2, <3>4
    <3>6. {2 * n[i].over - 1 : i \in DOMAIN n} = {2 * l[i].over - 1 : i \in DOMAIN l}
      BY <3>4, <3>5
    <3>7. {2 * n[i].over : i \in {j \in DOMAIN n : n[j].done}}
            = {2 * l[i].over : i \in {j \in DOMAIN l : l[j].done}} \cup {e}
      BY <1>1, <1>4, <3>1, <3>2, <3>4
    <3>8. Feed!Shown(n) = Feed!Shown(l) \cup {e}
      BY <3>6, <3>7 DEF Feed!Shown
    <3>9. Feed!NewestFirst(n)
      BY <3>4, <3>5 DEF Feed!NewestFirst
    <3> QED
      BY <1>1, <1>4, <2>1, <2>4, <3>4, <3>8, <3>9 DEF n
  <2> QED
    BY <2>3, <2>4
<1> QED
  BY <1>1, <1>3, <1>4

\* A list after an answer with later events, in order, shows those it may show, the
\* newest over first.
LEMMA FoldShows ==
  ASSUME NEW l \in Seq(Entries), NEW q \in Seq(Stored),
         \A i, j \in DOMAIN q : i < j => q[i] < q[j],
         Feed!NewestFirst(l), \A i \in DOMAIN q : \A x \in Feed!Shown(l) : x < q[i]
  PROVE  LET list == FoldLeft(Listed, l, q)
             new == {q[i] : i \in DOMAIN q}
         IN  /\ list \in Seq(Entries) /\ Feed!NewestFirst(list)
             /\ Feed!Shown(list) = Feed!Shown(l) \cup
                   {e \in new : IsStartOf(e) \/ e - 1 \in Feed!Shown(l) \cup new}
<1>1. PICK F : /\ F[0] = l
               /\ \A i \in 1 .. Len(q) : F[i] = Listed(F[i - 1], q[i])
               /\ FoldLeft(Listed, l, q) = F[Len(q)]
  BY FoldSteps
<1> DEFINE V == Feed!Shown(l)
           R(k) == {q[i] : i \in 1 .. k}
           Shown(k) == V \cup {e \in R(k) : IsStartOf(e) \/ e - 1 \in V \cup R(k)}
           Good(k) == /\ F[k] \in Seq(Entries) /\ Feed!NewestFirst(F[k])
                      /\ Feed!Shown(F[k]) = Shown(k)
           T == {k \in Nat : k <= Len(q) => Good(k)}
<1>2. DOMAIN q = 1 .. Len(q) /\ Len(q) \in Nat /\ \A i \in 1 .. Len(q) : q[i] \in Stored
  OBVIOUS
<1>3. Good(0)
  <2>1. R(0) = {}
    OBVIOUS
  <2>2. Shown(0) = V
    BY <2>1
  <2> QED
    BY <1>1, <2>2
<1>8. \A i \in 1 .. Len(q) : \A x \in V : x < q[i]
  BY <1>2
<1> HIDE DEF V
<1>4. ASSUME NEW k \in Nat, k + 1 <= Len(q), Good(k) PROVE Good(k + 1)
  <2> DEFINE x == q[k + 1]
  <2>1. k + 1 \in 1 .. Len(q) /\ (k + 1) - 1 = k /\ 1 .. (k + 1) = (1 .. k) \cup {k + 1}
    BY <1>2, <1>4
  <2>2. x \in Stored /\ F[k + 1] = Listed(F[k], x)
    BY <1>1, <1>2, <2>1
  <2>3. R(k + 1) = R(k) \cup {x}
    BY <2>1
  <2>4. \A e \in R(k) : e \in Nat /\ e < x
    <3>1. \A i \in 1 .. k : i \in 1 .. Len(q) /\ i < k + 1
      BY <1>2, <2>1
    <3> QED
      BY <1>2, <2>1, <3>1 DEF Stored
  <2>5. x \in Nat /\ x > 0
    BY <2>2 DEF Stored, NULL
  <2>11. \A y \in Shown(k) : y < x
    BY <1>8, <2>1, <2>4
  <2>6. /\ F[k + 1] \in Seq(Entries) /\ Feed!NewestFirst(F[k + 1])
        /\ Feed!Shown(F[k + 1]) =
             Shown(k) \cup (IF IsStartOf(x) \/ x - 1 \in Shown(k) THEN {x} ELSE {})
    <3>1. F[k] \in Seq(Entries) /\ Feed!NewestFirst(F[k]) /\ Feed!Shown(F[k]) = Shown(k)
      BY <1>4
    <3> HIDE DEF x, Shown
    <3> QED
      BY <2>2, <2>11, <3>1, ListedShows
  <2> HIDE DEF x, R
  <2>7. \A e \in R(k) : e - 1 # x
    BY <2>4, <2>5
  <2>8. ~ IsStartOf(x) => \A e \in R(k) : e = x - 1 => IsStartOf(e)
    BY <2>4, <2>5 DEF IsStartOf
  <2>9. x - 1 # x
    BY <2>5
  <2>10. Shown(k + 1) =
             Shown(k) \cup (IF IsStartOf(x) \/ x - 1 \in Shown(k) THEN {x} ELSE {})
    BY <2>3, <2>7, <2>8, <2>9
  <2> QED
    BY <2>6, <2>10
<1> HIDE DEF Good
<1>5. T = Nat
  <2>1. 0 \in T
    BY <1>3
  <2>2. \A k \in T : k + 1 \in T
    BY <1>2, <1>4
  <2> HIDE DEF T
  <2>3. T \in SUBSET Nat
    BY DEF T
  <2> QED
    BY <2>1, <2>2, <2>3, Induction
<1>6. Good(Len(q))
  BY <1>2, <1>5
<1>7. R(Len(q)) = {q[i] : i \in DOMAIN q}
  BY <1>2
<1> QED
  BY <1>1, <1>6, <1>7 DEF Good, V

------------------------------------------------------------------------------
(***************************************************************************)
(* FeedInv is an invariant.                                                *)
(***************************************************************************)

LEMMA Base ==
  ASSUME RingInv
  PROVE  /\ Run \in Nat \ {0} /\ bases[Run] \in Nat /\ Len(log) \in Nat /\ evq_seq \in Nat
         /\ bases[Run] + evq_seq = Len(log) /\ log \in Seq(Stored)
<1>1. RingForm
  BY RingFormOf
<1>2. bases \in Seq(Nat) /\ Len(bases) \in Nat \ {0} /\ bases[Len(bases)] \in Nat
  BY <1>1 DEF RingForm
<1> QED
  BY <1>1, <1>2 DEF RingForm, Run

\* What an answer is like.
LEMMA LegalAnswer ==
  ASSUME NEW x, Legal(x), x.at = "answer"
  PROVE  /\ x \in Answers /\ x.ev \in Seq(Nat)
         /\ x.seq \in Nat /\ x.run \in Int /\ x.pos \in Int
<1>1. x \in Answers
  BY DEF Legal, NoCall, Failed
<1> QED
  BY <1>1 DEF Answers

\* The log gets longer at its end.
Grows == /\ log' \in Seq(Stored) /\ Len(log) <= Len(log')
         /\ \A i \in 1 .. Len(log) : log'[i] = log[i]

\* Nothing happens to page c and its call.
LEMMA PageKept ==
  ASSUME WebInv, FeedInv, Grows, bases' = bases, NEW c \in Clients,
         got'[c] = got[c], ev'[c] = ev[c], seq'[c] = seq[c],
         mode'[c] = "stopped" <=> mode[c] = "stopped",
         mode[c] = "stopped" => call'[c] = NoCall
  PROVE  PageInv(c)'
<1>1. PageInv(c) /\ Run' = Run /\ Len(log') \in Nat
  BY DEF FeedInv, Run, Grows
<1>2. Run \in Nat /\ Len(log) \in Nat /\ Len(log) <= Len(log')
  BY Base DEF Grows, WebInv
<1>3. got[c] \in [run : 0 .. Run, pos : 0 .. Len(log')]
  BY <1>1, <1>2 DEF PageInv
<1>4. Feed!Shown(ev[c]) \subseteq {log'[i] : i \in 1 .. got[c].pos}
  <2>1. got[c].pos \in 0 .. Len(log)
    BY <1>1 DEF PageInv
  <2>2. \A i \in 1 .. got[c].pos : log'[i] = log[i]
    BY <1>2, <2>1 DEF Grows
  <2> QED
    BY <1>1, <2>2 DEF PageInv
<1> QED
  BY <1>1, <1>3, <1>4 DEF PageInv

LEMMA AnswerKept ==
  ASSUME WebInv, FeedInv, Grows, bases' = bases, NEW c \in Clients, got'[c] = got[c],
         NEW x, Legal(x), x.at = "answer", AnswerInv(c, x)
  PROVE  AnswerInv(c, x)'
<1>1. /\ x.ev \in Seq(Nat) /\ Len(x.ev) \in Nat /\ DOMAIN x.ev = 1 .. Len(x.ev)
      /\ x.run \in Int /\ x.pos \in Int
  BY LegalAnswer
<1>2. Run \in Nat /\ Len(log) \in Nat /\ Len(log) <= Len(log') /\ Len(log') \in Nat
  BY Base DEF Grows, WebInv
<1>3. x.run \in 1 .. Run /\ x.pos \in 0 .. Len(log) /\ got[c].pos <= x.pos - Len(x.ev)
  BY DEF AnswerInv, GoesOn
<1>4. got[c].pos \in Nat
  BY <1>2 DEF FeedInv, PageInv
<1>5. \A i \in DOMAIN x.ev : x.pos - Len(x.ev) + i \in 1 .. Len(log)
  BY <1>1, <1>2, <1>3, <1>4
<1>6. x.pos \in 0 .. Len(log')
  BY <1>2, <1>3
<1>7. Run' = Run
  BY DEF Run
<1> QED
  BY <1>3, <1>5, <1>6, <1>7 DEF AnswerInv, GoesOn, Grows

LEMMA NextKept ==
  ASSUME WebInv, FeedInv, Grows, bases' = bases, NEW c \in Clients,
         got'[c] = got[c], seq'[c] = seq[c], call'[c] = call[c]
  PROVE  NextInv(c)'
<1>1. NextInv(c) /\ Legal(call[c]) /\ Run' = Run
  BY DEF FeedInv, Run, WebInv, CallInv
<1>2. CASE call[c].at = "answer"
  <2>1. PICK x : x = call[c]
    OBVIOUS
  <2>2. AnswerInv(c, x) /\ Legal(x) /\ x.at = "answer"
    BY <1>1, <1>2, <2>1 DEF NextInv
  <2>3. AnswerInv(c, x)'
    BY <2>2, AnswerKept
  <2> QED
    BY <1>2, <2>1, <2>3 DEF NextInv, AnswerInv, GoesOn
<1>3. CASE call[c].at # "answer"
  BY <1>1, <1>3 DEF NextInv, GoesOn
<1> QED
  BY <1>2, <1>3

\* An answer that is made goes on where the page is.
LEMMA NewAnswer ==
  ASSUME WebInv, log' \in Seq(Stored), bases' = bases,
         NEW c \in Clients, got'[c] = got[c],
         NEW q \in Seq(Stored), IsEndOf(q, log'),
         NEW last \in Nat, NEW s \in Nat, s < last, bases[Run] + last = Len(log'),
         GoesOn(c, Run, bases[Run] + s), call'[c] = upd_response(q, last, s)
  PROVE  NextInv(c)'
<1> DEFINE e == last_events(q, last - s)
           n == last - s
<1>1. PICK x : x = upd_response(q, last, s)
  OBVIOUS
<1>2. /\ x.at = "answer" /\ x.seq = last /\ x.run = Run /\ x.pos = bases[Run] + last
      /\ x.ev = e
  BY <1>1 DEF upd_response
<1>3. n \in Nat /\ DOMAIN e = 1 .. n /\ e \in Seq(Nat) /\ Len(e) = n
  <2>1. n \in Nat
    OBVIOUS
  <2>2. e = [i \in 1 .. n |-> e[i]]
    BY DEF last_events
  <2>3. ASSUME NEW i \in 1 .. n PROVE e[i] \in Nat
    <3> DEFINE k == Len(q) - n + i
    <3>1. e[i] = IF k \in DOMAIN q THEN q[k] ELSE 0
      BY DEF last_events, NULL
    <3>2. k \in DOMAIN q => q[k] \in Nat
      BY DEF Stored
    <3> HIDE DEF k, e
    <3> QED
      BY <3>1, <3>2
  <2> HIDE DEF e, n
  <2> QED
    BY <2>1, <2>2, <2>3
<1>4. /\ Run \in Nat \ {0} /\ bases[Run] \in Nat /\ Len(log') \in Nat /\ Run' = Run
      /\ Len(q) \in Nat
  BY Base DEF WebInv, Run
<1>5. ASSUME \A i \in DOMAIN e : e[i] # NULL, NEW i \in DOMAIN e
      PROVE  e[i] = log'[Len(log') - n + i]
  <2>1. Len(q) - n + i \in DOMAIN q /\ e[i] = q[Len(q) - n + i]
    BY <1>5 DEF last_events
  <2>2. /\ i \in Int /\ n \in Int /\ Len(q) \in Nat /\ Len(log') \in Nat
        /\ DOMAIN q = 1 .. Len(q)
    <3>1. n \in Nat /\ i \in 1 .. n
      BY <1>3, <1>5
    <3> HIDE DEF n
    <3> QED
      BY <1>4, <3>1
  <2> HIDE DEF n, e
  <2>3. Len(log') - Len(q) + (Len(q) - n + i) = Len(log') - n + i
    BY ONLY <2>2
  <2> QED
    BY <2>1, <2>2, <2>3 DEF IsEndOf
<1> HIDE DEF e
<1>6. x.pos - Len(x.ev) = bases[Run] + s /\ x.pos = Len(log') /\ Len(x.ev) = n
  BY <1>2, <1>3, <1>4
<1>7. GoesOn(c, x.run, x.pos - Len(x.ev))'
  BY <1>2, <1>6 DEF GoesOn
<1>8. AnswerInv(c, x)'
  <2>1. x.run \in 1 .. Run /\ x.pos \in 0 .. Len(log') /\ x.seq > 0
    BY <1>2, <1>4, <1>6
  <2>2. \/ \E i \in DOMAIN x.ev : x.ev[i] = NULL
        \/ \A i \in DOMAIN x.ev : x.ev[i] = log'[x.pos - Len(x.ev) + i]
    BY <1>2, <1>5, <1>6
  <2> QED
    BY <1>2, <1>4, <1>7, <2>1, <2>2 DEF AnswerInv
<1> QED
  BY <1>1, <1>2, <1>8 DEF NextInv

\* An answer that is not too late is a piece of the log.
LEMMA AnswerIsPiece ==
  ASSUME WebInv, FeedInv, NEW c \in Clients, call[c].at = "answer",
         ~ \E i \in DOMAIN call[c].ev : call[c].ev[i] = NULL
  PROVE  LET x == call[c]
             from == x.pos - Len(x.ev)
         IN  /\ x.ev \in Seq(Stored)
             /\ \A i, j \in DOMAIN x.ev : i < j => x.ev[i] < x.ev[j]
             /\ {x.ev[i] : i \in DOMAIN x.ev} = {log[i] : i \in from + 1 .. x.pos}
             /\ from \in 0 .. x.pos /\ x.pos \in 0 .. Len(log)
             /\ x.run \in 1 .. Run /\ GoesOn(c, x.run, from)
             /\ x.run # Run => x.pos <= bases[Run]
             /\ x.run = Run => x.seq > 0 /\ x.pos = bases[Run] + x.seq
<1>1. PICK x : x = call[c]
  OBVIOUS
<1>2. Legal(x) /\ x.at = "answer" /\ AnswerInv(c, x) /\ LogInv /\ PageInv(c)
  BY <1>1 DEF WebInv, CallInv, FeedInv, NextInv
<1>3. /\ x.ev \in Seq(Nat) /\ x.seq \in Nat /\ x.run \in Int /\ x.pos \in Int
  BY <1>2, LegalAnswer
<1> DEFINE n == Len(x.ev)
           from == x.pos - n
<1>4. n \in Nat /\ DOMAIN x.ev = 1 .. n
  BY <1>3
<1>5. \A i \in DOMAIN x.ev : x.ev[i] \in Nat /\ x.ev[i] # NULL
  BY <1>1, <1>3
<1>6. x.ev \in Seq(Stored)
  BY <1>3, <1>4, <1>5 DEF Stored
<1>7. x.pos \in 0 .. Len(log) /\ x.run \in 1 .. Run /\ GoesOn(c, x.run, from)
  BY <1>2 DEF AnswerInv
<1>8. Run \in Nat \ {0} /\ bases[Run] \in Nat /\ Len(log) \in Nat /\ log \in Seq(Stored)
  BY Base DEF WebInv
<1>9. got[c].pos \in 0 .. Len(log)
  BY <1>2 DEF PageInv
<1>10. from \in 0 .. x.pos
  BY <1>3, <1>4, <1>7, <1>8, <1>9 DEF GoesOn
<1>11. \A i \in DOMAIN x.ev : x.ev[i] = log[from + i]
  BY <1>2, <1>5 DEF AnswerInv
<1> HIDE DEF n
<1>12. ASSUME NEW i \in 1 .. n
       PROVE  from + i \in 1 .. Len(log) /\ from + i \in from + 1 .. x.pos
  <2>1. from \in Nat /\ x.pos \in Int /\ n \in Int /\ x.pos = from + n
    BY <1>3, <1>4, <1>10
  <2> HIDE DEF from
  <2>2. i \in Int /\ 1 <= i /\ i <= n
    BY <2>1
  <2>3. x.pos <= Len(log) /\ Len(log) \in Nat
    BY <1>7, <1>8
  <2> QED
    BY ONLY <2>1, <2>2, <2>3
<1>13. ASSUME NEW k \in from + 1 .. x.pos
       PROVE  k - from \in 1 .. n /\ from + (k - from) = k
  <2>1. from \in Int /\ x.pos \in Int /\ n \in Int /\ x.pos = from + n
    BY <1>3, <1>4
  <2> HIDE DEF from
  <2>2. k \in Int /\ from + 1 <= k /\ k <= x.pos
    BY <2>1
  <2> QED
    BY ONLY <2>1, <2>2
<1>14. \A i, j \in 1 .. n : i < j => from + i < from + j
  BY <1>3, <1>4
<1> HIDE DEF from
<1>15. \A i, j \in DOMAIN x.ev : i < j => x.ev[i] < x.ev[j]
  <2>1. \A i, j \in 1 .. Len(log) : i < j => log[i] < log[j]
    BY <1>2, <1>8 DEF LogInv
  <2> QED
    BY <1>4, <1>11, <1>12, <1>14, <2>1
<1>16. {x.ev[i] : i \in DOMAIN x.ev} = {log[i] : i \in from + 1 .. x.pos}
  <2>1. \A i \in DOMAIN x.ev : x.ev[i] \in {log[k] : k \in from + 1 .. x.pos}
    BY <1>4, <1>11, <1>12
  <2>2. \A k \in from + 1 .. x.pos : log[k] \in {x.ev[i] : i \in DOMAIN x.ev}
    BY <1>4, <1>11, <1>13
  <2> QED
    BY <2>1, <2>2
<1> QED
  BY <1>1, <1>2, <1>6, <1>7, <1>10, <1>15, <1>16 DEF AnswerInv, from, n

LEMMA LogGrows ==
  ASSUME RingInv, LogInv, NEW n \in Nat, NEW good \in 0 .. n, sent' = sent + n,
         log' = log \o SubSeq([i \in 1 .. n |-> sent + i], 1, good)
  PROVE  Grows /\ LogInv' /\ SubSeq(log', 1, Len(log)) = log
<1> DEFINE stored == SubSeq([i \in 1 .. n |-> sent + i], 1, good)
<1>1. RingForm
  BY RingFormOf
<1>2. /\ log \in Seq(Stored) /\ Len(log) \in Nat /\ sent \in Nat /\ n \in Nat /\ good \in Nat
      /\ good <= n
  BY <1>1 DEF RingForm
<1>3. /\ stored \in Seq(Stored) /\ Len(stored) = good
      /\ log \o stored \in Seq(Stored) /\ Len(log \o stored) = Len(log) + good
  BY <1>1, Batch
<1>4. \A i \in 1 .. good : stored[i] = sent + i
  <2> DEFINE batch == [i \in 1 .. n |-> sent + i]
  <2>1. \A i \in 1 .. n : batch[i] = sent + i
    OBVIOUS
  <2>2. batch \in Seq(Nat) /\ Len(batch) = n
    BY <1>2
  <2> HIDE DEF batch
  <2>3. \A i \in 1 .. good : SubSeq(batch, 1, good)[i] = batch[i]
    BY <1>2, <2>2
  <2> QED
    BY <1>2, <2>1, <2>3 DEF batch
<1> HIDE DEF stored
<1>5. log' = log \o stored
  BY DEF stored
<1>6. /\ log' \in Seq(Stored) /\ Len(log') = Len(log) + good
      /\ \A i \in 1 .. Len(log) : log'[i] = log[i]
      /\ \A i \in 1 .. good : log'[Len(log) + i] = stored[i]
  BY ONLY <1>2, <1>3, <1>5, Concatenated
<1>7. Grows
  <2>1. log' \in Seq(Stored) /\ \A i \in 1 .. Len(log) : log'[i] = log[i]
    BY <1>6
  <2>2. Len(log') = Len(log) + good
    BY <1>6
  <2>3. Len(log) <= Len(log')
    BY ONLY <1>2, <2>2
  <2> QED
    BY <2>1, <2>3 DEF Grows
<1>8. SubSeq(log', 1, Len(log)) = log
  BY <1>2, <1>3, <1>5
<1>9. /\ \A i \in 1 .. Len(log) : log'[i] = log[i] /\ log'[i] \in Nat /\ log'[i] <= sent
      /\ \A i, j \in 1 .. Len(log) : i < j => log[i] < log[j]
  BY <1>2, <1>6 DEF LogInv, Stored
<1>10. ASSUME NEW i \in 1 .. Len(log'), ~ (i \in 1 .. Len(log))
       PROVE  log'[i] = sent + (i - Len(log)) /\ i - Len(log) \in 1 .. good
  <2>1. i - Len(log) \in 1 .. good /\ Len(log) + (i - Len(log)) = i
    BY <1>2, <1>6, <1>10
  <2> QED
    BY <1>4, <1>6, <2>1
<1>11. DOMAIN log' = 1 .. Len(log')
  BY <1>6
<1>12. ASSUME NEW i \in 1 .. Len(log') PROVE log'[i] <= sent'
  <2>1. CASE i \in 1 .. Len(log)
    BY <1>2, <1>9, <2>1
  <2>2. CASE ~ (i \in 1 .. Len(log))
    BY <1>2, <1>10, <2>2
  <2> QED
    BY <2>1, <2>2
<1>13. ASSUME NEW i \in 1 .. Len(log'), NEW j \in 1 .. Len(log'), i < j
       PROVE  log'[i] < log'[j]
  <2>1. CASE j \in 1 .. Len(log)
    <3>1. i \in 1 .. Len(log)
      BY <1>2, <1>6, <1>13, <2>1
    <3> QED
      BY <1>9, <1>13, <2>1, <3>1
  <2>2. CASE ~ (j \in 1 .. Len(log)) /\ i \in 1 .. Len(log)
    <3>1. log'[i] \in Nat /\ log'[i] <= sent
      BY <1>9, <2>2
    <3>2. log'[j] = sent + (j - Len(log)) /\ j - Len(log) \in 1 .. good
      BY <1>10, <2>2
    <3> QED
      BY <1>2, <3>1, <3>2
  <2>3. CASE ~ (j \in 1 .. Len(log)) /\ ~ (i \in 1 .. Len(log))
    <3>1. /\ log'[i] = sent + (i - Len(log)) /\ i - Len(log) \in 1 .. good
          /\ log'[j] = sent + (j - Len(log))
      BY <1>10, <2>3
    <3> QED
      BY <1>2, <1>6, <1>13, <3>1
  <2> QED
    BY <2>1, <2>2, <2>3
<1>14. LogInv'
  BY <1>11, <1>12, <1>13 DEF LogInv
<1> QED
  BY <1>7, <1>8, <1>14

\* The exporter posts events.
LEMMA FeedPush ==
  ASSUME WebInv, FeedInv, Push
  PROVE  FeedInv' /\ Grows /\ SubSeq(log', 1, Len(log)) = log /\ bases' = bases
<1>1. PICK n \in 1 .. BatchLimit, good \in 0 .. BatchLimit :
             /\ good <= n /\ sent' = sent + n
             /\ handle_push([i \in 1 .. n |-> sent + i], good)
             /\ UNCHANGED page
  BY DEF Push
<1> DEFINE stored == SubSeq([i \in 1 .. n |-> sent + i], 1, good)
           q == evq \o stored
           last == evq_seq + good
           kept == SubSeq(q, Max({1, Len(q) - RING + 1}), Len(q))
<1>2. /\ n \in Nat /\ good \in 0 .. n /\ n > 0
      /\ Len([i \in 1 .. n |-> sent + i]) = n
  BY <1>1
<1>3. /\ log' = log \o stored /\ bases' = bases
      /\ \/ Notify(q, last) /\ good = n
         \/ call' = call
      /\ UNCHANGED <<seq, ev, mode, got>>
  BY <1>1, <1>2 DEF handle_push, page
<1>4. RingForm /\ RingInv /\ LogInv
  BY RingFormOf DEF WebInv, FeedInv
<1>5. Grows /\ LogInv' /\ SubSeq(log', 1, Len(log)) = log
  BY <1>1, <1>2, <1>3, <1>4, LogGrows
<1>6. /\ q \in Seq(Stored) /\ IsEndOf(q, log') /\ log' \in Seq(Stored)
      /\ Len(log') = Len(log) + good
  BY <1>2, <1>3, <1>4, Batch
<1>7. kept \in Seq(Stored) /\ IsEndOf(kept, log')
  BY <1>6, Kept
<1>8. /\ evq_seq \in Nat /\ last \in Nat /\ Run' = Run
      /\ bases[Run] + last = Len(log')
  <2>1. /\ evq_seq \in Nat /\ bases[Run] \in Nat /\ Len(log) \in Nat
        /\ bases[Run] + evq_seq = Len(log)
    BY <1>4, Base
  <2>2. Len(log') = Len(log) + good /\ good \in Nat
    BY <1>2, <1>6
  <2>3. last \in Nat /\ bases[Run] + last = Len(log')
    BY ONLY <2>1, <2>2
  <2> QED
    BY <1>3, <2>1, <2>3 DEF Run
<1> HIDE DEF stored, q, kept
<1>9. ASSUME NEW c \in Clients PROVE PageInv(c)' /\ NextInv(c)'
  <2>1. CASE call'[c] = call[c]
    <3>1. mode[c] = "stopped" => call[c] = NoCall
      BY DEF FeedInv, PageInv
    <3> QED
      BY <1>3, <1>5, <2>1, <3>1, PageKept, NextKept
  <2>2. CASE call'[c] # call[c]
    <3>1. Notify(q, last) /\ good = n /\ call[c].at = "longpoll"
          /\ call'[c] = upd_response(kept, last, call[c].seq)
      BY <1>3, <2>2 DEF Notify, kept
    <3>2. call[c].seq \in 0 .. evq_seq
      BY <3>1 DEF WebInv, CallInv, Legal, NoCall, Failed, Answers
    <3>3. call[c].seq \in Nat /\ call[c].seq < last
      BY <1>2, <1>8, <3>1, <3>2
    <3>4. GoesOn(c, Run, bases[Run] + call[c].seq) /\ mode[c] # "stopped"
      BY <3>1 DEF FeedInv, NextInv, PageInv, NoCall
    <3> HIDE DEF last
    <3>5. NextInv(c)'
      BY <1>3, <1>6, <1>7, <1>8, <3>1, <3>3, <3>4, NewAnswer
    <3> QED
      BY <1>3, <1>5, <3>4, <3>5, PageKept
  <2> QED
    BY <2>1, <2>2
<1>10. DOMAIN got' = Clients
  BY <1>3 DEF FeedInv
<1> QED
  BY <1>3, <1>5, <1>9, <1>10 DEF FeedInv

\* Something happens to one page.
LEMMA FeedOne ==
  ASSUME WebInv, FeedInv, UNCHANGED server, sent' = sent, DOMAIN got' = Clients,
         NEW c \in Clients,
         \A d \in Clients \ {c} : /\ got'[d] = got[d] /\ ev'[d] = ev[d] /\ seq'[d] = seq[d]
                                  /\ mode'[d] = mode[d] /\ call'[d] = call[d],
         PageInv(c)', NextInv(c)'
  PROVE  FeedInv'
<1>1. log' = log /\ bases' = bases /\ LogInv
  BY DEF server, FeedInv
<1>2. Grows
  BY <1>1, Base DEF Grows, WebInv
<1>3. LogInv'
  BY <1>1 DEF LogInv
<1>4. ASSUME NEW d \in Clients \ {c} PROVE PageInv(d)' /\ NextInv(d)'
  <2>1. mode[d] = "stopped" => call[d] = NoCall
    BY DEF FeedInv, PageInv
  <2>2. d \in Clients
    OBVIOUS
  <2>3. PageInv(d)'
    BY <1>1, <1>2, <2>1, <2>2, PageKept
  <2>4. NextInv(d)'
    BY <1>1, <1>2, <2>2, NextKept
  <2> QED
    BY <2>3, <2>4
<1> QED
  BY <1>3, <1>4 DEF FeedInv

\* The server reads a poll.
LEMMA FeedUpd ==
  ASSUME WebInv, FeedInv, NEW c \in Clients, handle_upd(c), UNCHANGED <<sent, page>>
  PROVE  FeedInv'
<1> DEFINE asked == call[c].seq
<1>0. PICK s : s = StartSeq(asked)
  OBVIOUS
<1>1. /\ call[c].at = "request" /\ UNCHANGED server /\ UNCHANGED <<sent, seq, ev, mode, got>>
      /\ call' = [call EXCEPT ![c] = IF s = evq_seq THEN [at |-> "longpoll", seq |-> s]
                                     ELSE upd_response(evq, evq_seq, s)]
  BY <1>0 DEF handle_upd, page
<1>2. PageInv(c) /\ NextInv(c) /\ CallInv /\ RingInv /\ DOMAIN call = Clients
  BY DEF FeedInv, WebInv, CallInv
<1>3. asked \in Nat /\ asked = seq[c]
  BY <1>1, <1>2 DEF CallInv, Legal, NoCall, Failed, Answers, NextInv
<1>4. RingForm /\ RING \in Nat \ {0}
  BY RingFormOf, RINGAssumption DEF RINGAssumption, WebInv
<1>5. /\ evq_seq \in Nat /\ evq \in Seq(Stored) /\ Len(evq) \in Nat /\ Len(evq) <= evq_seq
      /\ log \in Seq(Stored) /\ IsEndOf(evq, log)
  BY <1>4 DEF RingForm
<1>6. s = IF asked # 0 /\ asked <= evq_seq THEN asked
          ELSE evq_seq - (IF RING <= Len(evq) THEN RING ELSE Len(evq))
  <2>1. RING \in Int /\ Len(evq) \in Int
    BY <1>4, <1>5
  <2>2. Min({RING, Len(evq)}) = IF RING <= Len(evq) THEN RING ELSE Len(evq)
    BY ONLY <2>1, OfTwo
  <2> QED
    BY <1>0, <2>2 DEF StartSeq, evq_len
<1>7. /\ Run \in Nat \ {0} /\ bases[Run] \in Nat /\ Len(log) \in Nat
      /\ bases[Run] + evq_seq = Len(log)
  BY <1>2, Base
<1>8. s \in Nat /\ s <= evq_seq
  BY <1>3, <1>4, <1>5, <1>6
<1>9. GoesOn(c, Run, bases[Run] + s)
  <2>1. got[c].run \in 0 .. Run /\ got[c].pos \in 0 .. Len(log)
    BY <1>2 DEF PageInv
  <2>2. CASE got[c].run = Run
    <3>1. mode[c] # "stopped"
      BY <1>1, <1>2 DEF PageInv, NoCall
    <3>2. seq[c] > 0 /\ got[c].pos = bases[Run] + seq[c]
      BY <1>2, <2>2, <3>1 DEF PageInv
    <3>3. asked # 0 /\ asked <= evq_seq
      BY <1>3, <1>5, <1>7, <2>1, <3>2
    <3> QED
      BY <1>3, <1>6, <1>7, <2>1, <2>2, <3>2, <3>3 DEF GoesOn
  <2>3. CASE got[c].run # Run
    <3>1. got[c].pos <= bases[Run]
      BY <1>2, <2>3 DEF PageInv
    <3> QED
      BY <1>7, <1>8, <2>1, <2>3, <3>1 DEF GoesOn
  <2> QED
    BY <2>2, <2>3
<1>10. log' = log /\ bases' = bases /\ Run' = Run
  BY <1>1 DEF server, Run
<1>11. NextInv(c)'
  <2>1. CASE s = evq_seq
    <3>1. call'[c] = [at |-> "longpoll", seq |-> s]
      BY <1>1, <1>2, <2>1
    <3>2. GoesOn(c, Run, bases[Run] + s)'
      BY <1>1, <1>9, <1>10 DEF GoesOn
    <3> QED
      BY <1>10, <3>1, <3>2 DEF NextInv, GoesOn
  <2>2. CASE s # evq_seq
    <3>1. call'[c] = upd_response(evq, evq_seq, s) /\ s < evq_seq
      BY <1>1, <1>2, <1>5, <1>8, <2>2
    <3> QED
      BY <1>1, <1>5, <1>7, <1>8, <1>9, <1>10, <3>1, NewAnswer
  <2> QED
    BY <2>1, <2>2
<1>12. PageInv(c)'
  <2>1. mode[c] # "stopped"
    BY <1>1, <1>2 DEF PageInv, NoCall
  <2>2. Grows
    BY <1>5, <1>7, <1>10 DEF Grows
  <2> QED
    BY <1>1, <1>10, <2>1, <2>2, PageKept
<1>13. \A d \in Clients \ {c} : call'[d] = call[d]
  BY <1>1, <1>2
<1>14. DOMAIN got' = Clients
  BY <1>1 DEF FeedInv
<1> QED
  BY <1>1, <1>11, <1>12, <1>13, <1>14, FeedOne

\* The server starts again: no page is in the new part of the log.
LEMMA FeedRestart ==
  ASSUME WebInv, FeedInv, Restart, UNCHANGED <<sent, page>>
  PROVE  FeedInv'
<1>1. /\ log' = log /\ bases' = Append(bases, Len(log))
      /\ UNCHANGED <<sent, seq, ev, mode, got>>
      /\ call' = [c \in Clients |-> IF call[c].at \in {"request", "longpoll"}
                                    THEN Failed ELSE call[c]]
  BY DEF Restart, page
<1>2. bases \in Seq(Nat) /\ Len(bases) \in Nat /\ Len(log) \in Nat
  BY RingFormOf DEF RingForm, WebInv
<1>3. Run' = Run + 1 /\ bases'[Run'] = Len(log) /\ Run \in Nat \ {0}
  <2>1. Len(bases') = Len(bases) + 1 /\ bases'[Len(bases) + 1] = Len(log)
    BY <1>1, <1>2
  <2> QED
    BY <2>1, Base DEF Run, WebInv
<1>4. LogInv' /\ DOMAIN got' = Clients
  BY <1>1 DEF FeedInv, LogInv
<1>5. ASSUME NEW c \in Clients PROVE PageInv(c)' /\ NextInv(c)'
  <2>1. PageInv(c) /\ NextInv(c) /\ Legal(call[c])
    BY DEF FeedInv, WebInv, CallInv
  <2>2. got[c] \in [run : 0 .. Run, pos : 0 .. Len(log)]
    BY <2>1 DEF PageInv
  <2>3. /\ got[c] \in [run : 0 .. Run', pos : 0 .. Len(log)]
        /\ got[c].run # Run' /\ got[c].pos <= Len(log)
    BY <1>2, <1>3, <2>2
  <2>4. mode[c] = "stopped" => call'[c] = NoCall
    BY <1>1, <2>1 DEF PageInv, NoCall
  <2>5. PageInv(c)'
    BY <1>1, <1>3, <2>1, <2>3, <2>4 DEF PageInv
  <2>6. CASE call[c].at = "answer"
    <3>1. PICK x : x = call[c]
      OBVIOUS
    <3>2. call'[c] = x /\ AnswerInv(c, x) /\ x.run \in Int /\ x.pos \in Int
      BY <1>1, <2>1, <2>6, <3>1, LegalAnswer DEF NextInv
    <3>3. x.run \in 1 .. Run' /\ x.run # Run' /\ x.pos <= Len(log)
      BY <1>2, <1>3, <3>2 DEF AnswerInv
    <3>4. AnswerInv(c, x)'
      BY <1>1, <1>3, <3>2, <3>3 DEF AnswerInv, GoesOn
    <3> QED
      BY <2>5, <2>6, <3>1, <3>2, <3>4 DEF NextInv, AnswerInv, GoesOn
  <2>7. CASE call[c].at # "answer"
    <3>1. call'[c] \in {NoCall, Failed}
      BY <1>1, <2>1, <2>7 DEF Legal, Answers
    <3> QED
      BY <2>5, <3>1 DEF NextInv, NoCall, Failed
  <2> QED
    BY <2>6, <2>7
<1> QED
  BY <1>4, <1>5 DEF FeedInv

\* What a page shows once it has dealt with an answer.
LEMMA ShownAfter ==
  ASSUME WebInv, FeedInv, NEW c \in Clients, call[c].at = "answer",
         ~ \E i \in DOMAIN call[c].ev : call[c].ev[i] = NULL
  PROVE  LET x == call[c]
             list == FoldLeft(Listed, ev[c], x.ev)
             new == {log[i] : i \in x.pos - Len(x.ev) + 1 .. x.pos}
             old == Feed!Shown(ev[c])
         IN  /\ list \in Seq(Entries) /\ Feed!NewestFirst(list)
             /\ Feed!Shown(list) =
                  old \cup {e \in new : IsStartOf(e) \/ e - 1 \in old \cup new}
             /\ Feed!Shown(list) \subseteq {log[i] : i \in 1 .. x.pos}
<1> DEFINE from == call[c].pos - Len(call[c].ev)
           to == call[c].pos
           q == call[c].ev
           given == {q[i] : i \in DOMAIN q}
           new == {log[i] : i \in from + 1 .. to}
           old == Feed!Shown(ev[c])
           list == FoldLeft(Listed, ev[c], q)
<1>1. /\ q \in Seq(Stored) /\ \A i, j \in DOMAIN q : i < j => q[i] < q[j]
      /\ given = new
      /\ from \in 0 .. to /\ to \in 0 .. Len(log) /\ got[c].pos <= from
  BY AnswerIsPiece DEF GoesOn
<1>2. /\ ev[c] \in Seq(Entries) /\ Feed!NewestFirst(ev[c])
      /\ old \subseteq {log[i] : i \in 1 .. got[c].pos}
      /\ got[c].pos \in 0 .. Len(log)
      /\ \A i, j \in DOMAIN log : i < j => log[i] < log[j]
  BY DEF FeedInv, PageInv, LogInv
<1>3. Len(log) \in Nat /\ DOMAIN log = 1 .. Len(log)
  BY Base DEF WebInv
<1> HIDE DEF from, to, q, old
<1>4. ASSUME NEW i \in 1 .. got[c].pos, NEW j \in from + 1 .. to
      PROVE  i \in DOMAIN log /\ j \in DOMAIN log /\ i < j /\ i \in 1 .. to
  BY <1>1, <1>2, <1>3, <1>4
<1>5. \A i \in DOMAIN q : \A x \in old : x < q[i]
  <2>1. \A x \in old : \A y \in new : x < y
    BY <1>2, <1>4
  <2> QED
    BY <1>1, <2>1
<1>6. /\ list \in Seq(Entries) /\ Feed!NewestFirst(list)
      /\ Feed!Shown(list) =
           old \cup {e \in given : IsStartOf(e) \/ e - 1 \in old \cup given}
  BY <1>1, <1>2, <1>5, FoldShows DEF old
<1> HIDE DEF given, list
<1>7. old \subseteq {log[i] : i \in 1 .. to}
  <2>1. \A i \in 1 .. got[c].pos : i \in 1 .. to
    BY <1>1, <1>2, <1>3
  <2> QED
    BY <1>2, <2>1
<1>8. new \subseteq {log[i] : i \in 1 .. to}
  <2>1. \A i \in from + 1 .. to : i \in 1 .. to
    BY <1>1, <1>3
  <2> QED
    BY <2>1
<1>9. Feed!Shown(list) \subseteq {log[i] : i \in 1 .. to}
  <2>1. Feed!Shown(list) \subseteq old \cup given
    BY <1>6
  <2> QED
    BY <1>1, <1>7, <1>8, <2>1
<1>10. Feed!Shown(list) = old \cup {e \in new : IsStartOf(e) \/ e - 1 \in old \cup new}
  BY <1>1, <1>6
<1> QED
  BY <1>6, <1>9, <1>10 DEF list, old, new, from, to, q

\* A page shows an answer, or stops because of one.
LEMMA FeedSuccess ==
  ASSUME WebInv, FeedInv, NEW c \in Clients, Success(c)
  PROVE  FeedInv'
<1> DEFINE x == call[c]
           late == \E i \in DOMAIN x.ev : x.ev[i] = NULL
           list == FoldLeft(Listed, ev[c], x.ev)
<1>1. /\ x.at = "answer" /\ UNCHANGED <<server, sent>>
      /\ call' = [call EXCEPT ![c] = NoCall]
      /\ seq' = [seq EXCEPT ![c] = x.seq]
      /\ late => UNCHANGED <<ev, got>> /\ mode' = [mode EXCEPT ![c] = "stopped"]
      /\ ~ late => /\ ev' = [ev EXCEPT ![c] = list]
                   /\ got' = [got EXCEPT ![c] = [run |-> x.run, pos |-> x.pos]]
      /\ mode' \in {mode, [mode EXCEPT ![c] = "stopped"]}
  BY DEF Success
<1>2. /\ DOMAIN got = Clients /\ DOMAIN ev = Clients /\ DOMAIN mode = Clients
      /\ DOMAIN call = Clients /\ DOMAIN seq = Clients
      /\ PageInv(c)
  BY DEF FeedInv, WebInv, CallInv
<1>3. log' = log /\ bases' = bases /\ Run' = Run
  BY <1>1 DEF server, Run
<1> HIDE DEF list
<1>4. /\ DOMAIN got' = Clients /\ call'[c] = NoCall /\ seq'[c] = x.seq
      /\ \A d \in Clients \ {c} : /\ got'[d] = got[d] /\ ev'[d] = ev[d] /\ seq'[d] = seq[d]
                                  /\ mode'[d] = mode[d] /\ call'[d] = call[d]
  BY <1>1, <1>2
<1>5. NextInv(c)'
  BY <1>4 DEF NextInv, NoCall
<1>6. CASE late
  <2>1. mode'[c] = "stopped" /\ got'[c] = got[c] /\ ev'[c] = ev[c]
    BY <1>1, <1>2, <1>6
  <2>2. PageInv(c)'
    BY <1>2, <1>3, <1>4, <2>1 DEF PageInv
  <2> QED
    BY <1>1, <1>4, <1>5, <2>2, FeedOne
<1>7. CASE ~ late
  <2>1. got'[c] = [run |-> x.run, pos |-> x.pos] /\ ev'[c] = list
    BY <1>1, <1>2, <1>7
  <2>2. /\ x.ev \in Seq(Stored) /\ \A i, j \in DOMAIN x.ev : i < j => x.ev[i] < x.ev[j]
        /\ x.pos \in 0 .. Len(log) /\ x.run \in 1 .. Run
        /\ x.run # Run => x.pos <= bases[Run]
        /\ x.run = Run => x.seq > 0 /\ x.pos = bases[Run] + x.seq
    BY <1>1, <1>7, AnswerIsPiece
  <2>3. /\ list \in Seq(Entries) /\ Feed!NewestFirst(list)
        /\ Feed!Shown(list) \subseteq {log[i] : i \in 1 .. x.pos}
    BY <1>1, <1>7, ShownAfter DEF list
  <2>4. Run \in Nat \ {0}
    BY Base DEF WebInv
  <2>5. got'[c] \in [run : 0 .. Run, pos : 0 .. Len(log)]
    BY <2>1, <2>2, <2>4
  <2> HIDE DEF x
  <2>6. PageInv(c)'
    BY <1>3, <1>4, <2>1, <2>2, <2>3, <2>5 DEF PageInv
  <2> QED
    BY <1>1, <1>4, <1>5, <2>6, FeedOne
<1> QED
  BY <1>6, <1>7

LEMMA NothingShown == /\ <<>> \in Seq(Entries) /\ Feed!NewestFirst(<<>>)
                      /\ Feed!Shown(<<>>) = {}
  BY DEF Feed!NewestFirst, Feed!Shown

LEMMA FeedStep == ASSUME WebInv, FeedInv, [Next]_vars PROVE FeedInv'
<1>1. /\ DOMAIN got = Clients /\ DOMAIN ev = Clients /\ DOMAIN mode = Clients
      /\ DOMAIN call = Clients /\ DOMAIN seq = Clients
  BY DEF FeedInv, WebInv, CallInv
<1>2. log' = log /\ bases' = bases => Grows
  BY Base DEF Grows, WebInv
<1>3. ASSUME NEW c \in Clients, UNCHANGED <<server, sent, seq, ev, got>>,
             \A d \in Clients : d # c => mode'[d] = mode[d] /\ call'[d] = call[d],
             mode'[c] = "stopped" <=> mode[c] = "stopped",
             mode[c] = "stopped" => call'[c] = NoCall,
             NextInv(c)'
      PROVE  FeedInv'
  <2>1. PageInv(c)'
    BY <1>2, <1>3, PageKept DEF server
  <2> QED
    BY <1>1, <1>3, <2>1, FeedOne
<1>4. ASSUME NEW c \in Clients, ajax_update(c) PROVE FeedInv'
  <2>1. /\ call' = [call EXCEPT ![c] = [at |-> "request", seq |-> seq[c]]]
        /\ UNCHANGED <<server, sent, seq, ev, mode, got>> /\ mode[c] # "stopped"
    BY <1>4 DEF ajax_update, page
  <2>2. NextInv(c)'
    BY <1>1, <2>1 DEF NextInv
  <2> QED
    BY <1>1, <1>3, <2>1, <2>2
<1>5. ASSUME NEW c \in Clients, Error(c) \/ (Lose(c) /\ UNCHANGED <<sent, page>>)
      PROVE  FeedInv'
  <2>1. /\ call'[c] \in {NoCall, Failed} /\ call[c].at # "none"
        /\ \A d \in Clients : d # c => call'[d] = call[d]
        /\ UNCHANGED <<server, sent, seq, ev, mode, got>>
    BY <1>1, <1>5 DEF Error, Lose, page
  <2>2. NextInv(c)'
    BY <2>1 DEF NextInv, NoCall, Failed
  <2>3. mode[c] # "stopped"
    BY <2>1 DEF FeedInv, PageInv, NoCall
  <2> QED
    BY <1>1, <1>3, <2>1, <2>2, <2>3
<1>6. ASSUME NEW c \in Clients, activate(c) PROVE FeedInv'
  <2>1. /\ mode[c] # "stopped" /\ mode'[c] # "stopped"
        /\ \A d \in Clients : d # c => mode'[d] = mode[d]
        /\ UNCHANGED <<server, sent, seq, ev, got, call>>
    BY <1>1, <1>6 DEF activate
  <2>2. NextInv(c)'
    BY <1>2, <2>1, NextKept DEF server
  <2>3. PageInv(c)'
    BY <1>2, <2>1, PageKept DEF server
  <2> QED
    BY <1>1, <2>1, <2>2, <2>3, FeedOne
<1>7. ASSUME NEW c \in Clients, Reload(c) PROVE FeedInv'
  <2>1. /\ got'[c] = Nothing /\ ev'[c] = <<>> /\ mode'[c] = "Live" /\ call'[c] = NoCall
        /\ UNCHANGED <<server, sent>> /\ DOMAIN got' = Clients
        /\ \A d \in Clients \ {c} : /\ got'[d] = got[d] /\ ev'[d] = ev[d] /\ seq'[d] = seq[d]
                                    /\ mode'[d] = mode[d] /\ call'[d] = call[d]
    BY <1>1, <1>7 DEF Reload
  <2>2. NextInv(c)'
    BY <2>1 DEF NextInv, NoCall
  <2>3. /\ Run \in Nat \ {0} /\ bases[Run] \in Nat /\ Len(log) \in Nat
        /\ Run' = Run /\ bases' = bases /\ log' = log
    BY <2>1, Base DEF WebInv, server, Run
  <2>4. Nothing \in [run : 0 .. Run, pos : 0 .. Len(log)] /\ Nothing.run = 0 /\ Nothing.pos = 0
    BY <2>3 DEF Nothing
  <2>5. PageInv(c)'
    BY <2>1, <2>3, <2>4, NothingShown DEF PageInv
  <2> QED
    BY <2>1, <2>2, <2>5, FeedOne
<1>8. CASE UNCHANGED vars
  <2>1. ASSUME NEW c \in Clients PROVE PageInv(c)' /\ NextInv(c)'
    <3>1. mode[c] = "stopped" => call[c] = NoCall
      BY DEF FeedInv, PageInv
    <3> QED
      BY <1>2, <1>8, <3>1, PageKept, NextKept DEF vars, server, page
  <2> QED
    BY <1>8, <2>1 DEF FeedInv, LogInv, vars, server, page
<1> QED
  BY <1>4, <1>5, <1>6, <1>7, <1>8, FeedPush, FeedRestart, FeedUpd, FeedSuccess DEF Next

\* The invariant behind ImplementsFeed: the log is in order, and an answer on its way
\* goes on in it where the page is.
THEOREM FeedInductive == Spec => []FeedInv
<1>1. Init => FeedInv
  <2> SUFFICES ASSUME Init PROVE FeedInv
    OBVIOUS
  <2>1. /\ log = <<>> /\ bases = <<0>> /\ Run = 1 /\ bases[Run] = 0
        /\ got = [c \in Clients |-> Nothing] /\ ev = [c \in Clients |-> <<>>]
        /\ mode = [c \in Clients |-> "Live"] /\ call = [c \in Clients |-> NoCall]
    BY DEF Init, ServerInit, Run
  <2>2. Nothing \in [run : 0 .. Run, pos : 0 .. Len(log)] /\ Nothing.run = 0 /\ Nothing.pos = 0
    BY <2>1 DEF Nothing
  <2>3. ASSUME NEW c \in Clients PROVE PageInv(c) /\ NextInv(c)
    <3>1. PageInv(c)
      BY <2>1, <2>2, NothingShown DEF PageInv
    <3>2. NextInv(c)
      BY <2>1 DEF NextInv, NoCall
    <3> QED
      BY <3>1, <3>2
  <2> QED
    BY <2>1, <2>3 DEF FeedInv, LogInv
<1> QED
  BY <1>1, FeedStep, WebInductive, PTL DEF Spec

------------------------------------------------------------------------------
(***************************************************************************)
(* WebClient implements EventFeed.                                         *)
(***************************************************************************)

\* Steps that leave alone what pages show and what the log is.
LEMMA Stutters ==
  ASSUME log' = log, bases' = bases, ev' = ev, got' = got
  PROVE  UNCHANGED Feed!vars
  BY DEF Feed!vars, Run

LEMMA PublishStep ==
  ASSUME WebInv, FeedInv, Push
  PROVE  [Feed!Next]_(Feed!vars)
<1>1. /\ Grows /\ SubSeq(log', 1, Len(log)) = log /\ bases' = bases
      /\ ev' = ev /\ got' = got
  BY FeedPush DEF Push, page
<1>2. Len(log) \in Nat /\ Len(log') \in Nat /\ Len(log) <= Len(log')
      /\ log \in Seq(Stored) /\ log' \in Seq(Stored)
  BY <1>1, Base DEF WebInv, Grows
<1>3. CASE Len(log') = Len(log)
  <2>1. log' = log
    BY <1>1, <1>2, <1>3 DEF Grows
  <2> QED
    BY <1>1, <2>1, Stutters
<1>4. CASE Len(log') # Len(log)
  <2>1. Len(log') > Len(log)
    BY <1>2, <1>4
  <2>2. Run' = Run
    BY <1>1 DEF Run
  <2>3. Feed!InOrder(log')
    BY FeedPush DEF FeedInv, LogInv, Feed!InOrder
  <2>4. Feed!Publish
    BY <1>1, <2>1, <2>2, <2>3 DEF Feed!Publish
  <2> QED
    BY <2>4 DEF Feed!Next
<1> QED
  BY <1>3, <1>4

LEMMA ForgetStep ==
  ASSUME WebInv, FeedInv, Restart, UNCHANGED <<sent, page>>
  PROVE  Feed!Forget
<1>1. log' = log /\ ev' = ev /\ got' = got /\ bases' = Append(bases, Len(log))
  BY DEF Restart, page
<1>2. bases \in Seq(Nat) /\ Len(bases) \in Nat /\ Run \in Nat
  BY RingFormOf, Base DEF RingForm, WebInv
<1>3. Run' = Run + 1
  BY <1>1, <1>2 DEF Run
<1>4. \A c \in Clients : got[c].run \in 0 .. Run
  BY DEF FeedInv, PageInv
<1>5. \A c \in Clients : got[c].run # Run'
  BY <1>2, <1>3, <1>4
<1> QED
  BY <1>1, <1>5 DEF Feed!Forget

LEMMA OpenStep ==
  ASSUME WebInv, FeedInv, NEW c \in Clients, Reload(c)
  PROVE  Feed!Open(c)
<1>1. /\ ev' = [ev EXCEPT ![c] = <<>>] /\ got' = [got EXCEPT ![c] = Nothing]
      /\ UNCHANGED server /\ DOMAIN ev = Clients /\ DOMAIN got = Clients
  BY DEF Reload, WebInv, FeedInv
<1>2. log' = log /\ Run' = Run /\ Run # 0
  BY <1>1, Base DEF server, Run, WebInv
<1>3. /\ got'[c].run = 0 /\ got'[c].pos = 0
      /\ \A d \in Clients : d # c => got'[d] = got[d]
  BY <1>1 DEF Nothing
<1>4. [d \in Clients |-> got'[d].pos]
        = [[d \in Clients |-> got[d].pos] EXCEPT ![c] = 0]
  BY <1>3
<1>5. {d \in Clients : got'[d].run # Run'} = {d \in Clients : got[d].run # Run} \cup {c}
  BY <1>2, <1>3
<1> QED
  BY <1>1, <1>2, <1>4, <1>5 DEF Feed!Open

LEMMA ShowStep ==
  ASSUME WebInv, FeedInv, NEW c \in Clients, Success(c)
  PROVE  [Feed!Next]_(Feed!vars)
<1> DEFINE x == call[c]
           late == \E i \in DOMAIN x.ev : x.ev[i] = NULL
           list == FoldLeft(Listed, ev[c], x.ev)
           from == x.pos - Len(x.ev)
           to == x.pos
           new == {log[i] : i \in from + 1 .. to}
           old == Feed!Shown(ev[c])
<1>1. /\ x.at = "answer" /\ UNCHANGED <<server, sent>>
      /\ late => UNCHANGED <<ev, got>>
      /\ ~ late => /\ ev' = [ev EXCEPT ![c] = list]
                   /\ got' = [got EXCEPT ![c] = [run |-> x.run, pos |-> x.pos]]
  BY DEF Success
<1>2. log' = log /\ bases' = bases /\ Run' = Run
  BY <1>1 DEF server, Run
<1>3. CASE late
  BY <1>1, <1>2, <1>3, Stutters
<1>4. CASE ~ late
  <2>1. /\ DOMAIN ev = Clients /\ DOMAIN got = Clients /\ PageInv(c)
    BY DEF WebInv, FeedInv
  <2>2. /\ from \in 0 .. x.pos /\ to \in 0 .. Len(log)
        /\ x.run \in 1 .. Run /\ GoesOn(c, x.run, from)
    BY <1>1, <1>4, AnswerIsPiece
  <2>3. /\ list \in Seq(Entries) /\ Feed!NewestFirst(list)
        /\ Feed!Shown(list) = old \cup {e \in new : IsStartOf(e) \/ e - 1 \in old \cup new}
    BY <1>1, <1>4, ShownAfter
  <2>4. Run \in Nat /\ Len(log) \in Nat
    BY Base DEF WebInv
  <2>5. from \in 0 .. Len(log) /\ from <= to /\ to <= Len(log)
    BY <2>2, <2>4
  <2>6. got[c].run \in 0 .. Run
    BY <2>1 DEF PageInv
  <2>7. got[c].pos <= from
    BY <2>2 DEF GoesOn
  <2>8. got[c].run = Run => x.run = Run /\ from = got[c].pos
    BY <2>2, <2>4, <2>6 DEF GoesOn
  <2> HIDE DEF list, from, old
  <2>9. /\ got'[c].run = x.run /\ got'[c].pos = to /\ ev'[c] = list
        /\ \A d \in Clients : d # c => got'[d] = got[d] /\ ev'[d] = ev[d]
    BY <1>1, <1>4, <2>1
  <2> HIDE DEF to, x
  <2>10. [d \in Clients |-> got'[d].pos]
           = [[d \in Clients |-> got[d].pos] EXCEPT ![c] = to]
    BY <2>9
  <2>11. ev' = [ev EXCEPT ![c] = ev'[c]]
    BY <1>1, <1>4, <2>1, <2>9
  <2> DEFINE fresh == {d \in Clients : got[d].run # Run}
             fresh2 == {d \in Clients : got'[d].run # Run'}
  <2>12. fresh2 \in {fresh, fresh \ {c}}
    <3>1. CASE x.run = Run
      <4>1. fresh2 = fresh \ {c}
        BY <1>2, <2>9, <3>1
      <4> QED
        BY <4>1
    <3>2. CASE x.run # Run
      <4>1. c \in fresh
        BY <2>8, <3>2
      <4>2. fresh2 = fresh
        BY <1>2, <2>9, <3>2, <4>1
      <4> QED
        BY <4>2
    <3> QED
      BY <3>1, <3>2
  <2>13. c \notin fresh => from = got[c].pos
    BY <2>8
  <2>14. PICK i, j : i = from /\ j = to
    OBVIOUS
  <2>15. i \in 0 .. Len(log) /\ j \in 0 .. Len(log)
    BY <2>2, <2>5, <2>14 DEF to
  <2>16. Feed!Show(c, i, j)
    BY <1>2, <2>3, <2>5, <2>7, <2>9, <2>10, <2>11, <2>12, <2>13, <2>14
       DEF Feed!Show, Feed!IsStart, Feed!Rows, Entries, new, old, IsStartOf
  <2> QED
    BY <2>15, <2>16 DEF Feed!Next
<1> QED
  BY <1>3, <1>4

LEMMA FeedNext == ASSUME WebInv, FeedInv, [Next]_vars PROVE [Feed!Next]_(Feed!vars)
<1>1. ASSUME NEW c \in Clients,
             \/ ajax_update(c) \/ Error(c) \/ activate(c)
             \/ handle_upd(c) /\ UNCHANGED <<sent, page>>
             \/ Lose(c) /\ UNCHANGED <<sent, page>>
      PROVE  [Feed!Next]_(Feed!vars)
  <2>1. log' = log /\ bases' = bases /\ ev' = ev /\ got' = got
    BY <1>1 DEF ajax_update, Error, activate, handle_upd, Lose, page, server
  <2> QED
    BY <2>1, Stutters
<1>2. CASE UNCHANGED vars
  BY <1>2, Stutters DEF vars, server, page
<1>3. CASE Restart /\ UNCHANGED <<sent, page>>
  BY <1>3, ForgetStep DEF Feed!Next
<1>4. ASSUME NEW c \in Clients, Reload(c) PROVE [Feed!Next]_(Feed!vars)
  BY <1>4, OpenStep DEF Feed!Next
<1> QED
  BY <1>1, <1>2, <1>3, <1>4, PublishStep, ShowStep DEF Next

\* Pages go through the server's log in order and list its overs newest first, each
\* once and with the end that came for it: every step of edy.js and app.js is one of
\* EventFeed or changes nothing of it.
THEOREM FeedRefinement == Spec => ImplementsFeed
<1>1. Init => Feed!Init
  BY DEF Init, ServerInit, Run, Nothing, Feed!Init
<1> QED
  BY <1>1, FeedNext, WebInductive, FeedInductive, PTL DEF Spec, ImplementsFeed, Feed!Spec
==============================================================================
