--------------------------- MODULE ReceiverProofs ---------------------------
(***************************************************************************)
(* Proofs about Receiver, for any sizes of chunks and buffer, thresholds   *)
(* and width of an unsigned long.                                          *)
(***************************************************************************)
EXTENDS Receiver, TLAPS

SP == INSTANCE SquelchProofs

-----------------------------------------------------------------------------
(***************************************************************************)
(* Arithmetic of unsigned numbers.                                         *)
(***************************************************************************)

\* What a remainder is.
LEMMA Remainder ==
  ASSUME NEW n \in Int, NEW u \in Nat \ {0}
  PROVE  /\ n % u \in 0..(u - 1)
         /\ n \div u \in Int
         /\ n = u * (n \div u) + (n % u)
  OBVIOUS

\* A multiple other than 0 is not smaller than the number.
LEMMA Multiple ==
  ASSUME NEW u \in Nat \ {0}, NEW k \in Int, k # 0
  PROVE  u * k >= u \/ u * k <= -u
<1>1. CASE k >= 1
  <2>1. u * k = u + u * (k - 1) /\ u * (k - 1) \in Nat
    BY <1>1, SP!Scale
  <2> QED
    BY <2>1
<1>2. CASE k <= -1
  <2>1. u * k = -u - u * (-k - 1) /\ u * (-k - 1) \in Nat
    BY <1>2, SP!Scale
  <2> QED
    BY <2>1
<1> QED
  BY <1>1, <1>2

\* There is one remainder.
LEMMA RemainderUnique ==
  ASSUME NEW u \in Nat \ {0}, NEW k \in Int, NEW y \in 0..(u - 1)
  PROVE  (y + u * k) % u = y
<1> DEFINE x == y + u * k
<1>1. /\ x % u \in 0..(u - 1)
      /\ x \div u \in Int
      /\ x = u * (x \div u) + (x % u)
  BY Remainder
<1>2. u * (k - x \div u) = (x % u) - y
  BY <1>1
<1>3. k - x \div u = 0
  BY <1>1, <1>2, Multiple
<1>4. u * (k - x \div u) = 0
  BY <1>3
<1> QED
  BY <1>1, <1>2, <1>4

\* Counting modulo u.
LEMMA CountModulo ==
  ASSUME NEW n \in Nat, NEW u \in Nat \ {0}
  PROVE  ((n % u) + 1) % u = (n + 1) % u
<1> DEFINE q == n \div u
           p == (n + 1) \div u
<1>1. /\ n % u \in 0..(u - 1) /\ q \in Int /\ n = u * q + (n % u)
      /\ (n + 1) % u \in 0..(u - 1) /\ p \in Int /\ n + 1 = u * p + ((n + 1) % u)
  BY Remainder
<1>2. (n % u) + 1 = ((n + 1) % u) + u * (p - q)
  BY <1>1
<1>3. p - q \in Int
  BY <1>1
<1> HIDE DEF p, q
<1>4. (((n + 1) % u) + u * (p - q)) % u = (n + 1) % u
  BY <1>1, <1>3, RemainderUnique
<1> QED
  BY <1>2, <1>4

\* A difference of two counts, multiplied by c, is right if it is small enough,
\* however often the counts wrapped around.
LEMMA DifferenceModulo ==
  ASSUME NEW n \in Nat, NEW m \in Nat, NEW u \in Nat \ {0}, NEW c \in Nat,
         (n + 1 - m) * c \in 0..(u - 1)
  PROVE  (((n % u) + 1 - (m % u)) * c) % u = (n + 1 - m) * c
<1> DEFINE q == n \div u
           p == m \div u
<1>1. /\ n % u \in 0..(u - 1) /\ q \in Int /\ n = u * q + (n % u)
      /\ m % u \in 0..(u - 1) /\ p \in Int /\ m = u * p + (m % u)
  BY Remainder
<1>2. (n % u) + 1 - (m % u) = (n + 1 - m) + u * (p - q)
  BY <1>1
<1>3. (n % u) + 1 - (m % u) \in Int /\ p - q \in Int /\ n + 1 - m \in Int
  BY <1>1
<1>4. ((n % u) + 1 - (m % u)) * c = (n + 1 - m) * c + u * ((p - q) * c)
  BY <1>2, <1>3
<1>5. (p - q) * c \in Int
  BY <1>3
<1> QED
  BY <1>4, <1>5, RemainderUnique

-----------------------------------------------------------------------------
(***************************************************************************)
(* The constants, and the squelch inside the receiver.                     *)
(***************************************************************************)

\* The sizes of the buffers.
LEMMA Sizes ==
  /\ RECEIVER_BUF_COPY \in Nat \ {0} /\ RECEIVER_BUFLEN = 4 * RECEIVER_BUF_COPY
  /\ SQL_OPEN_SCAN_LEN \in Nat \ {0} /\ SQL_OPEN_SCAN_LEN <= RECEIVER_BUF_COPY
  /\ Room \in Nat /\ Room <= 5 * RECEIVER_BUF_COPY
<1>1. RECEIVER_BUFLEN \in Nat \ {0} /\ RECEIVER_BUFLEN % 4 = 0
  BY ReceiverAssumption DEF ReceiverAssumption
<1>2. RECEIVER_BUF_COPY \in Nat \ {0} /\ RECEIVER_BUFLEN = 4 * RECEIVER_BUF_COPY
  BY <1>1 DEF RECEIVER_BUF_COPY
<1>3. SQL_OPEN_SCAN_LEN \in Nat \ {0} /\ SQL_OPEN_SCAN_LEN <= RECEIVER_BUF_COPY
  BY ReceiverAssumption DEF ReceiverAssumption, SQL_OPEN_SCAN_LEN
<1> QED
  BY <1>2, <1>3 DEF Room

LEMMA SquelchSizes == SP!SquelchAssumption
  BY ReceiverAssumption DEF ReceiverAssumption, SP!SquelchAssumption

\* What Squelch says of a sample.
LEMMA SampleStep ==
  ASSUME S!TypeOK, NEW a \in Amps, S!Sample(a)
  PROVE  /\ S!TypeOK' /\ a \in 0..AMax
         /\ sql_absval_sum' = S!Integrate(sql_absval_sum, a)
         /\ sql_absval_sum \in Nat /\ sql_absval_sum' \in Nat
         /\ sql_absval_sum' <= sql_absval_sum + a
<1>1. SP!TypeOK /\ SP!Sample(a)
  BY DEF S!TypeOK, SP!TypeOK, S!Sample, SP!Sample, S!Integrate, SP!Integrate,
         S!Looks, SP!Looks, S!Opens, SP!Opens, S!Closes, SP!Closes
<1>2. SP!TypeOK'
  BY <1>1, SP!SquelchTypeStep, SquelchSizes DEF SP!Next
<1>3. a \in 0..AMax /\ DIV * (AMax + 1) \in Nat
  BY ReceiverAssumption, SP!Scale DEF ReceiverAssumption
<1>4. sql_absval_sum' = SP!Integrate(sql_absval_sum, a)
  BY <1>1 DEF SP!Sample
<1>5. SP!Integrate(sql_absval_sum, a) <= sql_absval_sum + a
  BY <1>1, <1>3, SP!IntegrateRange, SquelchSizes DEF SP!TypeOK
<1>6. sql_absval_sum \in Nat /\ sql_absval_sum' \in Nat
  BY <1>1, <1>2, <1>3 DEF SP!TypeOK
<1> QED
  BY <1>2, <1>3, <1>4, <1>5, <1>6 DEF SP!TypeOK, S!TypeOK, S!Integrate, SP!Integrate

-----------------------------------------------------------------------------
(***************************************************************************)
(* The receivers that are run on a chunk.                                  *)
(***************************************************************************)

\* The receiver that is run, and those that follow.
LEMMA Running ==
  ASSUME LoopInv, pc \in {"call", "copy"}
  PROVE  /\ Head(todo) \in Rx /\ Decoded(Head(todo))
         /\ \/ /\ mode = "both" /\ todo = <<"A", "B">>
               /\ Head(todo) = "A" /\ Tail(todo) = <<"B">> /\ Tail(todo) # <<>>
            \/ /\ todo = <<Head(todo)>> /\ Tail(todo) = <<>> /\ todo # <<"A", "B">>
               /\ mode # "both" => Head(todo) = IF mode = "left" THEN "B" ELSE "A"
<1>1. mode \in {"mono", "both", "left", "right"}
  BY ReceiverAssumption DEF ReceiverAssumption, LoopInv
<1>2. \/ todo = Order
      \/ mode = "both" /\ todo = <<"B">>
  BY DEF LoopInv
<1>3. CASE mode = "both" /\ todo = <<"A", "B">>
  BY <1>3 DEF Rx, Decoded
<1>4. CASE todo = <<"B">> /\ mode \in {"left", "both"}
  BY <1>4 DEF Rx, Decoded
<1>5. CASE todo = <<"A">> /\ mode \in {"mono", "right"}
  BY <1>5 DEF Rx, Decoded
<1>6. CASE mode = "both"
  <2>1. Order = <<"A", "B">>
    BY <1>6 DEF Order
  <2> QED
    BY <1>2, <1>3, <1>4, <1>6, <2>1
<1>7. CASE mode = "left"
  <2>1. Order = <<"B">>
    BY <1>7 DEF Order
  <2> QED
    BY <1>2, <1>4, <1>7, <2>1
<1>8. CASE mode \in {"mono", "right"}
  <2>1. Order = <<"A">>
    BY <1>8 DEF Order
  <2> QED
    BY <1>2, <1>5, <1>8, <2>1
<1> QED
  BY <1>1, <1>6, <1>7, <1>8

-----------------------------------------------------------------------------
(***************************************************************************)
(* The loop: every step of the program keeps LoopInv.                      *)
(***************************************************************************)

\* Nobody hears more frames than were read.
LEMMA LoopRead == ASSUME LoopInv, Read, UNCHANGED mode PROVE LoopInv'
<1>1. PICK n \in ReadLens : frames + n <= FrameLimit /\ frames' = frames + n /\ len' = n
  BY DEF Read
<1>2. n \in Nat \ {0} /\ FrameLimit \in Nat
  BY ReceiverAssumption DEF ReceiverAssumption
<1>3. /\ pc = "read" /\ pc' = "call" /\ todo' = Order /\ Order' = Order
      /\ od' = od /\ heard' = heard /\ mode' = mode
  BY DEF Read, Order
<1>4. ASSUME NEW r \in Rx PROVE Due(r) = 0 /\ Due(r)' \in {0, n}
  BY <1>1, <1>3 DEF Due
<1>5. \A r \in Rx : heard'[r] + Due(r)' <= frames'
  <2> TAKE r \in Rx
  <2>1. heard[r] \in Nat /\ heard[r] + Due(r) <= frames
    BY DEF LoopInv
  <2> QED
    BY <1>1, <1>2, <1>3, <1>4, <2>1 DEF LoopInv
<1>6. \A r \in Rx : ~ Decoded(r)' => heard'[r] = 0
  BY <1>3 DEF LoopInv, Decoded
<1>7. frames' \in 0..FrameLimit
  BY <1>1, <1>2 DEF LoopInv
<1> QED
  BY <1>1, <1>2, <1>3, <1>5, <1>6, <1>7 DEF LoopInv

LEMMA LoopFinish ==
  ASSUME LoopInv, Finish \/ UNCHANGED vars, UNCHANGED mode
  PROVE  LoopInv'
<1>1. /\ mode' = mode /\ todo' = todo /\ len' = len /\ od' = od
      /\ frames' = frames /\ heard' = heard
      /\ pc' = pc \/ (pc = "read" /\ pc' = "done")
  <2>1. CASE Finish
    BY <2>1 DEF Finish, history
  <2>2. CASE UNCHANGED vars
    BY <2>2 DEF vars, squelch, statics, buffers, loop, history
  <2> QED
    BY <2>1, <2>2
<1>2. ASSUME NEW r \in Rx PROVE Due(r)' = Due(r)
  BY <1>1 DEF Due
<1>3. \A r \in Rx : /\ heard'[r] + Due(r)' <= frames'
                    /\ ~ Decoded(r)' => heard'[r] = 0
  BY <1>1, <1>2 DEF LoopInv, Decoded
<1>4. Order' = Order
  BY <1>1 DEF Order
<1> QED
  BY <1>1, <1>3, <1>4 DEF LoopInv

LEMMA LoopCall == ASSUME LoopInv, receiver_run, UNCHANGED mode PROVE LoopInv'
<1>1. /\ pc = "call" /\ mode' = mode /\ todo' = todo /\ len' = len
      /\ frames' = frames /\ heard' = heard
      /\ \/ pc' = "aborted" /\ od' = od
         \/ pc' = "copy" /\ od' = 0 /\ len <= RECEIVER_BUFLEN \div 2
  BY Sizes DEF receiver_run, history, LoopInv
<1>2. ASSUME NEW r \in Rx PROVE Due(r)' = Due(r) \/ (Due(r)' = 0 /\ Due(r) \in Nat)
  BY <1>1 DEF Due, LoopInv
<1>3. \A r \in Rx : /\ heard'[r] + Due(r)' <= frames'
                    /\ ~ Decoded(r)' => heard'[r] = 0
  BY <1>1, <1>2 DEF LoopInv, Decoded
<1>4. Order' = Order
  BY <1>1 DEF Order
<1> QED
  BY <1>1, <1>3, <1>4 DEF LoopInv

LEMMA LoopCopy ==
  ASSUME LoopInv, NEW a \in Amps, copy_buffer(a), UNCHANGED mode
  PROVE  LoopInv'
<1> DEFINE q == Head(todo)
<1>1. /\ pc = "copy" /\ od < len /\ mode' = mode /\ todo' = todo /\ len' = len
      /\ pc' = pc /\ frames' = frames /\ od' = od + 1
      /\ heard' = [heard EXCEPT ![q] = @ + 1]
  BY DEF copy_buffer
<1>2. q \in Rx /\ Decoded(q)
  BY <1>1, Running
<1>3. len \in Nat /\ od \in Nat /\ heard \in [Rx -> Nat]
  BY DEF LoopInv
<1>4. heard' \in [Rx -> Nat]
  BY <1>1, <1>2, <1>3
<1>5. \A r \in Rx : heard'[r] + Due(r)' <= frames'
  <2> TAKE r \in Rx
  <2>1. heard[r] \in Nat /\ heard[r] + Due(r) <= frames
    BY DEF LoopInv
  <2>2. CASE r = q
    <3>1. Due(r) = len - od /\ Due(r)' = len - (od + 1) /\ heard'[r] = heard[r] + 1
      BY <1>1, <1>2, <1>3, <2>2 DEF Due
    <3> QED
      BY <1>1, <1>3, <2>1, <3>1
  <2>3. CASE r # q
    <3>1. Due(r)' = Due(r) /\ heard'[r] = heard[r]
      BY <1>1, <1>2, <1>3, <2>3 DEF Due
    <3> QED
      BY <1>1, <2>1, <3>1
  <2> QED
    BY <2>2, <2>3
<1>6. \A r \in Rx : ~ Decoded(r)' => heard'[r] = 0
  BY <1>1, <1>2, <1>3 DEF LoopInv, Decoded
<1>7. Order' = Order
  BY <1>1 DEF Order
<1> QED
  BY <1>1, <1>3, <1>4, <1>5, <1>6, <1>7 DEF LoopInv

LEMMA LoopReturn == ASSUME LoopInv, Return, UNCHANGED mode PROVE LoopInv'
<1>1. /\ pc = "copy" /\ od = len /\ mode' = mode /\ todo' = Tail(todo)
      /\ len' = len /\ od' = od /\ frames' = frames /\ heard' = heard
      /\ pc' = IF Tail(todo) = <<>> THEN "read" ELSE "call"
  BY DEF Return, history
<1>2. len \in Nat /\ heard \in [Rx -> Nat]
  BY DEF LoopInv
<1>3. Order' = Order
  BY <1>1 DEF Order
<1>4. CASE mode = "both" /\ todo = <<"A", "B">> /\ Head(todo) = "A" /\ Tail(todo) = <<"B">> /\ Tail(todo) # <<>>
  <2>1. pc' = "call" /\ todo' = <<"B">> /\ Head(todo') = "B" /\ todo' # <<"A", "B">>
    BY <1>1, <1>4
  <2>2. ASSUME NEW r \in Rx PROVE Due(r)' = Due(r)
    <3>1. CASE r = "A"
      BY <1>1, <1>2, <1>4, <2>1, <3>1 DEF Due
    <3>2. CASE r = "B"
      BY <1>1, <1>2, <1>4, <2>1, <3>2 DEF Due
    <3> QED
      BY <3>1, <3>2 DEF Rx
  <2>3. \A r \in Rx : /\ heard'[r] + Due(r)' <= frames'
                      /\ ~ Decoded(r)' => heard'[r] = 0
    BY <1>1, <2>2 DEF LoopInv, Decoded
  <2> QED
    BY <1>1, <1>3, <1>4, <2>1, <2>3 DEF LoopInv
<1>5. CASE Tail(todo) = <<>>
  <2>1. pc' = "read"
    BY <1>1, <1>5
  <2>2. ASSUME NEW r \in Rx PROVE Due(r)' = 0 /\ Due(r) \in Nat
    BY <1>1, <1>2, <2>1 DEF Due
  <2>3. ASSUME NEW r \in Rx PROVE heard'[r] + Due(r)' <= frames'
    <3>1. heard[r] + Due(r) <= frames
      BY DEF LoopInv
    <3>2. heard[r] \in Nat /\ frames \in Nat
      BY <1>2 DEF LoopInv
    <3> QED
      BY <1>1, <2>2, <3>1, <3>2
  <2>4. ASSUME NEW r \in Rx PROVE ~ Decoded(r)' => heard'[r] = 0
    BY <1>1 DEF LoopInv, Decoded
  <2> QED
    BY <1>1, <1>3, <2>1, <2>3, <2>4 DEF LoopInv
<1> QED
  BY <1>1, <1>4, <1>5, Running

\* The loop runs its receivers in order, in every step of the program.
LEMMA LoopStep == ASSUME LoopInv, [Next]_vars PROVE LoopInv'
  BY LoopRead, LoopFinish, LoopCall, LoopCopy, LoopReturn DEF Next, Stopped, vars

-----------------------------------------------------------------------------
(***************************************************************************)
(* The buffers: every step of the program keeps BufferInv.                 *)
(***************************************************************************)

\* The room for a chunk, after the check of receiver_run.
LEMMA ChunkFits ==
  ASSUME LoopInv, BufferInv, NEW r \in Rx, len <= RECEIVER_BUFLEN \div 2
  PROVE  /\ RECEIVER_BUF_COPY + len <= Room
         /\ ~ Wraps(r) => bufpos[r] + len <= Room
<1>1. len \in Nat /\ bufpos[r] \in Nat
  BY DEF LoopInv, BufferInv
<1>2. len <= 2 * RECEIVER_BUF_COPY
  BY <1>1, Sizes
<1>3. CASE mode = "mono"
  <2>1. len \div num_ch = len /\ Room = 4 * RECEIVER_BUF_COPY
    BY <1>1, <1>3, Sizes DEF num_ch, Room
  <2> QED
    BY <1>1, <1>2, <2>1, Sizes DEF Wraps
<1>4. CASE mode # "mono"
  <2>1. len \div num_ch = len \div 2 /\ Room = 5 * RECEIVER_BUF_COPY
    BY <1>4, Sizes DEF num_ch, Room
  <2>2. len - (len \div 2) <= RECEIVER_BUF_COPY
    BY <1>1, <1>2, Sizes
  <2> QED
    BY <1>1, <1>2, <2>1, <2>2, Sizes DEF Wraps
<1> QED
  BY <1>3, <1>4

\* The samples that are kept stay numbers, as they come from inside the struct.
LEMMA KeptType ==
  ASSUME NEW m \in [0..(2 * RECEIVER_BUFLEN - 1) -> Nat],
         NEW p \in RECEIVER_BUF_COPY..(5 * RECEIVER_BUF_COPY)
  PROVE  KeptAtFront(m, p) \in [0..(2 * RECEIVER_BUFLEN - 1) -> Nat]
<1>1. ASSUME NEW i \in 0..(2 * RECEIVER_BUFLEN - 1), i < RECEIVER_BUF_COPY
      PROVE  p - RECEIVER_BUF_COPY + i \in 0..(2 * RECEIVER_BUFLEN - 1)
  BY <1>1, Sizes
<1> QED
  BY <1>1 DEF KeptAtFront

LEMMA BufferCall ==
  ASSUME LoopInv, BufferInv, receiver_run, UNCHANGED mode
  PROVE  BufferInv'
<1> DEFINE q == Head(todo)
<1>1. /\ pc = "call" /\ todo' = todo /\ len' = len /\ mode' = mode
      /\ \/ pc' = "aborted" /\ UNCHANGED buffers
         \/ /\ pc' = "copy" /\ ~ (len > RECEIVER_BUFLEN \div 2)
            /\ \/ /\ memory' = [memory EXCEPT ![q] = KeptAtFront(@, bufpos[q])]
                  /\ bufpos' = [bufpos EXCEPT ![q] = RECEIVER_BUF_COPY]
               \/ UNCHANGED buffers /\ ~ Wraps(q)
  BY DEF receiver_run
<1>2. q \in Rx
  BY <1>1, Running
<1>3. Room' = Room
  BY <1>1 DEF Room
<1>4. CASE pc' = "aborted" /\ UNCHANGED buffers
  BY <1>1, <1>3, <1>4 DEF BufferInv, buffers
<1>5. CASE pc' = "copy" /\ ~ (len > RECEIVER_BUFLEN \div 2)
  <2>1. len <= RECEIVER_BUFLEN \div 2
    BY <1>5, Sizes DEF LoopInv
  <2>2. CASE UNCHANGED buffers /\ ~ Wraps(q)
    BY <1>1, <1>2, <1>3, <2>1, <2>2, ChunkFits DEF BufferInv, buffers
  <2>3. CASE /\ memory' = [memory EXCEPT ![q] = KeptAtFront(@, bufpos[q])]
             /\ bufpos' = [bufpos EXCEPT ![q] = RECEIVER_BUF_COPY]
    <3>1. memory' \in [Rx -> [0..(2 * RECEIVER_BUFLEN - 1) -> Nat]]
      <4>1. bufpos[q] \in RECEIVER_BUF_COPY..(5 * RECEIVER_BUF_COPY)
        BY <1>2, Sizes DEF BufferInv
      <4>2. KeptAtFront(memory[q], bufpos[q]) \in [0..(2 * RECEIVER_BUFLEN - 1) -> Nat]
        BY <1>2, <4>1, KeptType DEF BufferInv
      <4> QED
        BY <1>2, <2>3, <4>2 DEF BufferInv
    <3>2. bufpos' \in [Rx -> Nat] /\ bufpos'[q] = RECEIVER_BUF_COPY
      BY <1>2, <2>3, Sizes DEF BufferInv
    <3>3. RECEIVER_BUF_COPY + len <= Room
      BY <1>2, <2>1, ChunkFits
    <3>4. \A r \in Rx : RECEIVER_BUF_COPY <= bufpos'[r] /\ bufpos'[r] <= Room'
      <4> TAKE r \in Rx
      <4>1. CASE r = q
        BY <1>3, <3>2, <3>3, <4>1, Sizes DEF LoopInv
      <4>2. CASE r # q
        BY <1>3, <2>3, <4>2 DEF BufferInv
      <4> QED
        BY <4>1, <4>2
    <3> QED
      BY <1>1, <1>3, <3>1, <3>2, <3>3, <3>4 DEF BufferInv
  <2> QED
    BY <1>1, <1>5, <2>2, <2>3
<1> QED
  BY <1>1, <1>4, <1>5

LEMMA BufferCopy ==
  ASSUME LoopInv, BufferInv, NEW a \in Amps, copy_buffer(a), UNCHANGED mode
  PROVE  BufferInv'
<1> DEFINE q == Head(todo)
<1>1. /\ pc' = pc /\ todo' = todo /\ len' = len /\ mode' = mode
      /\ pc = "copy" /\ bufpos' = bufpos
      /\ memory' = [memory EXCEPT ![q][bufpos[q] + od] = heard[q] + 1]
  BY DEF copy_buffer
<1>2. q \in Rx
  BY <1>1, Running
<1>3. Room' = Room
  BY <1>1 DEF Room
<1>4. memory' \in [Rx -> [0..(2 * RECEIVER_BUFLEN - 1) -> Nat]]
  <2>1. heard[q] + 1 \in Nat
    BY <1>2 DEF LoopInv
  <2>2. memory[q] \in [0..(2 * RECEIVER_BUFLEN - 1) -> Nat]
    BY <1>2 DEF BufferInv
  <2>3. [memory[q] EXCEPT ![bufpos[q] + od] = heard[q] + 1]
          \in [0..(2 * RECEIVER_BUFLEN - 1) -> Nat]
    BY <2>1, <2>2
  <2> QED
    BY <1>1, <1>2, <2>3 DEF BufferInv
<1> QED
  BY <1>1, <1>3, <1>4 DEF BufferInv

LEMMA BufferReturn ==
  ASSUME LoopInv, BufferInv, Return, UNCHANGED mode
  PROVE  BufferInv'
<1> DEFINE q == Head(todo)
<1>1. /\ pc = "copy" /\ od = len /\ mode' = mode /\ memory' = memory
      /\ bufpos' = [bufpos EXCEPT ![q] = @ + od]
      /\ pc' # "copy"
  BY DEF Return
<1>2. q \in Rx
  BY <1>1, Running
<1>3. Room' = Room
  BY <1>1 DEF Room
<1>4. bufpos' \in [Rx -> Nat]
  BY <1>1, <1>2 DEF LoopInv, BufferInv
<1>5. \A r \in Rx : RECEIVER_BUF_COPY <= bufpos'[r] /\ bufpos'[r] <= Room'
  <2> TAKE r \in Rx
  <2>1. CASE r = q
    <3>1. bufpos'[r] = bufpos[q] + len
      BY <1>1, <1>2, <2>1 DEF BufferInv
    <3> QED
      BY <1>1, <1>2, <1>3, <3>1, Sizes DEF BufferInv, LoopInv
  <2>2. CASE r # q
    BY <1>1, <1>3, <2>2 DEF BufferInv
  <2> QED
    BY <2>1, <2>2
<1> QED
  BY <1>1, <1>3, <1>4, <1>5 DEF BufferInv

\* The positions in the buffers stay where they may be.
LEMMA BufferStep == ASSUME LoopInv, BufferInv, [Next]_vars PROVE BufferInv'
<1>1. CASE (Read \/ Finish) /\ UNCHANGED mode
  BY <1>1 DEF Read, Finish, BufferInv, buffers, Room
<1>2. CASE UNCHANGED vars
  BY <1>2 DEF vars, buffers, loop, BufferInv, Room
<1> QED
  BY <1>1, <1>2, BufferCall, BufferCopy, BufferReturn DEF Next, Stopped

-----------------------------------------------------------------------------
(***************************************************************************)
(* The events and the lengths: what a sample does to the squelch.          *)
(***************************************************************************)

\* A sample leaves the squelch as it is, closes it, or opens it; it never does
\* two of these, as the threshold to open is not above the one to close.
LEMMA Outcome ==
  ASSUME S!TypeOK, NEW a \in Amps, copy_buffer(a)
  PROVE  \/ /\ sql_open' = sql_open
            /\ UNCHANGED <<current_event_id, sql_open_at_pos, scan, opened,
                           latest, previous>>
         \/ /\ sql_open /\ ~ sql_open' /\ sql_absval_sum' > THR_CLOSE
            /\ latest' = OverEnd(Head(todo))
            /\ previous' = [event |-> latest.event, id |-> latest.id]
            /\ UNCHANGED <<current_event_id, sql_open_at_pos, scan>>
         \/ /\ ~ sql_open /\ sql_open' /\ sql_absval_sum' < THR_OPEN
            /\ latest' = OverStart(current_event_id')
            /\ previous' = [event |-> latest.event, id |-> latest.id]
            /\ sql_open_at_pos' = (sql_pos + 1) % ULONG
            /\ opened' = [rx |-> Head(todo), heard |-> heard[Head(todo)] + 1,
                          copied |-> copied + 1]
            /\ scan' = [scan EXCEPT ![Head(todo)] =
                                Recent(Head(todo), ScanEnd(Head(todo)))]
<1> DEFINE sum == S!Integrate(sql_absval_sum, a)
           closes == S!Looks /\ S!Closes(sum)
           opens == S!Looks /\ S!Opens(sum)
<1>1. sql_absval_sum' = sum /\ sum \in Nat /\ sql_open \in BOOLEAN
  BY SampleStep DEF copy_buffer, S!TypeOK
<1>2. THR_OPEN \in Nat /\ THR_CLOSE \in Nat /\ THR_OPEN <= THR_CLOSE
  BY ReceiverAssumption DEF ReceiverAssumption
<1>3. S!Closes(sum) => sql_open /\ sum > THR_CLOSE /\ ~ S!Opens(sum)
  BY <1>1, <1>2 DEF S!Closes, S!Opens
<1>4. S!Opens(sum) => ~ sql_open /\ sum < THR_OPEN
  BY <1>1, <1>2 DEF S!Closes, S!Opens
<1>5. /\ opens => sql_open'
      /\ closes /\ ~ opens => ~ sql_open'
      /\ ~ closes /\ ~ opens => sql_open' = sql_open
  <2>1. sql_open' = IF S!Looks
                      THEN S!Opens(sum) \/ (sql_open /\ ~ S!Closes(sum))
                      ELSE sql_open
    BY DEF copy_buffer, S!Sample
  <2> HIDE DEF sum
  <2> QED
    BY <1>1, <1>3, <1>4, <2>1
<1>6. CASE ~ closes /\ ~ opens
  BY <1>5, <1>6 DEF copy_buffer
<1>7. CASE closes /\ ~ opens
  <2>1. /\ latest' = OverEnd(Head(todo))
        /\ previous' = [event |-> latest.event, id |-> latest.id]
        /\ UNCHANGED <<current_event_id, sql_open_at_pos, scan>>
    BY <1>7 DEF copy_buffer
  <2> QED
    BY <1>1, <1>3, <1>5, <1>7, <2>1
<1>8. CASE opens
  <2>1. /\ latest' = OverStart(current_event_id')
        /\ previous' = [event |-> latest.event, id |-> latest.id]
        /\ sql_open_at_pos' = (sql_pos + 1) % ULONG
        /\ opened' = [rx |-> Head(todo), heard |-> heard[Head(todo)] + 1,
                      copied |-> copied + 1]
        /\ scan' = [scan EXCEPT ![Head(todo)] =
                            Recent(Head(todo), ScanEnd(Head(todo)))]
    BY <1>8 DEF copy_buffer
  <2> QED
    BY <1>1, <1>4, <1>5, <1>8, <2>1
<1> QED
  BY <1>6, <1>7, <1>8

\* A sample is counted for its channel and among all.
LEMMA Counted ==
  ASSUME LoopInv, NEW a \in Amps, copy_buffer(a)
  PROVE  /\ Head(todo) \in Rx /\ Decoded(Head(todo))
         /\ copied \in Nat /\ heard[Head(todo)] \in Nat /\ copied' = copied + 1
         /\ mode # "both" => heard[Head(todo)] = copied
<1> DEFINE q == Head(todo)
<1>1. q \in Rx /\ Decoded(q)
  BY Running DEF copy_buffer
<1>2. heard \in [Rx -> Nat] /\ heard' = [heard EXCEPT ![q] = @ + 1]
  BY DEF copy_buffer, LoopInv
<1>3. mode # "both" => \A r \in Rx : r = q \/ heard[r] = 0
  BY <1>1 DEF LoopInv, Decoded, Rx
<1> QED
  BY <1>1, <1>2, <1>3 DEF copied, Rx

LEMMA EventCopy ==
  ASSUME S!TypeOK, EventInv, NEW a \in Amps, copy_buffer(a)
  PROVE  EventInv'
<1>1. sql_open \in BOOLEAN
  BY DEF S!TypeOK
<1> QED
  BY <1>1, Outcome DEF EventInv, EventsPaired, OverEnd, End, OverStart

LEMMA TimeCopy ==
  ASSUME S!TypeOK, LoopInv, TimeInv, NEW a \in Amps, copy_buffer(a), UNCHANGED mode
  PROVE  TimeInv'
<1> DEFINE q == Head(todo)
<1>1. /\ q \in Rx /\ Decoded(q) /\ mode' = mode
      /\ copied \in Nat /\ heard[q] \in Nat /\ copied' = copied + 1
      /\ mode # "both" => heard[q] = copied
  BY Counted
<1>2. ULONG \in Nat \ {0}
  BY ReceiverAssumption DEF ReceiverAssumption
<1>3. sql_pos' = copied' % ULONG /\ (sql_pos + 1) % ULONG = copied' % ULONG
  BY <1>1, <1>2, CountModulo DEF copy_buffer, TimeInv
<1>4. ASSUME sql_open'
      PROVE  /\ opened'.rx \in Rx /\ Decoded(opened.rx)'
             /\ opened'.heard \in Nat
             /\ opened'.copied \in 1..copied'
             /\ mode' # "both" => opened'.heard = opened'.copied
             /\ sql_open_at_pos' = opened'.copied % ULONG
  <2>1. CASE sql_open /\ opened' = opened /\ sql_open_at_pos' = sql_open_at_pos
    BY <1>1, <2>1 DEF TimeInv, Decoded
  <2>2. CASE /\ opened' = [rx |-> q, heard |-> heard[q] + 1, copied |-> copied + 1]
             /\ sql_open_at_pos' = (sql_pos + 1) % ULONG
    BY <1>1, <1>3, <2>2 DEF Decoded
  <2> QED
    BY <1>4, <2>1, <2>2, Outcome
<1> QED
  BY <1>3, <1>4 DEF TimeInv

\* The length of an over that fits: the counts of the code may have wrapped
\* around any number of times.
LEMMA LengthCopy ==
  ASSUME S!TypeOK, LoopInv, TimeInv, LengthInv,
         NEW a \in Amps, copy_buffer(a), UNCHANGED mode
  PROVE  LengthInv'
<1> DEFINE q == Head(todo)
<1>1. /\ mode' = mode /\ copied \in Nat /\ heard[q] \in Nat
      /\ mode # "both" => heard[q] = copied
  BY Counted
<1>2. CASE latest' = latest
  BY <1>1, <1>2 DEF LengthInv, AiredFits, DurationIsAirTime
<1>3. CASE latest'.event = "start"
  BY <1>3 DEF LengthInv, AiredFits, DurationIsAirTime
<1>4. CASE sql_open /\ latest' = OverEnd(q)
  <2> SUFFICES ASSUME latest'.aired * 1000 < ULONG, mode # "both"
               PROVE  latest'.duration = (latest'.aired * 1000) \div SAMPLE_RATE
    BY <1>1, <1>4 DEF LengthInv, AiredFits, DurationIsAirTime, OverEnd, End
  <2> DEFINE n == opened.copied
  <2>1. n \in 1..copied /\ opened.heard = n
    BY <1>1, <1>4 DEF TimeInv
  <2>2. latest'.aired = copied + 1 - n /\ latest'.duration = over_length
    BY <1>1, <1>4, <2>1 DEF OverEnd, End
  <2>3. ULONG \in Nat \ {0}
    BY ReceiverAssumption DEF ReceiverAssumption
  <2>4. n \in Nat /\ (copied + 1 - n) * 1000 \in 0..(ULONG - 1)
    BY <1>1, <2>1, <2>2, <2>3
  <2>5. (((copied % ULONG) + 1 - (n % ULONG)) * 1000) % ULONG = (copied + 1 - n) * 1000
    <3>1. ASSUME NEW c \in Nat, NEW m \in Nat, NEW k \in Nat,
                 (k + 1 - m) * c \in 0..(ULONG - 1)
          PROVE  (((k % ULONG) + 1 - (m % ULONG)) * c) % ULONG = (k + 1 - m) * c
      BY <2>3, <3>1, DifferenceModulo
    <3>2. ASSUME NEW m \in Nat, NEW k \in Nat,
                 (k + 1 - m) * 1000 \in 0..(ULONG - 1)
          PROVE  (((k % ULONG) + 1 - (m % ULONG)) * 1000) % ULONG = (k + 1 - m) * 1000
      BY <3>1, <3>2
    <3> HIDE DEF n
    <3> QED
      BY <1>1, <2>4, <3>2
  <2>6. sql_pos = copied % ULONG /\ sql_open_at_pos = n % ULONG
    BY <1>4 DEF TimeInv
  <2> QED
    BY <2>2, <2>5, <2>6 DEF over_length
<1> QED
  BY <1>2, <1>3, <1>4, Outcome DEF OverStart

\* The sum after as many samples as there were since the squelch opened.
LEMMA LevelCopy ==
  ASSUME LoopInv, TimeInv, LevelInv, NEW a \in Amps, copy_buffer(a)
  PROVE  LevelInv'
<1> DEFINE n == opened.copied
<1>1. copied \in Nat /\ copied' = copied + 1
  BY Counted
<1>2. /\ S!TypeOK /\ S!TypeOK' /\ a \in 0..AMax
      /\ sql_absval_sum \in Nat /\ sql_absval_sum' \in Nat
      /\ sql_absval_sum' <= sql_absval_sum + a
  BY SampleStep DEF LevelInv, copy_buffer
<1>3. AMax \in Nat /\ THR_OPEN \in Nat /\ THR_CLOSE \in Nat
  BY ReceiverAssumption DEF ReceiverAssumption
<1>4. ASSUME sql_open PROVE sql_absval_sum' < THR_OPEN + (copied + 1 - n) * AMax
  <2>1. n \in 1..copied
    BY <1>4 DEF TimeInv
  <2>2. (copied + 1 - n) * AMax = (copied - n) * AMax + AMax
    BY <1>1, <1>3, <2>1
  <2>3. sql_absval_sum < THR_OPEN + (copied - n) * AMax
    BY <1>4 DEF LevelInv
  <2>4. (copied - n) * AMax \in Int
    BY <1>1, <1>3, <2>1
  <2> DEFINE x == (copied - n) * AMax
             y == (copied + 1 - n) * AMax
  <2>5. y = x + AMax /\ sql_absval_sum < THR_OPEN + x /\ x \in Int
    BY <2>2, <2>3, <2>4
  <2> HIDE DEF x, y
  <2>6. sql_absval_sum' < THR_OPEN + y
    BY <1>2, <1>3, <2>5
  <2> QED
    BY <2>6 DEF y
<1>5. CASE sql_open' = sql_open /\ UNCHANGED <<opened, latest>>
  <2>1. NoChatter'
    BY <1>5 DEF LevelInv, NoChatter
  <2>2. sql_open' => sql_absval_sum' < THR_OPEN + (copied' - opened'.copied) * AMax
    <3>1. sql_open' => sql_open
      BY <1>5
    <3>2. copied' = copied + 1 /\ opened'.copied = n
      BY <1>1, <1>5
    <3>3. sql_open => n \in Int
      BY DEF TimeInv
    <3>4. sql_open => copied' - opened'.copied = copied + 1 - n
      BY <1>1, <3>2, <3>3
    <3> QED
      BY <1>4, <3>1, <3>4
  <2> QED
    BY <1>2, <2>1, <2>2 DEF LevelInv
<1>6. CASE /\ sql_open /\ ~ sql_open' /\ sql_absval_sum' > THR_CLOSE
           /\ latest' = OverEnd(Head(todo))
  <2> DEFINE y == (copied + 1 - n) * AMax
  <2>1. latest'.event = "sqlend" /\ latest'.samples * AMax = y
    BY <1>6 DEF OverEnd, End
  <2>2. n \in 1..copied
    BY <1>6 DEF TimeInv
  <2>3. y \in Int /\ sql_absval_sum' < THR_OPEN + y
    BY <1>1, <1>3, <1>4, <1>6, <2>2
  <2> HIDE DEF y
  <2>4. y > THR_CLOSE - THR_OPEN
    BY <1>2, <1>3, <1>6, <2>3
  <2> QED
    BY <1>2, <1>6, <2>1, <2>4 DEF LevelInv, NoChatter
<1>7. CASE /\ sql_absval_sum' < THR_OPEN
           /\ latest' = OverStart(current_event_id')
           /\ opened' = [rx |-> Head(todo), heard |-> heard[Head(todo)] + 1,
                         copied |-> copied + 1]
  <2>1. latest'.event = "start" /\ opened'.copied = copied'
    BY <1>1, <1>7 DEF OverStart
  <2>2. (copied' - opened'.copied) * AMax = 0
    BY <1>1, <1>3, <2>1
  <2>3. sql_absval_sum' < THR_OPEN + (copied' - opened'.copied) * AMax
    BY <1>2, <1>3, <1>7, <2>2
  <2> QED
    BY <1>2, <2>1, <2>3 DEF LevelInv, NoChatter
<1> QED
  BY <1>2, <1>5, <1>6, <1>7, Outcome

-----------------------------------------------------------------------------
(***************************************************************************)
(* The theorems.                                                           *)
(***************************************************************************)

LEMMA RxInit == Init => RxInv
<1> SUFFICES ASSUME Init PROVE RxInv
  OBVIOUS
<1>1. /\ ULONG \in Nat \ {0} /\ THR_CLOSE \in Nat /\ FrameLimit \in Nat
      /\ DIV \in Nat \ {0} /\ RED_STEP \in Nat \ {0} /\ AMax \in Nat
      /\ THR_CLOSE < DIV * (AMax + 1)
  BY ReceiverAssumption DEF ReceiverAssumption
<1>2. LoopInv
  BY <1>1 DEF Init, LoopInv, Due
<1>3. BufferInv
  BY Sizes DEF Init, BufferInv, Room
<1>4. EventInv /\ LengthInv
  BY DEF Init, S!Init, EventInv, EventsPaired, LengthInv, AiredFits,
         DurationIsAirTime, NoEvent
<1>5. TimeInv
  <2>1. copied = 0
    BY DEF Init, copied, Rx
  <2> QED
    BY <1>1, <2>1 DEF Init, S!Init, TimeInv
<1>6. LevelInv
  <2>1. DIV * (AMax + 1) \in Nat
    BY <1>1, SP!Scale
  <2> DEFINE m == DIV * (AMax + 1)
  <2>2. m \in Nat /\ THR_CLOSE < m
    BY <1>1, <2>1
  <2> HIDE DEF m
  <2>3. THR_CLOSE \in 0..(m - 1)
    BY <1>1, <2>2
  <2>4. S!TypeOK
    <3>1. 0 \in 0..(RED_STEP - 1) /\ 0 \in 0..AMax
      BY <1>1
    <3> QED
      BY <2>3, <3>1 DEF m, Init, S!Init, S!TypeOK
  <2> QED
    BY <2>4 DEF Init, S!Init, LevelInv, NoChatter, NoEvent
<1>7. DOMAIN scan = Rx
  BY DEF Init
<1> QED
  BY <1>2, <1>3, <1>4, <1>5, <1>6, <1>7 DEF RxInv

\* What is not a sample changes neither the squelch nor the events.
LEMMA Elsewhere ==
  ASSUME [Next]_vars
  PROVE  \/ \E a \in Amps : copy_buffer(a) /\ mode' = mode
         \/ UNCHANGED <<mode, squelch, statics, clock, heard, scan, opened,
                       latest, previous>>
<1>1. CASE UNCHANGED vars
  BY <1>1 DEF vars, history
<1>2. CASE (Read \/ Finish \/ receiver_run \/ Return) /\ mode' = mode
  BY <1>2 DEF Read, Finish, receiver_run, Return, history
<1> QED
  BY <1>1, <1>2 DEF Next, Stopped

LEMMA RxStep == ASSUME RxInv, [Next]_vars PROVE RxInv'
<1>1. LoopInv' /\ BufferInv'
  BY LoopStep, BufferStep DEF RxInv
<1>2. ASSUME NEW a \in Amps, copy_buffer(a), mode' = mode
      PROVE  EventInv' /\ TimeInv' /\ LengthInv' /\ LevelInv'
  BY <1>2, EventCopy, TimeCopy, LengthCopy, LevelCopy DEF RxInv, LevelInv
<1>3. ASSUME UNCHANGED <<mode, squelch, statics, clock, heard, scan, opened,
                         latest, previous>>
      PROVE  EventInv' /\ TimeInv' /\ LengthInv' /\ LevelInv'
  <2>1. copied' = copied
    BY <1>3 DEF copied
  <2>2. EventInv' /\ LengthInv'
    BY <1>3 DEF RxInv, EventInv, EventsPaired, LengthInv, AiredFits,
                DurationIsAirTime, squelch, statics
  <2>3. TimeInv'
    BY <1>3, <2>1 DEF RxInv, TimeInv, Decoded, squelch, statics
  <2>4. LevelInv'
    BY <1>3, <2>1 DEF RxInv, LevelInv, NoChatter, S!TypeOK, squelch
  <2> QED
    BY <2>2, <2>3, <2>4
<1>4. DOMAIN scan' = Rx
  <2>1. ASSUME NEW a \in Amps, copy_buffer(a) PROVE DOMAIN scan' = DOMAIN scan
    BY <2>1, Outcome DEF RxInv, LevelInv
  <2> QED
    BY <2>1, Elsewhere DEF RxInv
<1> QED
  BY <1>1, <1>2, <1>3, <1>4, Elsewhere DEF RxInv

\* The invariant behind what follows: the loop, the positions in the buffers,
\* the events, the counters and the level of receiver.c agree in every state.
THEOREM RxInductive == Spec => []RxInv
  BY RxInit, RxStep, PTL DEF Spec

\* Every access of receiver_run and copy_buffer is inside struct receiver, and
\* the memcpy of receiver_run copies between places that do not overlap, for
\* every length of a chunk, number of channels and size of the buffer.
THEOREM InStruct == Spec => []AccessInStruct
<1>1. ASSUME RxInv PROVE AccessInStruct
  <2> DEFINE q == Head(todo)
  <2>1. LoopInv /\ BufferInv /\ len \in Nat /\ od \in Nat
    BY <1>1 DEF RxInv, LoopInv
  <2>2. ASSUME pc = "copy", od < len
        PROVE  Position(q) \in SQL_OPEN_SCAN_LEN..(2 * RECEIVER_BUFLEN - 1)
    <3>1. q \in Rx
      BY <2>1, <2>2, Running
    <3>2. Position(q) = bufpos[q] + od /\ bufpos[q] + len <= Room
      BY <2>1, <2>2 DEF Position, BufferInv
    <3>3. bufpos[q] \in Nat /\ RECEIVER_BUF_COPY <= bufpos[q]
      BY <2>1, <3>1 DEF BufferInv
    <3> QED
      BY <2>1, <2>2, <3>2, <3>3, Sizes
  <2>3. ASSUME pc = "call", len <= RECEIVER_BUFLEN \div 2, Wraps(q)
        PROVE  /\ bufpos[q] >= 2 * RECEIVER_BUF_COPY
               /\ bufpos[q] <= 2 * RECEIVER_BUFLEN
    <3>1. q \in Rx
      BY <2>1, <2>3, Running
    <3>2. bufpos[q] \in Nat /\ bufpos[q] <= Room
      BY <2>1, <3>1 DEF BufferInv
    <3>3. len <= 2 * RECEIVER_BUF_COPY /\ len \div num_ch <= len
      BY <2>1, <2>3, Sizes DEF num_ch
    <3> QED
      BY <2>1, <2>3, <3>2, <3>3, Sizes DEF Wraps, num_ch
  <2> QED
    BY <2>2, <2>3 DEF AccessInStruct
<1> QED
  BY <1>1, RxInductive, PTL

\* With a mono card the samples stay in buffer_sql itself.
THEOREM MonoStaysInside == Spec => []MonoInBounds
<1>1. ASSUME RxInv PROVE MonoInBounds
  <2> SUFFICES ASSUME mode = "mono", pc = "copy", od < len
               PROVE  Position(Head(todo)) < RECEIVER_BUFLEN
    BY DEF MonoInBounds, BufferSqlInBounds
  <2>1. Head(todo) \in Rx
    BY <1>1, Running DEF RxInv
  <2>2. bufpos[Head(todo)] \in Nat /\ bufpos[Head(todo)] + len <= RECEIVER_BUFLEN
    BY <1>1, <2>1 DEF RxInv, BufferInv, Room
  <2> QED
    BY <1>1, <2>2, Sizes DEF RxInv, LoopInv, Position
<1> QED
  BY <1>1, RxInductive, PTL

\* Openings and ends of overs alternate, and an end has the id of its opening.
THEOREM Paired == Spec => []EventsPaired
  BY RxInductive, PTL DEF RxInv, EventInv

\* An over lasts as long as the hysteresis makes it.
THEOREM Hysteresis == Spec => []NoChatter
  BY RxInductive, PTL DEF RxInv, LevelInv

\* The length that is reported for an over is the time it was on the air, as
\* long as an unsigned long holds 1000 times its samples, although the counters
\* themselves wrap around.
THEOREM LengthIsRight == Spec => [](AiredFits => DurationIsAirTime)
  BY RxInductive, PTL DEF RxInv, LengthInv

\* The receivers implement the squelch together: whichever of them a sample
\* belongs to, it is one step of the one squelch, which follows its level.
THEOREM SharedSquelch == Spec => []SquelchTracksLevel
<1>1. Init => SP!Init
  BY DEF Init, S!Init, SP!Init
<1>2. ASSUME [Next]_vars PROVE [SP!Next]_(SP!sqlvars)
  <2>1. ASSUME NEW a \in Amps, copy_buffer(a) PROVE SP!Sample(a)
    BY <2>1 DEF copy_buffer, S!Sample, SP!Sample, S!Integrate, SP!Integrate,
                S!Looks, SP!Looks, S!Opens, SP!Opens, S!Closes, SP!Closes
  <2>2. CASE UNCHANGED squelch
    BY <2>2 DEF squelch, SP!sqlvars
  <2> QED
    BY <1>2, <2>1, <2>2, Elsewhere DEF SP!Next
<1>3. SP!StateTracksLevel => SquelchTracksLevel
  BY DEF SP!StateTracksLevel, S!StateTracksLevel, SquelchTracksLevel
<1> QED
  BY <1>1, <1>2, <1>3, SP!TracksLevel, SquelchSizes, PTL DEF Spec, SP!Spec

-----------------------------------------------------------------------------
(***************************************************************************)
(* The windows that are searched.                                          *)
(***************************************************************************)

\* The samples of a channel before its next one, and how a sample shifts them.
Win(r) == Recent(r, Position(r))
Shifted(r, x) == [i \in 1..SQL_OPEN_SCAN_LEN |->
                    IF i = SQL_OPEN_SCAN_LEN THEN x ELSE Win(r)[i + 1]]

\* Wrapping the buffer around keeps the window.
LEMMA WindowCall ==
  ASSUME RxInv, receiver_run, NEW r \in Rx, mode' = mode
  PROVE  Win(r)' = Win(r) /\ scan' = scan
<1> DEFINE q == Head(todo)
           p == bufpos[r]
<1>1. /\ pc = "call" /\ scan' = scan /\ todo' = todo
      /\ \/ pc' = "aborted" /\ UNCHANGED buffers
         \/ /\ pc' = "copy" /\ od' = 0
            /\ \/ /\ memory' = [memory EXCEPT ![q] = KeptAtFront(@, bufpos[q])]
                  /\ bufpos' = [bufpos EXCEPT ![q] = RECEIVER_BUF_COPY]
               \/ UNCHANGED buffers
  BY DEF receiver_run, history
<1>2. /\ q \in Rx /\ p \in Nat /\ RECEIVER_BUF_COPY <= p
      /\ bufpos \in [Rx -> Nat]
      /\ memory \in [Rx -> [0..(2 * RECEIVER_BUFLEN - 1) -> Nat]]
  BY <1>1, Running DEF RxInv, BufferInv
<1>3. Position(r) = p
  BY <1>1, <1>2 DEF Position
<1>4. CASE UNCHANGED buffers
  <2>1. Position(r)' = p
    BY <1>1, <1>2, <1>4 DEF Position, buffers
  <2> QED
    BY <1>1, <1>3, <1>4, <2>1 DEF Win, Recent, buffers
<1>5. CASE /\ pc' = "copy" /\ od' = 0
           /\ memory' = [memory EXCEPT ![q] = KeptAtFront(@, bufpos[q])]
           /\ bufpos' = [bufpos EXCEPT ![q] = RECEIVER_BUF_COPY]
  <2>1. CASE r = q
    <3>1. Position(r)' = RECEIVER_BUF_COPY
      BY <1>1, <1>2, <1>5, <2>1, Sizes DEF Position
    <3>2. memory'[r] = KeptAtFront(memory[r], p)
      BY <1>2, <1>5, <2>1
    <3>3. ASSUME NEW i \in 1..SQL_OPEN_SCAN_LEN
          PROVE  memory'[r][RECEIVER_BUF_COPY - SQL_OPEN_SCAN_LEN + i - 1]
                   = memory[r][p - SQL_OPEN_SCAN_LEN + i - 1]
      <4> DEFINE k == RECEIVER_BUF_COPY - SQL_OPEN_SCAN_LEN + i - 1
      <4>1. /\ k \in 0..(2 * RECEIVER_BUFLEN - 1) /\ k < RECEIVER_BUF_COPY
            /\ p - RECEIVER_BUF_COPY + k = p - SQL_OPEN_SCAN_LEN + i - 1
        BY <1>2, Sizes
      <4> HIDE DEF k
      <4>2. KeptAtFront(memory[r], p)[k] = memory[r][p - RECEIVER_BUF_COPY + k]
        BY <1>2, <4>1 DEF KeptAtFront
      <4> QED
        BY <3>2, <4>1, <4>2 DEF k
    <3> QED
      BY <1>1, <1>3, <3>1, <3>3 DEF Win, Recent
  <2>2. CASE r # q
    <3>1. Position(r)' = p /\ memory'[r] = memory[r]
      BY <1>1, <1>2, <1>5, <2>2 DEF Position
    <3> QED
      BY <1>1, <1>3, <3>1 DEF Win, Recent
  <2> QED
    BY <2>1, <2>2
<1> QED
  BY <1>1, <1>4, <1>5

\* A sample shifts the window of its channel, whose reader may look at it just
\* before; the other window stays.
LEMMA WindowCopy ==
  ASSUME RxInv, NEW a \in Amps, copy_buffer(a), NEW r \in Rx, mode' = mode
  PROVE  \/ Win(r)' = Win(r) /\ scan'[r] = scan[r]
         \/ \E x \in 0..FrameLimit :
              Win(r)' = Shifted(r, x) /\ scan'[r] \in {Win(r), scan[r]}
<1> DEFINE q == Head(todo)
           p == bufpos[q] + od
<1>1. /\ pc = "copy" /\ od < len /\ pc' = pc /\ todo' = todo /\ od' = od + 1
      /\ bufpos' = bufpos
      /\ memory' = [memory EXCEPT ![q][p] = heard[q] + 1]
      /\ scan' = scan \/ scan' = [scan EXCEPT ![q] = Recent(q, ScanEnd(q))]
  BY Outcome DEF copy_buffer, RxInv, LevelInv
<1>2. /\ q \in Rx /\ bufpos \in [Rx -> Nat] /\ od \in Nat
      /\ memory \in [Rx -> [0..(2 * RECEIVER_BUFLEN - 1) -> Nat]]
      /\ RECEIVER_BUF_COPY <= bufpos[q] /\ bufpos[q] + len <= Room
      /\ heard[q] \in Nat /\ len \in Nat
  BY <1>1, Running DEF RxInv, BufferInv, LoopInv
<1>3. p \in Nat /\ RECEIVER_BUF_COPY <= p /\ p < 2 * RECEIVER_BUFLEN
  <2>1. bufpos[q] \in Nat /\ od < len
    BY <1>1, <1>2
  <2>2. p < Room
    BY <1>2, <2>1, Sizes
  <2>3. p \in Nat
    BY <1>2, <2>1
  <2>4. /\ RECEIVER_BUF_COPY \in Nat /\ RECEIVER_BUFLEN \in Nat /\ Room \in Nat
        /\ Room < 2 * RECEIVER_BUFLEN
    BY Sizes
  <2>5. RECEIVER_BUF_COPY <= p
    BY ONLY <1>2, <2>1, <2>4
  <2> HIDE DEF p
  <2> QED
    BY <2>2, <2>3, <2>4, <2>5
<1>4. CASE r # q
  <2>1. /\ Position(r)' = Position(r) /\ memory'[r] = memory[r]
        /\ Position(r) = bufpos[r]
    BY <1>1, <1>2, <1>4 DEF Position
  <2>2. Win(r)' = Win(r)
    BY <2>1 DEF Win, Recent
  <2>3. scan'[r] = scan[r]
    BY <1>1, <1>4 DEF RxInv
  <2> QED
    BY <2>2, <2>3
<1>5. CASE r = q
  <2>1. Position(r) = p /\ Position(r)' = bufpos[q] + (od + 1)
    BY <1>1, <1>5 DEF Position
  <2>2. Position(r)' = p + 1
    BY <1>2, <2>1
  <2>3. Win(r) = Recent(q, ScanEnd(q))
    BY <1>5, <2>1 DEF Win, ScanEnd
  <2>4. scan'[r] \in {Win(r), scan[r]}
    BY <1>1, <1>2, <1>5, <2>3 DEF RxInv
  <2>5. heard[q] + 1 \in 0..FrameLimit
    <3>1. Due(q) = len - od
      BY <1>1 DEF Due
    <3>2. heard[q] + Due(q) <= frames /\ frames \in 0..FrameLimit
      BY <1>2 DEF RxInv, LoopInv
    <3>3. FrameLimit \in Nat
      BY ReceiverAssumption DEF ReceiverAssumption
    <3> QED
      BY <1>1, <1>2, <3>1, <3>2, <3>3
  <2>6. memory'[r] = [memory[r] EXCEPT ![p] = heard[q] + 1]
    BY <1>1, <1>2, <1>5
  <2>7. ASSUME NEW i \in 1..SQL_OPEN_SCAN_LEN
        PROVE  memory'[r][(p + 1) - SQL_OPEN_SCAN_LEN + i - 1]
                 = IF i = SQL_OPEN_SCAN_LEN THEN heard[q] + 1
                   ELSE memory[r][p - SQL_OPEN_SCAN_LEN + (i + 1) - 1]
    <3> DEFINE k == (p + 1) - SQL_OPEN_SCAN_LEN + i - 1
    <3>1. /\ k \in 0..(2 * RECEIVER_BUFLEN - 1)
          /\ k = p <=> i = SQL_OPEN_SCAN_LEN
          /\ k = p - SQL_OPEN_SCAN_LEN + (i + 1) - 1
      BY <1>3, Sizes
    <3> HIDE DEF k
    <3>2. memory'[r][k] = IF k = p THEN heard[q] + 1 ELSE memory[r][k]
      BY <1>2, <2>6, <3>1
    <3> QED
      BY <3>1, <3>2 DEF k
  <2>8. Win(r)' = Shifted(r, heard[q] + 1)
    <3>1. Win(r)' = [i \in 1..SQL_OPEN_SCAN_LEN |->
                       memory'[r][(p + 1) - SQL_OPEN_SCAN_LEN + i - 1]]
      BY <2>2 DEF Win, Recent
    <3>2. ASSUME NEW i \in 1..SQL_OPEN_SCAN_LEN, i # SQL_OPEN_SCAN_LEN
          PROVE  Win(r)[i + 1] = memory[r][p - SQL_OPEN_SCAN_LEN + (i + 1) - 1]
      <4>1. i + 1 \in 1..SQL_OPEN_SCAN_LEN
        BY <3>2, Sizes
      <4> QED
        BY <2>1, <4>1 DEF Win, Recent
    <3> QED
      BY <2>7, <3>1, <3>2 DEF Shifted
  <2> QED
    BY <2>5, <2>8, <2>4
<1> QED
  BY <1>4, <1>5

LEMMA WindowReturn ==
  ASSUME RxInv, Return, NEW r \in Rx, mode' = mode
  PROVE  Win(r)' = Win(r) /\ scan' = scan
<1>1. /\ pc = "copy" /\ pc' # "copy" /\ memory' = memory /\ scan' = scan
      /\ bufpos' = [bufpos EXCEPT ![Head(todo)] = @ + od]
  BY DEF Return, history
<1>2. bufpos \in [Rx -> Nat] /\ od \in Nat
  BY DEF RxInv, BufferInv, LoopInv
<1>3. Position(r)' = Position(r)
  BY <1>1, <1>2 DEF Position
<1> QED
  BY <1>1, <1>3 DEF Win, Recent

LEMMA WindowStep ==
  ASSUME RxInv, [Next]_vars, NEW r \in Rx
  PROVE  \/ Win(r)' = Win(r) /\ scan'[r] = scan[r]
         \/ \E x \in 0..FrameLimit :
              Win(r)' = Shifted(r, x) /\ scan'[r] \in {Win(r), scan[r]}
<1>1. CASE (Read \/ Finish) /\ mode' = mode
  BY <1>1 DEF Read, Finish, Win, Recent, Position, buffers, history
<1>2. CASE UNCHANGED vars
  BY <1>2 DEF vars, buffers, loop, history, Win, Recent, Position
<1> QED
  BY <1>1, <1>2, WindowCall, WindowCopy, WindowReturn DEF Next, Stopped

LEMMA WindowStart ==
  ASSUME Init, NEW r \in Rx
  PROVE  /\ Win(r) = [i \in 1..SQL_OPEN_SCAN_LEN |-> 0]
         /\ scan[r] = [i \in 1..SQL_OPEN_SCAN_LEN |-> 0]
<1>1. Position(r) = RECEIVER_BUF_COPY
  BY Sizes DEF Init, Position
<1>2. \A i \in 1..SQL_OPEN_SCAN_LEN :
        RECEIVER_BUF_COPY - SQL_OPEN_SCAN_LEN + i - 1 \in 0..(2 * RECEIVER_BUFLEN - 1)
  BY Sizes
<1> QED
  BY <1>1, <1>2 DEF Init, Win, Recent

\* Each receiver implements the sliding window over the samples of its own
\* channel, for every length of the chunks, the buffer and the search, although
\* it keeps wrapping its buffer around and may share a chunk with the other.
THEOREM ReceiverRefinement == Spec => ImplementsWindows
<1>1. Init => WindowA!Init /\ WindowB!Init
  BY WindowStart DEF WindowA!Init, WindowB!Init, Win, Rx
<1>2. RxInv /\ [Next]_vars => [WindowA!Next]_(WindowA!vars)
  <2>1. ASSUME NEW x \in 0..FrameLimit, Win("A")' = Shifted("A", x),
               scan'["A"] \in {Win("A"), scan["A"]}
        PROVE  WindowA!Shift
    <3>1. Win("A")'[SQL_OPEN_SCAN_LEN] = x
      BY <2>1, Sizes DEF Shifted
    <3> QED
      BY <2>1, <3>1 DEF WindowA!Shift, Win, Shifted
  <2> QED
    BY <2>1, WindowStep DEF WindowA!Next, WindowA!vars, Win, Rx
<1>3. RxInv /\ [Next]_vars => [WindowB!Next]_(WindowB!vars)
  <2>1. ASSUME NEW x \in 0..FrameLimit, Win("B")' = Shifted("B", x),
               scan'["B"] \in {Win("B"), scan["B"]}
        PROVE  WindowB!Shift
    <3>1. Win("B")'[SQL_OPEN_SCAN_LEN] = x
      BY <2>1, Sizes DEF Shifted
    <3> QED
      BY <2>1, <3>1 DEF WindowB!Shift, Win, Shifted
  <2> QED
    BY <2>1, WindowStep DEF WindowB!Next, WindowB!vars, Win, Rx
<1> QED
  BY <1>1, <1>2, <1>3, RxInductive, PTL
     DEF Spec, ImplementsWindows, WindowA!Spec, WindowB!Spec
=============================================================================
